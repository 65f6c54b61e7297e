------------------------------ MODULE L3Proofs ------------------------------
(***************************************************************************)
(* The simulator with an order-by-order feed, proved for any constants.    *)
(* The first half is about the operators, for any line of orders, book and *)
(* message: the quantity of a line, what a message makes of the            *)
(* simulator's book and of an order's list of ids ahead, what the methods  *)
(* of the simulator make of one record x, lines in which every id occurs   *)
(* once, what a trade takes from a line and how its updates are told, the  *)
(* front of a line, and what is left of a line.  Every loop of the code is *)
(* a fold, so its effect is proved by induction over the sequence it runs  *)
(* through (FoldTheory).                                                   *)
(* The second half is about the steps; each property has the inductive     *)
(* invariant it needs:                                                     *)
(*   SoundState  the simulator's state is well formed, and every order's   *)
(*               counter is the sum of the list it is about;               *)
(*   FollowInv   the simulator's book, followed by what the feed still     *)
(*               carries, is the venue's book;                             *)
(*   ExactInv    an order's list is the front of the simulator's line, or  *)
(*               of the venue's with only the trade's own updates to come; *)
(*   UnderInv    an order's list has no more in it than the front of the   *)
(*               simulator's line.                                         *)
(***************************************************************************)
EXTENDS L3Exchange, ExchangeLemmas

-----------------------------------------------------------------------------
(***************************************************************************)
(* Lines of orders, and their quantity                                     *)
(***************************************************************************)
Resting == [id : Nat, qty : Nat \ {0}]
AnyEntry == [id : Nat, qty : Nat]

Quantities == INSTANCE FoldTheory WITH Op <- AddQty

LEMMA QtyFold ==
  ASSUME NEW s
  PROVE  QtyOf(s) = Quantities!Fold(0, s)
  BY DEF QtyOf, Quantities!Fold, FoldLeft,
         Quantities!MapThenFoldSet, MapThenFoldSet, Quantities!Latest, Max

LEMMA QtyOfEmpty == QtyOf(<<>>) = 0
  BY QtyFold, Quantities!FoldOfEmpty

LEMMA QtyOfAppend ==
  ASSUME NEW E, NEW s \in Seq(E), NEW e \in E
  PROVE  QtyOf(Append(s, e)) = QtyOf(s) + e.qty
  BY QtyFold, Quantities!FoldOfAppend DEF AddQty

LEMMA RestingIsEntry ==
  /\ Resting \subseteq AnyEntry
  /\ \A s \in Seq(Resting) : s \in Seq(AnyEntry)
<1>1. Resting \subseteq AnyEntry
  BY DEF Resting, AnyEntry
<1>2. QED
  BY <1>1, SeqMonotonic

LEMMA QtyIsNat ==
  ASSUME NEW s \in Seq(AnyEntry)
  PROVE  QtyOf(s) \in Nat
<1> DEFINE Good == {t \in Seq(AnyEntry) : QtyOf(t) \in Nat}
<1>1. <<>> \in Good
  BY QtyOfEmpty, EmptySeq
<1>2. ASSUME NEW t \in Seq(AnyEntry), NEW e \in AnyEntry, t \in Good PROVE Append(t, e) \in Good
  <2>1. e.qty \in Nat /\ QtyOf(t) \in Nat /\ Append(t, e) \in Seq(AnyEntry)
    BY <1>2, AppendProperties DEF AnyEntry
  <2>2. QED
    BY <2>1, QtyOfAppend
<1> HIDE DEF Good
<1>3. s \in Good
  BY <1>1, <1>2, Quantities!SeqSetInduction
<1>4. QED
  BY <1>3 DEF Good

LEMMA QtyOfConcat ==
  ASSUME NEW s \in Seq(AnyEntry), NEW t \in Seq(AnyEntry)
  PROVE  QtyOf(s \o t) = QtyOf(s) + QtyOf(t)
<1> DEFINE Good == {u \in Seq(AnyEntry) : QtyOf(s \o u) = QtyOf(s) + QtyOf(u)}
<1>0. QtyOf(s) \in Nat
  BY QtyIsNat
<1>1. <<>> \in Good
  BY <1>0, QtyOfEmpty, EmptySeq, ConcatEmptySeq
<1>2. ASSUME NEW u \in Seq(AnyEntry), NEW e \in AnyEntry, u \in Good PROVE Append(u, e) \in Good
  <2>1. /\ Append(u, e) \in Seq(AnyEntry) /\ s \o u \in Seq(AnyEntry)
        /\ <<e>> \in Seq(AnyEntry) /\ QtyOf(s \o u) = QtyOf(s) + QtyOf(u)
    BY <1>2, AppendProperties, ConcatProperties
  <2>2. s \o Append(u, e) = Append(s \o u, e)
    BY SMTT(60), <2>1, AppendIsConcat, ConcatAssociative
  <2>3. /\ QtyOf(Append(s \o u, e)) = QtyOf(s \o u) + e.qty
        /\ QtyOf(Append(u, e)) = QtyOf(u) + e.qty
    BY <2>1, QtyOfAppend
  <2>4. e.qty \in Nat /\ QtyOf(u) \in Nat
    BY QtyIsNat DEF AnyEntry
  <2>5. (QtyOf(s) + QtyOf(u)) + e.qty = QtyOf(s) + (QtyOf(u) + e.qty)
    BY <1>0, <2>4
  <2>6. QtyOf(s \o Append(u, e)) = QtyOf(s) + QtyOf(Append(u, e))
    BY <2>1, <2>2, <2>3, <2>5, Zenon
  <2>7. QED
    BY <2>1, <2>6
<1> HIDE DEF Good
<1>3. t \in Good
  BY <1>1, <1>2, Quantities!SeqSetInduction
<1>4. QED
  BY <1>3 DEF Good

LEMMA QtyOfOne ==
  ASSUME NEW e \in AnyEntry
  PROVE  QtyOf(<<e>>) = e.qty
<1>1. <<>> \in Seq(AnyEntry) /\ Append(<<>>, e) = <<e>>
  BY EmptySeq
<1>2. e.qty \in Nat
  BY DEF AnyEntry
<1>3. QtyOf(Append(<<>>, e)) = QtyOf(<<>>) + e.qty
  BY <1>1, QtyOfAppend
<1>4. QED
  BY <1>1, <1>2, <1>3, QtyOfEmpty

\* A line in which something rests has a quantity.
LEMMA NothingRests ==
  ASSUME NEW s \in Seq(Resting), QtyOf(s) = 0
  PROVE  s = <<>>
<1> DEFINE Good == {t \in Seq(Resting) : QtyOf(t) = 0 => t = <<>>}
<1>1. <<>> \in Good
  BY EmptySeq
<1>2. ASSUME NEW t \in Seq(Resting), NEW e \in Resting, t \in Good PROVE Append(t, e) \in Good
  <2>1. e.qty \in Nat \ {0} /\ QtyOf(t) \in Nat /\ Append(t, e) \in Seq(Resting)
    BY RestingIsEntry, QtyIsNat, AppendProperties DEF Resting
  <2>2. QtyOf(Append(t, e)) = QtyOf(t) + e.qty
    BY QtyOfAppend
  <2>3. QED
    BY <2>1, <2>2
<1> HIDE DEF Good
<1>3. s \in Good
  BY <1>1, <1>2, Quantities!SeqSetInduction
<1>4. QED
  BY <1>3 DEF Good

(***************************************************************************)
(* A line around one of its places.                                        *)
(***************************************************************************)
LEMMA BothSides ==
  ASSUME NEW E, NEW s \in Seq(E), NEW i \in 1 .. Len(s)
  PROVE  LET a == SubSeq(s, 1, i - 1)
             b == SubSeq(s, i + 1, Len(s))
         IN  /\ a \in Seq(E) /\ Len(a) = i - 1 /\ \A j \in 1 .. i - 1 : a[j] = s[j]
             /\ b \in Seq(E) /\ Len(b) = Len(s) - i
             /\ \A j \in 1 .. Len(s) - i : b[j] = s[i + j]
<1> DEFINE n == Len(s)
           a == SubSeq(s, 1, i - 1)
           b == SubSeq(s, i + 1, n)
<1>1. /\ n \in Nat /\ i \in Nat /\ i <= n /\ 1 <= i
      /\ DOMAIN s = 1 .. n /\ s[i] \in E
  BY LenProperties, ElementOfSeq
<1>2. \A j \in 1 .. n : s[j] \in E
  BY ElementOfSeq
<1>3. a \in Seq(E) /\ Len(a) = i - 1 /\ \A j \in 1 .. i - 1 : a[j] = s[j]
  <2>1. \A j \in 1 .. i - 1 : s[j] \in E
    BY <1>1, <1>2
  <2> DEFINE m == i - 1
  <2>2. m \in Int /\ (1 <= m + 1) /\ m - 1 + 1 = m /\ m \in Nat
    BY <1>1
  <2> HIDE DEF m
  <2>3. /\ SubSeq(s, 1, m) \in Seq(E) 
        /\ Len(SubSeq(s, 1, m)) = IF 1 <= m THEN m - 1 + 1 ELSE 0
        /\ \A j \in 1 .. m - 1 + 1 : SubSeq(s, 1, m)[j] = s[1 + j - 1]
    BY <2>1, <2>2, SubSeqProperties DEF m
  <2>4. \A j \in 1 .. m : 1 + j - 1 = j
    OBVIOUS
  <2>5. QED
    BY <2>2, <2>3, <2>4 DEF m
<1>4. b \in Seq(E) /\ Len(b) = n - i /\ \A j \in 1 .. n - i : b[j] = s[i + j]
  <2> DEFINE m == i + 1
  <2>0. m \in Int /\ n \in Int /\ n - i \in Nat
    BY <1>1
  <2>1. n - m + 1 = n - i /\ (m <= n <=> n - i # 0)
    <3>1. \A x, y \in Nat : y <= x =>
            x - (y + 1) + 1 = x - y /\ (y + 1 <= x <=> x - y # 0)
      OBVIOUS
    <3> HIDE DEF n
    <3>2. QED
      BY <1>1, <3>1
  <2>2. \A j \in m .. n : s[j] \in E
    BY <1>1, <1>2
  <2>3. \A j \in 1 .. n - i : m + j - 1 = i + j
    BY <1>1
  <2> HIDE DEF m
  <2>4. /\ SubSeq(s, m, n) \in Seq(E)
        /\ Len(SubSeq(s, m, n)) = IF m <= n THEN n - m + 1 ELSE 0
        /\ \A j \in 1 .. n - m + 1 : SubSeq(s, m, n)[j] = s[m + j - 1]
    BY <2>0, <2>2, SubSeqProperties
  <2>5. b = SubSeq(s, m, n)
    BY DEF m
  <2> HIDE DEF b
  <2>6. QED
    BY <2>0, <2>1, <2>3, <2>4, <2>5
<1>5. QED
  BY <1>3, <1>4

LEMMA Replaced ==
  ASSUME NEW E, NEW s \in Seq(E), NEW i \in 1 .. Len(s), NEW e \in E
  PROVE  [s EXCEPT ![i] = e] = (SubSeq(s, 1, i - 1) \o <<e>>) \o SubSeq(s, i + 1, Len(s))
<1> DEFINE n == Len(s)
           a == SubSeq(s, 1, i - 1)
           b == SubSeq(s, i + 1, n)
<1>1. /\ n \in Nat /\ i \in Nat /\ i <= n /\ 1 <= i
      /\ DOMAIN s = 1 .. n /\ s[i] \in E
  BY LenProperties, ElementOfSeq
<1>3. a \in Seq(E) /\ Len(a) = i - 1 /\ \A j \in 1 .. i - 1 : a[j] = s[j]
  BY BothSides
<1>4. b \in Seq(E) /\ Len(b) = n - i /\ \A j \in 1 .. n - i : b[j] = s[i + j]
  BY BothSides
<1>5. [s EXCEPT ![i] = e] = (a \o <<e>>) \o b
  <2> DEFINE l == [s EXCEPT ![i] = e]
             r == (a \o <<e>>) \o b
  <2>1. l \in Seq(E) /\ Len(l) = n /\ l[i] = e /\ \A j \in 1 .. n : j # i => l[j] = s[j]
    BY <1>1, ExceptSeq
  <2>2. /\ <<e>> \in Seq(E) /\ Len(<<e>>) = 1 /\ <<e>>[1] = e
    OBVIOUS
  <2> HIDE DEF a, b, l
  <2> DEFINE c == a \o <<e>>
  <2>3. /\ c \in Seq(E) /\ Len(c) = i /\ c[i] = e /\ \A j \in 1 .. i - 1 : c[j] = s[j]
    <3>1. /\ c \in Seq(E) /\ Len(c) = Len(a) + 1
          /\ \A j \in 1 .. Len(a) + 1 : c[j] = IF j <= Len(a) THEN a[j] ELSE <<e>>[j - Len(a)]
      BY <1>3, <2>2, ConcatProperties
    <3> HIDE DEF c
    <3>2. Len(a) = i - 1 /\ i \in 1 .. Len(a) + 1 /\ ~(i <= Len(a)) /\ i - Len(a) = 1
      BY <1>1, <1>3
    <3>3. c[i] = e
      BY <2>2, <3>1, <3>2
    <3>4. ASSUME NEW j \in 1 .. i - 1 PROVE c[j] = s[j]
      <4>1. j \in 1 .. Len(a) + 1 /\ j <= Len(a)
        BY <1>1, <3>2
      <4>2. QED
        BY <1>3, <3>1, <4>1
    <3>5. Len(c) = i
      BY <1>1, <3>1, <3>2
    <3>6. QED
      BY <3>1, <3>3, <3>4, <3>5
  <2>4. r = c \o b
    OBVIOUS
  <2> HIDE DEF c, r
  <2>5. /\ r \in Seq(E) /\ Len(r) = n
        /\ \A j \in 1 .. n : r[j] = IF j <= i THEN c[j] ELSE b[j - i]
    <3>1. /\ c \o b \in Seq(E) /\ Len(c \o b) = Len(c) + Len(b)
          /\ \A j \in 1 .. Len(c) + Len(b) :
               (c \o b)[j] = IF j <= Len(c) THEN c[j] ELSE b[j - Len(c)]
      BY ZenonT(60), <1>4, <2>3, ConcatProperties
    <3>2. Len(c) = i /\ Len(b) = n - i /\ i + (n - i) = n
      BY <1>1, <1>4, <2>3
    <3>3. QED
      BY <2>4, <3>1, <3>2
  <2>6. ASSUME NEW j \in 1 .. n PROVE l[j] = r[j]
    <3>1. CASE j = i
      BY <1>1, <2>1, <2>3, <2>5, <3>1
    <3>2. CASE j < i
      <4>1. j \in 1 .. i - 1 /\ j <= i
        BY <1>1, <3>2
      <4>2. QED
        BY <2>1, <2>3, <2>5, <3>2, <4>1
    <3>3. CASE j > i
      <4>1. j - i \in 1 .. n - i /\ i + (j - i) = j /\ ~(j <= i)
        BY <1>1, <3>3
      <4>2. r[j] = s[i + (j - i)]
        BY <1>4, <2>5, <4>1
      <4>3. QED
        BY <2>1, <3>3, <4>1, <4>2
    <3>4. QED
      BY <1>1, <3>1, <3>2, <3>3
  <2>7. l = r
    BY <2>1, <2>5, <2>6, SeqEqual
  <2>8. QED
    BY <2>7 DEF l, r
<1>6. QED
  BY <1>5

LEMMA Around ==
  ASSUME NEW E, NEW s \in Seq(E), NEW i \in 1 .. Len(s)
  PROVE  LET a == SubSeq(s, 1, i - 1)
             b == SubSeq(s, i + 1, Len(s))
         IN  /\ a \in Seq(E) /\ b \in Seq(E) /\ Len(a) = i - 1
             /\ \A j \in 1 .. i - 1 : a[j] = s[j]
             /\ s = (a \o <<s[i]>>) \o b
             /\ RemoveAt(s, i) = a \o b
<1> DEFINE a == SubSeq(s, 1, i - 1)
           b == SubSeq(s, i + 1, Len(s))
           e == s[i]
<1>1. e \in E /\ [s EXCEPT ![i] = e] = s
  BY ElementOfSeq, LenProperties
<1>2. [s EXCEPT ![i] = e] = (a \o <<e>>) \o b
  <2> HIDE DEF e
  <2>1. QED
    BY ZenonT(60), <1>1, Replaced
<1>3. RemoveAt(s, i) = a \o b
  BY DEF RemoveAt
<1>4. QED
  BY ZenonT(60), <1>1, <1>2, <1>3, BothSides

\* Only what is in the sequence decides about what is kept of it.
LEMMA KeptOfOwn ==
  ASSUME NEW E, NEW s \in Seq(E), NEW T, NEW U, \A e \in ToSet(s) : e \in T <=> e \in U
  PROVE  Kept(s, T) = Kept(s, U)
<1> DEFINE own == ToSet(s)
<1>1. own = {s[j] : j \in 1 .. Len(s)}
  BY LenProperties DEF ToSet
<1>2. s \in Seq(own)
  <2>1. \A j \in 1 .. Len(s) : s[j] \in own
    BY <1>1
  <2> HIDE DEF own
  <2>2. s = [j \in 1 .. Len(s) |-> s[j]] /\ Len(s) \in Nat
    BY LenProperties
  <2>3. QED
    BY <2>1, <2>2, IsASeq
<1>3. own \cap T = own \cap U
  OBVIOUS
<1> HIDE DEF own
<1>4. QED
  BY <1>2, <1>3, KeptSame

\* An order with a quantity is kept: what goes has none.
LEMMA KeptQty ==
  ASSUME NEW s \in Seq(AnyEntry), NEW T, \A e \in ToSet(s) : e \in T <=> e.qty > 0
  PROVE  Kept(s, T) \in Seq(Resting) /\ QtyOf(Kept(s, T)) = QtyOf(s)
<1> DEFINE U == {e \in AnyEntry : e.qty > 0}
           Good == {t \in Seq(AnyEntry) : QtyOf(Kept(t, U)) = QtyOf(t)}
<1>1. U = Resting
  <2>1. ASSUME NEW e \in U PROVE e \in Resting
    <3>1. e = [id |-> e.id, qty |-> e.qty] /\ e.id \in Nat /\ e.qty \in Nat \ {0}
      BY DEF AnyEntry
    <3>2. QED
      BY <3>1 DEF Resting
  <2>2. ASSUME NEW e \in Resting PROVE e \in U
    <3>1. e \in AnyEntry /\ e.qty \in Nat \ {0}
      BY RestingIsEntry DEF Resting
    <3>2. QED
      BY <3>1
  <2>3. QED
    BY <2>1, <2>2
<1>2. Kept(s, T) = Kept(s, U)
  <2>1. \A e \in ToSet(s) : e \in AnyEntry
    BY ElementOfSeq, LenProperties DEF ToSet
  <2>2. QED
    BY <2>1, KeptOfOwn
<1>3. \A t \in Seq(AnyEntry) : Kept(t, U) \in Seq(Resting)
  <2>1. \A t \in Seq(AnyEntry) : Kept(t, U) \in Seq(AnyEntry \cap U)
    BY KeptType
  <2>2. AnyEntry \cap U = Resting
    BY <1>1, RestingIsEntry
  <2>3. QED
    BY <2>1, <2>2
<1>4. <<>> \in Good
  BY EmptySeq, KeptOfEmpty
<1>5. ASSUME NEW t \in Seq(AnyEntry), NEW e \in AnyEntry, t \in Good PROVE Append(t, e) \in Good
  <2>1. /\ Append(t, e) \in Seq(AnyEntry) /\ QtyOf(Kept(t, U)) = QtyOf(t)
        /\ Kept(t, U) \in Seq(AnyEntry) /\ QtyOf(t) \in Nat /\ e.qty \in Nat
    BY <1>3, <1>5, AppendProperties, RestingIsEntry, QtyIsNat DEF AnyEntry
  <2>2. QtyOf(Append(t, e)) = QtyOf(t) + e.qty
    BY QtyOfAppend
  <2>3. CASE e \in U
    <3>1. Kept(Append(t, e), U) = Append(Kept(t, U), e)
      BY <2>3, KeptOfAppend
    <3>2. QtyOf(Append(Kept(t, U), e)) = QtyOf(Kept(t, U)) + e.qty
      BY <2>1, QtyOfAppend
    <3>3. QED
      BY <2>1, <2>2, <3>1, <3>2
  <2>4. CASE e \notin U
    <3>1. Kept(Append(t, e), U) = Kept(t, U)
      BY <2>4, KeptOfAppend
    <3>2. e.qty = 0
      BY <2>1, <2>4
    <3>3. QED
      BY <2>1, <2>2, <3>1, <3>2
  <2>5. QED
    BY <2>3, <2>4
<1> HIDE DEF Good
<1>6. s \in Good
  BY <1>4, <1>5, Quantities!SeqSetInduction
<1>7. QED
  BY <1>2, <1>3, <1>6 DEF Good

(***************************************************************************)
(* The first order of an id.                                               *)
(***************************************************************************)
LEMMA LeastOf ==
  ASSUME NEW I \in SUBSET Nat, I # {}
  PROVE  Min(I) \in I /\ \A y \in I : Min(I) <= y
<1> DEFINE Good == {n \in Nat : (\E x \in I : x <= n) => \E x \in I : \A y \in I : x <= y}
<1>1. 0 \in Good
  OBVIOUS
<1>2. ASSUME NEW n \in Nat, n \in Good PROVE n + 1 \in Good
  <2>1. CASE \E x \in I : x <= n
    BY <1>2, <2>1
  <2>2. CASE \A x \in I : x > n
    <3>1. \A x, y \in I : x <= n + 1 => x <= y
      BY <2>2
    <3>2. QED
      BY <3>1
  <2>3. QED
    BY <2>1, <2>2
<1> HIDE DEF Good
<1>3. Nat \subseteq Good
  BY <1>1, <1>2, Quantities!NatSetInduction
<1>4. PICK n \in I : n \in Nat
  OBVIOUS
<1>5. \E x \in I : \A y \in I : x <= y
  BY <1>3, <1>4 DEF Good
<1>6. QED
  BY <1>5 DEF Min

LEMMA PlaceOfIs ==
  ASSUME NEW q, q.ahead \in Seq(AnyEntry), NEW id
  PROVE  LET i == PlaceOf(q, id)
         IN  /\ i = 0 => \A j \in 1 .. Len(q.ahead) : q.ahead[j].id # id
             /\ i # 0 => /\ i \in 1 .. Len(q.ahead) /\ q.ahead[i].id = id
                         /\ \A j \in 1 .. i - 1 : q.ahead[j].id # id
<1> DEFINE I == {j \in 1 .. Len(q.ahead) : q.ahead[j].id = id}
           i == PlaceOf(q, id)
<1>1. i = IF I # {} THEN Min(I) ELSE 0
  BY DEF PlaceOf, SelectInSeq
<1>2. I \in SUBSET Nat
  OBVIOUS
<1>3. CASE I = {}
  BY <1>1, <1>3
<1>4. CASE I # {}
  <2>1. i \in I /\ \A y \in I : i <= y
    BY ZenonT(60), <1>1, <1>2, <1>4, LeastOf
  <2>2. i \in 1 .. Len(q.ahead) /\ q.ahead[i].id = id /\ i # 0
    BY <2>1
  <2>3. ASSUME NEW j \in 1 .. i - 1 PROVE q.ahead[j].id # id
    <3>1. Len(q.ahead) \in Nat
      BY LenProperties
    <3>2. j \in 1 .. Len(q.ahead) /\ ~(i <= j)
      BY <2>2, <3>1
    <3>3. QED
      BY <2>1, <3>2
  <2> HIDE DEF i, I
  <2>4. QED
    BY <2>2, <2>3 DEF i
<1>5. QED
  BY <1>3, <1>4

(***************************************************************************)
(* What is taken from the front of a line.                                 *)
(***************************************************************************)
Takes == INSTANCE FoldTheory WITH Op <- TakeFrom

TakenFrom(qty) == [left |-> qty, line |-> <<>>]
Run(s, qty) == FoldLeft(TakeFrom, TakenFrom(qty), s)

\* s was served up to what r says.
Taking(r, s, qty) ==
  /\ r = [left |-> r.left, line |-> r.line]
  /\ r.left \in Nat /\ r.left <= qty
  /\ r.line \in Seq(Resting)
  /\ QtyOf(r.line) + (qty - r.left) = QtyOf(s)
  /\ r.left > 0 => r.line = <<>>

LEMMA RunOfEmpty == \A qty : Run(<<>>, qty) = TakenFrom(qty)
<1> SUFFICES ASSUME NEW qty PROVE Run(<<>>, qty) = TakenFrom(qty)
  OBVIOUS
<1> DEFINE start == TakenFrom(qty)
<1>1. Run(<<>>, qty) = Takes!Fold(start, <<>>)
  BY DEF Run, Takes!Fold, FoldLeft,
         Takes!MapThenFoldSet, MapThenFoldSet, Takes!Latest, Max
<1> HIDE DEF start
<1>2. QED
  BY <1>1, Takes!FoldOfEmpty DEF start

LEMMA RunOfAppend ==
  ASSUME NEW E, NEW s \in Seq(E), NEW e \in E, NEW qty
  PROVE  Run(Append(s, e), qty) = TakeFrom(Run(s, qty), e)
<1> DEFINE start == TakenFrom(qty)
           t == Append(s, e)
<1>1. Run(s, qty) = Takes!Fold(start, s) /\ Run(t, qty) = Takes!Fold(start, t)
  BY DEF Run, Takes!Fold, FoldLeft,
         Takes!MapThenFoldSet, MapThenFoldSet, Takes!Latest, Max
<1> HIDE DEF start, t
<1>2. Takes!Fold(start, t) = TakeFrom(Takes!Fold(start, s), e)
  BY Takes!FoldOfAppend DEF t
<1>3. QED
  BY <1>1, <1>2 DEF t

LEMMA TakingOfEmpty ==
  ASSUME NEW qty \in Nat
  PROVE  Taking(TakenFrom(qty), <<>>, qty)
  BY QtyOfEmpty, EmptySeq DEF Taking, TakenFrom

LEMMA TakingOfAppend ==
  ASSUME NEW qty \in Nat, NEW s \in Seq(Resting), NEW e \in Resting, NEW r, Taking(r, s, qty)
  PROVE  Taking(TakeFrom(r, e), Append(s, e), qty)
<1> DEFINE taken == Lesser(e.qty, r.left)
           rest  == Entry(e.id, e.qty - taken)
           n     == TakeFrom(r, e)
<1>1. /\ e.qty \in Nat \ {0} /\ e.id \in Nat
      /\ r.left \in Nat /\ r.left <= qty /\ r.line \in Seq(Resting)
      /\ QtyOf(r.line) + (qty - r.left) = QtyOf(s)
      /\ r.left > 0 => r.line = <<>>
  BY DEF Taking, Resting
<1>2. QtyOf(r.line) \in Nat /\ QtyOf(s) \in Nat
  BY <1>1, RestingIsEntry, QtyIsNat
<1>3. QtyOf(Append(s, e)) = QtyOf(s) + e.qty
  BY QtyOfAppend
<1>4. CASE e.qty <= r.left
  <2>1. n = [left |-> r.left - e.qty, line |-> r.line]
    BY <1>1, <1>4 DEF TakeFrom, Lesser
  <2>2. n.left = r.left - e.qty /\ n.line = r.line /\ n = [left |-> n.left, line |-> n.line]
    BY <2>1
  <2> HIDE DEF n
  <2>3. n.left \in Nat /\ n.left <= qty /\ (n.left > 0 => n.line = <<>>)
    BY <1>1, <1>4, <2>2
  <2>4. QtyOf(n.line) + (qty - n.left) = QtyOf(Append(s, e))
    <3> DEFINE a == QtyOf(r.line)
               c == r.left
               d == e.qty
    <3>0. a \in Nat /\ c \in Nat /\ d \in Nat
      BY <1>1, <1>2
    <3> HIDE DEF a, c, d
    <3>1. a + (qty - (c - d)) = (a + (qty - c)) + d
      BY <3>0
    <3> USE DEF a, c, d
    <3>2. QED
      BY <1>1, <1>3, <2>2, <3>1, Zenon
  <2>5. QED
    BY <1>1, <2>2, <2>3, <2>4 DEF Taking, n
<1>5. CASE r.left < e.qty
  <2>1. taken = r.left /\ taken # e.qty
    BY <1>1, <1>5 DEF Lesser
  <2>2. rest \in Resting /\ rest.qty = e.qty - r.left
    BY SMTT(60), <1>1, <1>5, <2>1 DEF Entry, Resting
  <2>3. n = [left |-> r.left - taken, line |-> Append(r.line, rest)]
    BY <2>1 DEF TakeFrom
  <2> HIDE DEF rest, taken, n
  <2>4. /\ n.left = 0 /\ n.line = Append(r.line, rest)
        /\ n = [left |-> n.left, line |-> n.line]
    BY <1>1, <2>1, <2>3
  <2>5. n.line \in Seq(Resting) /\ QtyOf(n.line) = QtyOf(r.line) + rest.qty
    BY <1>1, <2>2, <2>4, AppendProperties, QtyOfAppend
  <2>6. QtyOf(n.line) + (qty - n.left) = QtyOf(Append(s, e))
    <3>1. (QtyOf(r.line) + (e.qty - r.left)) + (qty - 0) = (QtyOf(r.line) + (qty - r.left)) + e.qty
      BY SMTT(60), <1>1, <1>2
    <3>2. QED
      BY <1>1, <1>3, <2>2, <2>4, <2>5, <3>1, Zenon
  <2>7. QED
    BY <2>4, <2>5, <2>6 DEF Taking, n
<1>6. QED
  BY <1>1, <1>4, <1>5

LEMMA RunIs ==
  ASSUME NEW qty \in Nat, NEW s \in Seq(Resting)
  PROVE  Taking(Run(s, qty), s, qty)
<1> DEFINE Good == {t \in Seq(Resting) : Taking(Run(t, qty), t, qty)}
<1>1. <<>> \in Good
  BY RunOfEmpty, TakingOfEmpty, EmptySeq
<1>2. ASSUME NEW t \in Seq(Resting), NEW e \in Resting, t \in Good PROVE Append(t, e) \in Good
  BY <1>2, RunOfAppend, TakingOfAppend, AppendProperties
<1> HIDE DEF Good
<1>3. s \in Good
  BY <1>1, <1>2, Takes!SeqSetInduction
<1>4. QED
  BY <1>3 DEF Good

LEMMA ConsumedIs ==
  ASSUME NEW s \in Seq(Resting), NEW qty \in Nat
  PROVE  /\ Consumed(s, qty) \in Seq(Resting)
         /\ qty <= QtyOf(s) => QtyOf(Consumed(s, qty)) = QtyOf(s) - qty
         /\ qty >= QtyOf(s) => Consumed(s, qty) = <<>>
<1> DEFINE r == Run(s, qty)
<1>1. Consumed(s, qty) = r.line
  BY DEF Consumed, Run, TakenFrom
<1>2. Taking(r, s, qty)
  BY RunIs
<1> HIDE DEF r
<1>3. r.left \in Nat /\ r.line \in Seq(Resting) /\ QtyOf(r.line) \in Nat /\ QtyOf(s) \in Nat
  BY <1>2, RestingIsEntry, QtyIsNat DEF Taking
<1>4. /\ QtyOf(r.line) + (qty - r.left) = QtyOf(s)
      /\ r.left > 0 => r.line = <<>>
      /\ r.left <= qty
  BY <1>2 DEF Taking
<1>5. r.left > 0 => QtyOf(r.line) = 0
  BY <1>4, QtyOfEmpty, Zenon
<1>6. \A a, b, c, d \in Nat : a + (b - c) = d /\ (c > 0 => a = 0) /\ c <= b
                           => (b <= d => a = d - b) /\ (b >= d => a = 0)
  OBVIOUS
<1>7. /\ qty <= QtyOf(s) => QtyOf(r.line) = QtyOf(s) - qty
      /\ qty >= QtyOf(s) => QtyOf(r.line) = 0
  BY <1>3, <1>4, <1>5, <1>6
<1>8. QED
  BY <1>1, <1>3, <1>7, NothingRests

-----------------------------------------------------------------------------
(***************************************************************************)
(* The order-by-order book                                                 *)
(***************************************************************************)
L3Book == [BookSide -> [Prices -> Seq(Resting)]]

\* The messages of the feed.
L3Messages ==
  {u \in [kind : {"L3Update"}, side : BookSide, price : Prices, action : L3Action,
          id : Nat, qty : Nat] : u.action = "ADD" => u.qty > 0}
TradeMessages == [kind : {"Tick"}, side : BookSide, price : Prices, qty : Nat \ {0}]

LEMMA RestingOf ==
  ASSUME NEW e
  PROVE  /\ e \in Resting <=> /\ e = [id |-> e.id, qty |-> e.qty]
                              /\ e.id \in Nat /\ e.qty \in Nat \ {0}
         /\ e \in AnyEntry <=> /\ e = [id |-> e.id, qty |-> e.qty]
                               /\ e.id \in Nat /\ e.qty \in Nat
  BY DEF Resting, AnyEntry

LEMMA EntryOf ==
  ASSUME NEW id \in Nat, NEW qty \in Nat
  PROVE  /\ Entry(id, qty) \in AnyEntry /\ Entry(id, qty).id = id /\ Entry(id, qty).qty = qty
         /\ qty # 0 => Entry(id, qty) \in Resting
  BY DEF Entry, Resting, AnyEntry

LEMMA WithoutType ==
  ASSUME NEW s \in Seq(Resting), NEW id
  PROVE  Without(s, id) \in Seq(Resting)
<1>1. Without(s, id) \in Seq(Resting \cap {e \in ToSet(s) : e.id # id})
  BY KeptType DEF Without
<1>2. QED
  BY <1>1, SeqMonotonic

LEMMA ResizedType ==
  ASSUME NEW s \in Seq(Resting), NEW id \in Nat, NEW qty \in Nat \ {0}
  PROVE  /\ Resized(s, id, qty) \in Seq(Resting)
         /\ Len(Resized(s, id, qty)) = Len(s)
         /\ \A i \in 1 .. Len(s) :
              Resized(s, id, qty)[i]
                = IF s[i].id = id /\ \A j \in 1 .. i - 1 : s[j].id # id
                  THEN Entry(id, qty) ELSE s[i]
<1> DEFINE f(i) == IF s[i].id = id /\ \A j \in 1 .. i - 1 : s[j].id # id
                   THEN Entry(id, qty) ELSE s[i]
           n == Len(s)
<1>1. n \in Nat /\ DOMAIN s = 1 .. n
  BY LenProperties
<1>2. Entry(id, qty) \in Resting
  BY EntryOf
<1>3. \A i \in 1 .. n : s[i] \in Resting
  BY ElementOfSeq
<1>4. \A i \in 1 .. n : f(i) \in Resting
  BY <1>2, <1>3
<1>5. Resized(s, id, qty) = [i \in 1 .. n |-> f(i)]
  BY <1>1 DEF Resized
<1> HIDE DEF f, n
<1>6. [i \in 1 .. n |-> f(i)] \in Seq(Resting) /\ Len([i \in 1 .. n |-> f(i)]) = n
  BY <1>1, <1>4, IsASeq
<1>7. \A i \in 1 .. n : [j \in 1 .. n |-> f(j)][i] = f(i)
  OBVIOUS
<1>8. QED
  BY <1>5, <1>6, <1>7 DEF f, n

LEMMA LevelAfterType ==
  ASSUME NEW s \in Seq(Resting), NEW u \in L3Messages
  PROVE  LevelAfter(s, u) \in Seq(Resting)
<1>1. u.id \in Nat /\ u.qty \in Nat /\ (u.action = "ADD" => u.qty > 0) /\ u.action \in L3Action
  BY DEF L3Messages
<1>2. CASE u.action = "ADD"
  <2>1. Entry(u.id, u.qty) \in Resting
    BY <1>1, <1>2, EntryOf
  <2>2. Append(s, Entry(u.id, u.qty)) \in Seq(Resting)
    BY <2>1, AppendProperties
  <2>3. QED
    BY <1>2, <2>2 DEF LevelAfter
<1>3. CASE u.action = "MODIFY"
  <2>1. u.qty # 0 => Resized(s, u.id, u.qty) \in Seq(Resting)
    BY <1>1, ResizedType
  <2>2. LevelAfter(s, u) = IF u.qty = 0 THEN Without(s, u.id) ELSE Resized(s, u.id, u.qty)
    BY <1>3 DEF LevelAfter
  <2>3. QED
    BY <2>1, <2>2, WithoutType
<1>4. CASE u.action = "DELETE"
  BY <1>4, WithoutType DEF LevelAfter
<1>5. QED
  BY <1>1, <1>2, <1>3, <1>4 DEF L3Action

LEMMA ApplyL3Type ==
  ASSUME NEW book \in L3Book, NEW u \in L3Messages
  PROVE  /\ ApplyL3(book, u) \in L3Book
         /\ \A s \in BookSide, p \in Prices :
              ApplyL3(book, u)[s][p] = IF s = u.side /\ p = u.price
                                       THEN LevelAfter(book[s][p], u) ELSE book[s][p]
<1> DEFINE level == LevelAfter(book[u.side][u.price], u)
<1>1. u.side \in BookSide /\ u.price \in Prices
  BY DEF L3Messages
<1>2. level \in Seq(Resting)
  BY <1>1, LevelAfterType DEF L3Book
<1>3. ApplyL3(book, u) = [book EXCEPT ![u.side][u.price] = level]
  BY DEF ApplyL3
<1> HIDE DEF level
<1>4. QED
  <2>1. book \in [BookSide -> [Prices -> Seq(Resting)]]
    BY DEF L3Book
  <2>2. ApplyL3(book, u) \in [BookSide -> [Prices -> Seq(Resting)]]
    BY <1>1, <1>2, <1>3, <2>1
  <2>3. \A s \in BookSide, p \in Prices :
          ApplyL3(book, u)[s][p] = IF s = u.side /\ p = u.price
                                   THEN level ELSE book[s][p]
    BY <1>1, <1>3, <2>1
  <2>4. QED
    BY <2>2, <2>3 DEF L3Book, level

LEMMA OrdersAheadType ==
  ASSUME NEW book \in L3Book, NEW side \in BookSide, NEW price \in Prices, NEW id
  PROVE  OrdersAhead(book, side, price, id) \in Seq(Resting)
<1> DEFINE level == book[side][price]
           here  == {i \in DOMAIN level : level[i].id = id}
<1>1. level \in Seq(Resting)
  BY DEF L3Book
<1>2. OrdersAhead(book, side, price, id)
        = IF here = {} THEN level ELSE SubSeq(level, 1, Min(here) - 1)
  BY DEF OrdersAhead
<1> HIDE DEF level
<1>3. here \in SUBSET (1 .. Len(level)) /\ Len(level) \in Nat
  BY <1>1, LenProperties
<1>4. here # {} => Min(here) \in 1 .. Len(level)
  <2>1. here \in SUBSET Nat
    BY <1>3
  <2> HIDE DEF here
  <2>2. QED
    BY <1>3, <2>1, LeastOf
<1> HIDE DEF here
<1>5. here # {} => SubSeq(level, 1, Min(here) - 1) \in Seq(Resting)
  BY <1>1, <1>4, Around
<1>6. QED
  BY <1>1, <1>2, <1>5
-----------------------------------------------------------------------------
(***************************************************************************)
(* The queue position                                                      *)
(***************************************************************************)
\* Total and list agree.
SoundQueue(q) ==
  /\ q = [qty_ahead |-> q.qty_ahead, ahead |-> q.ahead]
  /\ q.ahead \in Seq(Resting)
  /\ q.qty_ahead = QtyOf(q.ahead)

LEMMA SoundIsTyped ==
  ASSUME NEW q, SoundQueue(q)
  PROVE  q \in L3Queue /\ q.qty_ahead \in Nat
<1>1. q.qty_ahead \in Nat
  BY RestingIsEntry, QtyIsNat DEF SoundQueue
<1>2. QED
  BY <1>1 DEF SoundQueue, L3Queue, Resting

LEMMA RegisterSound ==
  ASSUME NEW book \in L3Book, NEW id, NEW o, o.side \in BookSide, o.price \in Prices
  PROVE  SoundQueue(RegisterL3(book, id, o))
<1> DEFINE ahead == OrdersAhead(book, o.side, o.price, id)
<1>1. ahead \in Seq(Resting)
  BY OrdersAheadType
<1>2. RegisterL3(book, id, o) = [qty_ahead |-> QtyOf(ahead), ahead |-> ahead]
  BY DEF RegisterL3
<1> HIDE DEF ahead
<1>3. QED
  BY <1>1, <1>2 DEF SoundQueue

\* What a line loses or gains at one of its places.
LEMMA QtyAround ==
  ASSUME NEW s \in Seq(Resting), NEW i \in 1 .. Len(s), NEW e \in AnyEntry
  PROVE  /\ RemoveAt(s, i) \in Seq(Resting)
         /\ QtyOf(RemoveAt(s, i)) = QtyOf(s) - s[i].qty
         /\ [s EXCEPT ![i] = e] \in Seq(AnyEntry)
         /\ e \in Resting => [s EXCEPT ![i] = e] \in Seq(Resting)
         /\ QtyOf([s EXCEPT ![i] = e]) = QtyOf(s) - s[i].qty + e.qty
         /\ s[i].qty \in Nat /\ s[i].qty <= QtyOf(s)
<1> DEFINE a == SubSeq(s, 1, i - 1)
           b == SubSeq(s, i + 1, Len(s))
           x == s[i]
<1>0. s \in Seq(AnyEntry)
  BY RestingIsEntry
<1>1. /\ a \in Seq(Resting) /\ b \in Seq(Resting)
      /\ s = (a \o <<s[i]>>) \o b
      /\ RemoveAt(s, i) = a \o b
  BY ZenonT(60), Around
<1>2. [s EXCEPT ![i] = e] = (a \o <<e>>) \o b
  BY ZenonT(60), <1>0, Replaced
<1>3. x \in Resting /\ x \in AnyEntry
  BY ElementOfSeq, RestingIsEntry
<1>4. s = (a \o <<x>>) \o b
  BY <1>1
<1> HIDE DEF a, b, x
<1>5. a \in Seq(AnyEntry) /\ b \in Seq(AnyEntry)
  BY <1>1, RestingIsEntry
<1>6. QtyOf(a) \in Nat /\ QtyOf(b) \in Nat /\ QtyOf(s) \in Nat
  BY <1>0, <1>5, QtyIsNat
<1>7. ASSUME NEW y \in AnyEntry
      PROVE  /\ (a \o <<y>>) \o b \in Seq(AnyEntry)
             /\ QtyOf((a \o <<y>>) \o b) = (QtyOf(a) + y.qty) + QtyOf(b)
  <2>1. <<y>> \in Seq(AnyEntry) /\ QtyOf(<<y>>) = y.qty
    BY QtyOfOne
  <2>2. a \o <<y>> \in Seq(AnyEntry)
    BY <1>5, <2>1, ConcatProperties
  <2>3. (a \o <<y>>) \o b \in Seq(AnyEntry)
    BY <1>5, <2>2, ConcatProperties
  <2>4. QtyOf((a \o <<y>>) \o b) = QtyOf(a \o <<y>>) + QtyOf(b)
    BY <1>5, <2>2, QtyOfConcat
  <2>5. QtyOf(a \o <<y>>) = QtyOf(a) + QtyOf(<<y>>)
    BY <1>5, <2>1, QtyOfConcat
  <2>6. QED
    BY <2>1, <2>3, <2>4, <2>5
<1>8. e \in Resting => (a \o <<e>>) \o b \in Seq(Resting)
  <2>1. SUFFICES ASSUME e \in Resting PROVE (a \o <<e>>) \o b \in Seq(Resting)
    OBVIOUS
  <2>2. <<e>> \in Seq(Resting)
    BY <2>1
  <2>3. a \o <<e>> \in Seq(Resting)
    BY <1>1, <2>2, ConcatProperties
  <2>4. QED
    BY <1>1, <2>3, ConcatProperties
<1>9. a \o b \in Seq(Resting) /\ QtyOf(a \o b) = QtyOf(a) + QtyOf(b)
  BY <1>1, <1>5, ConcatProperties, QtyOfConcat
<1>10. QtyOf(s) = (QtyOf(a) + x.qty) + QtyOf(b)
  BY <1>3, <1>4, <1>7, Zenon
<1>11. QtyOf([s EXCEPT ![i] = e]) = (QtyOf(a) + e.qty) + QtyOf(b)
  BY <1>2, <1>7, Zenon
<1>12. x.qty \in Nat /\ e.qty \in Nat
  BY <1>3 DEF AnyEntry
<1>13. \A k, l, m, n \in Nat : /\ k + m = ((k + l) + m) - l
                               /\ (k + n) + m = (((k + l) + m) - l) + n
                               /\ l <= (k + l) + m
  OBVIOUS
<1> DEFINE qa == QtyOf(a)
           qb == QtyOf(b)
           qx == x.qty
           qe == e.qty
<1>14. /\ qa \in Nat /\ qb \in Nat /\ qx \in Nat /\ qe \in Nat
  BY <1>6, <1>12
<1> HIDE DEF qa, qb, qx, qe
<1>15. /\ qa + qb = ((qa + qx) + qb) - qx
       /\ (qa + qe) + qb = (((qa + qx) + qb) - qx) + qe
       /\ qx <= (qa + qx) + qb
  BY <1>13, <1>14
<1>16. QtyOf(a \o b) = QtyOf(s) - x.qty
  BY <1>9, <1>10, <1>15 DEF qa, qb, qx
<1>17. QtyOf([s EXCEPT ![i] = e]) = QtyOf(s) - x.qty + e.qty
  BY <1>10, <1>11, <1>15 DEF qa, qb, qx, qe
<1>18. x.qty <= QtyOf(s)
  BY <1>10, <1>15 DEF qa, qb, qx
<1>19. [s EXCEPT ![i] = e] \in Seq(AnyEntry)
  BY <1>2, <1>7
<1>20. e \in Resting => [s EXCEPT ![i] = e] \in Seq(Resting)
  BY <1>2, <1>8
<1>21. QED
  BY <1>1, <1>9, <1>12, <1>16, <1>17, <1>18, <1>19, <1>20, Zenon DEF x

LEMMA RemoveAheadSound ==
  ASSUME NEW q, SoundQueue(q), NEW id
  PROVE  /\ SoundQueue(RemoveAhead(q, id))
         /\ q.ahead = <<>> => RemoveAhead(q, id).ahead = <<>>
<1> DEFINE i == PlaceOf(q, id)
           s == q.ahead
<1>1. s \in Seq(Resting) /\ s \in Seq(AnyEntry) /\ q.qty_ahead = QtyOf(s)
  BY RestingIsEntry DEF SoundQueue
<1>2. i # 0 => i \in 1 .. Len(s)
  BY <1>1, PlaceOfIs
<1>3. RemoveAhead(q, id)
        = IF i = 0 THEN q ELSE [qty_ahead |-> q.qty_ahead - s[i].qty, ahead |-> RemoveAt(s, i)]
  BY DEF RemoveAhead
<1> HIDE DEF i, s
<1>4. CASE i = 0
  BY <1>3, <1>4 DEF s
<1>5. CASE i # 0
  <2>1. s[i] \in AnyEntry
    BY <1>1, <1>2, <1>5, ElementOfSeq
  <2>2. RemoveAt(s, i) \in Seq(Resting) /\ QtyOf(RemoveAt(s, i)) = QtyOf(s) - s[i].qty
    BY <1>1, <1>2, <1>5, <2>1, QtyAround
  <2>3. s # <<>>
    BY <1>1, <1>2, <1>5, EmptySeq
  <2>4. QED
    BY <1>1, <1>3, <1>5, <2>2, <2>3 DEF SoundQueue, s
<1>6. QED
  BY <1>4, <1>5

LEMMA ModifyAheadSound ==
  ASSUME NEW q, SoundQueue(q), NEW id \in Nat, NEW qty \in Nat
  PROVE  /\ SoundQueue(ModifyAhead(q, id, qty))
         /\ q.ahead = <<>> => ModifyAhead(q, id, qty).ahead = <<>>
<1> DEFINE i == PlaceOf(q, id)
           s == q.ahead
           e == Entry(id, qty)
           r == [s EXCEPT ![i] = e]
           T == {x \in ToSet(r) : x.qty > 0}
<1>1. s \in Seq(Resting) /\ s \in Seq(AnyEntry) /\ q.qty_ahead = QtyOf(s)
  BY RestingIsEntry DEF SoundQueue
<1>2. i # 0 => i \in 1 .. Len(s)
  BY <1>1, PlaceOfIs
<1>3. ModifyAhead(q, id, qty)
        = IF i = 0 THEN q
          ELSE [qty_ahead |-> q.qty_ahead - s[i].qty + qty,
                ahead     |-> IF qty = 0 THEN Kept(r, T) ELSE r]
  BY DEF ModifyAhead
<1>4. e \in AnyEntry /\ e.qty = qty /\ (qty # 0 => e \in Resting)
  BY EntryOf
<1> HIDE DEF i, s, e
<1>5. CASE i = 0
  BY <1>3, <1>5 DEF s
<1>6. CASE i # 0
  <2>1. /\ r \in Seq(AnyEntry)
        /\ e \in Resting => r \in Seq(Resting)
        /\ QtyOf(r) = QtyOf(s) - s[i].qty + e.qty
    BY <1>1, <1>2, <1>4, <1>6, QtyAround
  <2> HIDE DEF r
  <2>2. s # <<>>
    BY <1>1, <1>2, <1>6, EmptySeq
  <2>3. \A x \in ToSet(r) : x \in T <=> x.qty > 0
    OBVIOUS
  <2> HIDE DEF T
  <2>4. Kept(r, T) \in Seq(Resting) /\ QtyOf(Kept(r, T)) = QtyOf(r)
    BY <2>1, <2>3, KeptQty
  <2> DEFINE line == IF qty = 0 THEN Kept(r, T) ELSE r
  <2>5. line \in Seq(Resting) /\ QtyOf(line) = QtyOf(s) - s[i].qty + qty
    BY <1>4, <2>1, <2>4
  <2>6. ModifyAhead(q, id, qty) = [qty_ahead |-> q.qty_ahead - s[i].qty + qty, ahead |-> line]
    BY <1>3, <1>6
  <2> HIDE DEF line
  <2>7. QED
    BY <1>1, <2>2, <2>5, <2>6 DEF SoundQueue, s
<1>7. QED
  BY <1>5, <1>6

\* on_l3_update.
LEMMA AfterL3UpdateSound ==
  ASSUME NEW o, SoundQueue(o.queue), NEW u \in L3Messages
  PROVE  /\ SoundQueue(AfterL3Update(o, u))
         /\ o.queue.ahead = <<>> => AfterL3Update(o, u).ahead = <<>>
<1>1. u.id \in Nat /\ u.qty \in Nat /\ u.action \in L3Action
  BY DEF L3Messages
<1>2. (IF u.qty < 0 THEN 0 ELSE u.qty) = u.qty
  BY <1>1
<1>3. \/ AfterL3Update(o, u) = o.queue
      \/ AfterL3Update(o, u) = RemoveAhead(o.queue, u.id)
      \/ AfterL3Update(o, u) = ModifyAhead(o.queue, u.id, u.qty)
  BY <1>1, <1>2 DEF AfterL3Update, L3Action
<1>4. QED
  BY ZenonT(60), <1>1, <1>3, RemoveAheadSound, ModifyAheadSound

\* check_fill: what it takes off the total it takes off the line, and who is
\* filled has no one ahead.
LEMMA L3FillSound ==
  ASSUME NEW q, SoundQueue(q), NEW remaining \in Nat, NEW volume \in Nat
  PROVE  LET a == L3Fill(q, remaining, volume)
         IN  /\ SoundQueue(a.queue)
             /\ a.fill \in Nat /\ a.fill <= remaining
             /\ a.fill > 0 \/ q.ahead = <<>> => a.queue.ahead = <<>>
<1> DEFINE used == UsedAhead(q, volume)
           line == Consumed(q.ahead, used)
           s    == q.ahead
<1>1. s \in Seq(Resting) /\ q.qty_ahead = QtyOf(s) /\ q.qty_ahead \in Nat
  BY SoundIsTyped DEF SoundQueue
<1>2. /\ used \in Nat /\ used <= q.qty_ahead /\ used <= volume
      /\ volume - used > 0 => used = q.qty_ahead
  BY <1>1 DEF UsedAhead, Lesser
<1>3. L3Fill(q, remaining, volume)
        = [fill  |-> Lesser(volume - used, remaining),
           queue |-> [qty_ahead |-> q.qty_ahead - used, ahead |-> line]]
  BY DEF L3Fill
<1> HIDE DEF used
<1>4. /\ line \in Seq(Resting) /\ QtyOf(line) = q.qty_ahead - used
      /\ used = q.qty_ahead => line = <<>>
  <2>1. used >= QtyOf(s) <=> used = q.qty_ahead
    BY <1>1, <1>2
  <2>2. used <= QtyOf(s)
    BY <1>1, <1>2
  <2>3. QED
    BY <1>1, <1>2, <2>1, <2>2, ConsumedIs
<1>5. s = <<>> => used = q.qty_ahead
  <2>1. s = <<>> => q.qty_ahead = 0
    BY <1>1, QtyOfEmpty
  <2>2. QED
    BY <1>1, <1>2, <2>1
<1> HIDE DEF line, s
<1> DEFINE fill == Lesser(volume - used, remaining)
<1>6. fill \in Nat /\ fill <= remaining /\ (fill > 0 => volume - used > 0)
  BY <1>2 DEF Lesser
<1> HIDE DEF fill
<1>7. fill > 0 \/ s = <<>> => line = <<>>
  BY <1>2, <1>4, <1>5, <1>6
<1>8. SoundQueue([qty_ahead |-> q.qty_ahead - used, ahead |-> line])
  BY <1>4 DEF SoundQueue
<1>9. L3Fill(q, remaining, volume)
        = [fill |-> fill, queue |-> [qty_ahead |-> q.qty_ahead - used, ahead |-> line]]
  BY <1>3 DEF fill
<1>10. QED
  BY <1>6, <1>7, <1>8, <1>9 DEF s

-----------------------------------------------------------------------------
(***************************************************************************)
(* One live order                                                          *)
(***************************************************************************)
\* The states of an order that was sent.
SentState == OrderState \ {"Created"}

L3Order ==
  [side : BookSide, type : OrderType, price : Prices, qty : OrderQtys,
   state : SentState, filled : Nat, remaining : Nat, queue : L3Queue]

\* Typed, its quantity adds up, its queue is sound and empty once it is filled.
SoundOrder(o) ==
  /\ o \in L3Order
  /\ Conserved(o)
  /\ SoundQueue(o.queue)
  /\ o.type = "Limit" /\ o.filled > 0 => o.queue.ahead = <<>>

LEMMA QtysArePositive == \A q \in OrderQtys : q \in Nat \ {0}
  BY L3Assumption

LEMMA L3OrderOf ==
  ASSUME NEW o
  PROVE  o \in L3Order <=>
           /\ o = [side |-> o.side, type |-> o.type, price |-> o.price, qty |-> o.qty,
                   state |-> o.state, filled |-> o.filled, remaining |-> o.remaining,
                   queue |-> o.queue]
           /\ o.side \in BookSide /\ o.type \in OrderType /\ o.price \in Prices
           /\ o.qty \in OrderQtys /\ o.state \in SentState
           /\ o.filled \in Nat /\ o.remaining \in Nat /\ o.queue \in L3Queue
  BY DEF L3Order

\* A change of its state that does not end it, or ends it unfilled.
LEMMA StateSound ==
  ASSUME NEW o, SoundOrder(o), o.state # "Filled", NEW s \in SentState \ {"Filled"}
  PROVE  SoundOrder([o EXCEPT !.state = s])
<1> DEFINE n == [o EXCEPT !.state = s]
<1>1. /\ n.side = o.side /\ n.type = o.type /\ n.price = o.price /\ n.qty = o.qty
      /\ n.state = s /\ n.filled = o.filled /\ n.remaining = o.remaining /\ n.queue = o.queue
      /\ n = [side |-> n.side, type |-> n.type, price |-> n.price, qty |-> n.qty,
              state |-> n.state, filled |-> n.filled, remaining |-> n.remaining,
              queue |-> n.queue]
  BY L3OrderOf DEF SoundOrder
<1> HIDE DEF n
<1>2. n \in L3Order
  BY <1>1, L3OrderOf DEF SoundOrder
<1>3. QED
  BY <1>1, <1>2 DEF SoundOrder, Conserved, n

\* An update of its queue.
LEMMA QueueSound ==
  ASSUME NEW o, SoundOrder(o), NEW q, SoundQueue(q), o.queue.ahead = <<>> => q.ahead = <<>>
  PROVE  SoundOrder([o EXCEPT !.queue = q])
<1> DEFINE n == [o EXCEPT !.queue = q]
<1>1. /\ n.side = o.side /\ n.type = o.type /\ n.price = o.price /\ n.qty = o.qty
      /\ n.state = o.state /\ n.filled = o.filled /\ n.remaining = o.remaining /\ n.queue = q
      /\ n = [side |-> n.side, type |-> n.type, price |-> n.price, qty |-> n.qty,
              state |-> n.state, filled |-> n.filled, remaining |-> n.remaining,
              queue |-> n.queue]
  BY L3OrderOf DEF SoundOrder
<1> HIDE DEF n
<1>2. n \in L3Order
  BY <1>1, L3OrderOf, SoundIsTyped DEF SoundOrder
<1>3. QED
  BY <1>1, <1>2 DEF SoundOrder, Conserved, n

\* The answer of the queue model to a trade.
LEMMA AnswerSound ==
  ASSUME NEW o, SoundOrder(o), o.remaining > 0, NEW volume \in Nat
  PROVE  SoundOrder(AfterAnswer(o, L3Fill(o.queue, o.remaining, volume)))
<1> DEFINE a == L3Fill(o.queue, o.remaining, volume)
<1>1. /\ SoundQueue(a.queue) /\ a.fill \in Nat /\ a.fill <= o.remaining
      /\ a.fill > 0 \/ o.queue.ahead = <<>> => a.queue.ahead = <<>>
  BY L3FillSound, L3OrderOf DEF SoundOrder
<1> HIDE DEF a
<1>2. CASE a.fill = 0
  <2>1. AfterAnswer(o, a) = [o EXCEPT !.queue = a.queue]
    BY <1>2 DEF AfterAnswer
  <2>2. o.queue.ahead = <<>> => a.queue.ahead = <<>>
    BY <1>1
  <2>3. SoundOrder([o EXCEPT !.queue = a.queue])
    BY <1>1, <2>2, QueueSound
  <2>4. QED
    BY <2>1, <2>3 DEF a
<1>3. CASE a.fill > 0
  <2> DEFINE n == AfterAnswer(o, a)
  <2>1. n = [o EXCEPT !.queue = a.queue, !.filled = @ + a.fill, !.remaining = @ - a.fill,
                      !.state = AfterFill(o.remaining - a.fill)]
    BY <1>1, <1>3 DEF AfterAnswer
  <2>2. o = [side |-> o.side, type |-> o.type, price |-> o.price, qty |-> o.qty,
             state |-> o.state, filled |-> o.filled, remaining |-> o.remaining,
             queue |-> o.queue]
    BY L3OrderOf DEF SoundOrder
  <2> HIDE DEF n
  <2>3. /\ n.side = o.side /\ n.type = o.type /\ n.price = o.price /\ n.qty = o.qty
        /\ n.state = AfterFill(o.remaining - a.fill) /\ n.filled = o.filled + a.fill
        /\ n.remaining = o.remaining - a.fill /\ n.queue = a.queue
        /\ n = [side |-> n.side, type |-> n.type, price |-> n.price, qty |-> n.qty,
                state |-> n.state, filled |-> n.filled, remaining |-> n.remaining,
                queue |-> n.queue]
    BY <2>1, <2>2
  <2>4. o.filled \in Nat /\ o.remaining \in Nat /\ o.qty \in Nat /\ o.filled + o.remaining = o.qty
    BY L3OrderOf, QtysArePositive DEF SoundOrder, Conserved
  <2>5. n.filled \in Nat /\ n.remaining \in Nat /\ n.filled + n.remaining = n.qty
    BY <1>1, <2>3, <2>4
  <2>6. n.state \in SentState /\ (n.state = "Filled" <=> n.remaining = 0)
    BY <2>3 DEF AfterFill, SentState, OrderState
  <2>7. n \in L3Order
    BY <1>1, <2>3, <2>5, <2>6, L3OrderOf, SoundIsTyped DEF SoundOrder
  <2>8. n.queue.ahead = <<>> /\ SoundQueue(n.queue)
    BY <1>1, <1>3, <2>3
  <2>9. SoundOrder(n)
    BY <2>5, <2>6, <2>7, <2>8 DEF SoundOrder, Conserved
  <2>10. QED
    BY <2>9 DEF n, a
<1>4. QED
  BY <1>1, <1>2, <1>3

\* The execution of a market order.
LEMMA ExecutionSound ==
  ASSUME NEW o, SoundOrder(o), o.type = "Market", NEW qty \in Nat, qty <= o.qty
  PROVE  SoundOrder(AfterExecution(o, qty))
<1> DEFINE n == AfterExecution(o, qty)
<1>1. n = [o EXCEPT !.filled = qty, !.remaining = o.qty - qty, !.state = AfterFill(o.qty - qty)]
  BY DEF AfterExecution
<1>2. o = [side |-> o.side, type |-> o.type, price |-> o.price, qty |-> o.qty,
           state |-> o.state, filled |-> o.filled, remaining |-> o.remaining,
           queue |-> o.queue]
  BY L3OrderOf DEF SoundOrder
<1> HIDE DEF n
<1>3. /\ n.side = o.side /\ n.type = o.type /\ n.price = o.price /\ n.qty = o.qty
      /\ n.state = AfterFill(o.qty - qty) /\ n.filled = qty
      /\ n.remaining = o.qty - qty /\ n.queue = o.queue
      /\ n = [side |-> n.side, type |-> n.type, price |-> n.price, qty |-> n.qty,
              state |-> n.state, filled |-> n.filled, remaining |-> n.remaining,
              queue |-> n.queue]
  BY <1>1, <1>2
<1>4. o.qty \in Nat
  BY L3OrderOf, QtysArePositive DEF SoundOrder
<1>5. n.filled \in Nat /\ n.remaining \in Nat /\ n.filled + n.remaining = n.qty
  BY <1>3, <1>4
<1>6. n.state \in SentState /\ (n.state = "Filled" <=> n.remaining = 0)
  BY <1>3 DEF AfterFill, SentState, OrderState
<1>7. n \in L3Order
  BY <1>3, <1>5, <1>6, L3OrderOf DEF SoundOrder
<1>8. QED
  BY <1>3, <1>5, <1>6, <1>7 DEF SoundOrder, Conserved, n

-----------------------------------------------------------------------------
(***************************************************************************)
(* The simulator                                                           *)
(***************************************************************************)
\* Every order is sound, and the index has no order where it does not belong.
SoundSim(x) ==
  /\ x = [model |-> x.model, book |-> x.book, orders |-> x.orders, buckets |-> x.buckets]
  /\ x.orders = [id \in Live(x) |-> x.orders[id]]
  /\ \A id \in Live(x) : SoundOrder(x.orders[id])
  /\ x.buckets \in [BucketKey -> Seq(OrderId)]
  /\ \A k \in BucketKey, id \in Live(x) : InBucket(x, k, id) => BucketOf(x.orders[id]) = k

\* The order is in the same line and in the same place of it, and does not
\* come back from a terminal state.
Stays(o, n) ==
  /\ n.side = o.side /\ n.price = o.price /\ n.queue = o.queue
  /\ IsTerminal(o.state) => IsTerminal(n.state)

\* What the strategy's calls leave alone: the places of all orders.
Keeping(x, y) == \A id \in Live(x) \cap Live(y) : Stays(x.orders[id], y.orders[id])

LEMMA SimOrders ==
  ASSUME NEW x, SoundSim(x), NEW f, f = [id \in Live(x) |-> f[id]],
         \A id \in Live(x) : /\ SoundOrder(f[id])
                             /\ f[id].side = x.orders[id].side
                             /\ f[id].price = x.orders[id].price
  PROVE  LET y == [x EXCEPT !.orders = f]
         IN  SoundSim(y) /\ Live(y) = Live(x) /\ y.orders = f /\ y.buckets = x.buckets
<1> DEFINE y == [x EXCEPT !.orders = f]
<1>1. /\ x = [model |-> x.model, book |-> x.book, orders |-> x.orders, buckets |-> x.buckets]
      /\ x.buckets \in [BucketKey -> Seq(OrderId)]
      /\ \A k \in BucketKey, id \in Live(x) : InBucket(x, k, id) => BucketOf(x.orders[id]) = k
  BY DEF SoundSim
<1>2. /\ y = [model |-> y.model, book |-> y.book, orders |-> y.orders, buckets |-> y.buckets]
      /\ y.orders = f /\ y.buckets = x.buckets
  BY <1>1
<1> HIDE DEF y
<1>3. Live(y) = Live(x)
  BY <1>2 DEF Live
<1>4. \A id \in Live(x) : BucketOf(y.orders[id]) = BucketOf(x.orders[id])
  BY <1>2 DEF BucketOf
<1>5. \A k, id : InBucket(y, k, id) <=> InBucket(x, k, id)
  BY <1>2 DEF InBucket
<1>6. \A k \in BucketKey, id \in Live(y) : InBucket(y, k, id) => BucketOf(y.orders[id]) = k
  BY <1>1, <1>3, <1>4, <1>5
<1>7. SoundSim(y)
  BY <1>1, <1>2, <1>3, <1>6 DEF SoundSim
<1>8. QED
  BY <1>2, <1>3, <1>7 DEF y

LEMMA SimOrder ==
  ASSUME NEW x, SoundSim(x), NEW id \in Live(x), NEW n, SoundOrder(n), Stays(x.orders[id], n)
  PROVE  LET y == [x EXCEPT !.orders[id] = n]
         IN  /\ SoundSim(y) /\ Live(y) = Live(x) /\ y.buckets = x.buckets
             /\ y.orders[id] = n /\ Keeping(x, y)
<1> DEFINE f == [x.orders EXCEPT ![id] = n]
           y == [x EXCEPT !.orders[id] = n]
           z == [x EXCEPT !.orders = f]
<1>1. /\ x = [model |-> x.model, book |-> x.book, orders |-> x.orders, buckets |-> x.buckets]
      /\ x.orders = [i \in Live(x) |-> x.orders[i]]
      /\ \A i \in Live(x) : SoundOrder(x.orders[i])
  BY DEF SoundSim
<1>2. /\ f = [i \in Live(x) |-> f[i]]
      /\ f[id] = n /\ \A i \in Live(x) : i # id => f[i] = x.orders[i]
  BY <1>1
<1>3. y = z
  BY <1>1
<1> HIDE DEF f, y
<1>4. \A i \in Live(x) : /\ SoundOrder(f[i]) /\ Stays(x.orders[i], f[i])
                         /\ f[i].side = x.orders[i].side
                         /\ f[i].price = x.orders[i].price
  BY <1>1, <1>2 DEF Stays
<1>5. SoundSim(z) /\ Live(z) = Live(x) /\ z.orders = f /\ z.buckets = x.buckets
  BY <1>2, <1>4, SimOrders
<1> HIDE DEF z
<1>6. Keeping(x, z)
  BY <1>4, <1>5 DEF Keeping
<1>7. QED
  BY <1>2, <1>3, <1>5, <1>6 DEF y

LEMMA SetStateIs ==
  ASSUME NEW x, SoundSim(x), NEW id \in Live(x), NEW s
  PROVE  SetState(x, id, s) = [x EXCEPT !.orders[id] = [x.orders[id] EXCEPT !.state = s]]
  BY DEF SetState

LEMMA SetStateSim ==
  ASSUME NEW x, SoundSim(x), NEW id \in Live(x), StateOf(x, id) # "Filled",
         NEW s \in SentState \ {"Filled"}, IsTerminal(StateOf(x, id)) => IsTerminal(s)
  PROVE  LET y == SetState(x, id, s)
         IN  /\ SoundSim(y) /\ Live(y) = Live(x) /\ y.buckets = x.buckets /\ Keeping(x, y)
<1> DEFINE o == x.orders[id]
           n == [o EXCEPT !.state = s]
<1>1. SoundOrder(o) /\ o.state # "Filled" /\ (IsTerminal(o.state) => IsTerminal(s))
  BY DEF SoundSim, StateOf
<1>2. SoundOrder(n)
  BY <1>1, StateSound
<1>3. Stays(o, n)
  BY <1>1, L3OrderOf DEF SoundOrder, Stays
<1>4. SetState(x, id, s) = [x EXCEPT !.orders[id] = n]
  BY SetStateIs
<1> HIDE DEF n
<1>5. QED
  BY <1>2, <1>3, <1>4, SimOrder

\* fill_market_immediately, over any book.
LEMMA FillMarketSim ==
  ASSUME NEW x, SoundSim(x), NEW id \in Live(x), x.orders[id].type = "Market",
         StateOf(x, id) = "PendingNew", NEW fallback,
         x.book \in Book
  PROVE  LET y == FillMarketImmediately(x, id, fallback)
         IN  /\ SoundSim(y) /\ Live(y) = Live(x) /\ y.buckets = x.buckets /\ Keeping(x, y)
<1> DEFINE o    == x.orders[id]
           qty  == MarketFillQty(x, o, fallback)
           best == BestOpposite(x, o.side)
           n    == AfterExecution(o, qty)
<1>1. SoundOrder(o) /\ o.state = "PendingNew" /\ o.type = "Market"
  BY DEF SoundSim, StateOf
<1>2. o.qty \in Nat \ {0} /\ o.side \in BookSide
  BY <1>1, QtysArePositive, L3OrderOf DEF SoundOrder
<1>3. qty \in Nat /\ qty <= o.qty
  <2>1. CASE best # NoPrice
    <3>1. best \in Prices /\ MakerSide(o.side) \in BookSide
      BY <1>2, <2>1 DEF BestOpposite, BestAsk, BestBid, AnyOf, Highest, Lowest,
                  Quoted, MakerSide, BookSide
    <3>2. x.book[MakerSide(o.side)][best] \in Nat
      BY <3>1 DEF Book
    <3>3. QED
      BY <2>1, <3>2, <1>2 DEF MarketFillQty, Lesser
  <2>2. CASE best = NoPrice
    BY <2>2, <1>2 DEF MarketFillQty
  <2>3. QED
    BY SMTT(60), <2>1, <2>2
<1>4. FillMarketImmediately(x, id, fallback)
        = IF MarketPrice(x, o.side, fallback) = NoPrice
          THEN SetState(x, id, "Rejected") ELSE [x EXCEPT !.orders[id] = n]
  BY DEF FillMarketImmediately
<1> HIDE DEF qty, best
<1>5. SoundOrder(n)
  BY <1>1, <1>3, ExecutionSound
<1>6. Stays(o, n)
  <2>1. n = [o EXCEPT !.filled = qty, !.remaining = o.qty - qty, !.state = AfterFill(o.qty - qty)]
    BY DEF AfterExecution
  <2>2. n.side = o.side /\ n.price = o.price /\ n.queue = o.queue
    BY <1>1, <2>1, L3OrderOf DEF SoundOrder
  <2>3. QED
    BY <1>1, <2>2 DEF Stays, IsTerminal, Terminal
<1> HIDE DEF n
<1>7. CASE MarketPrice(x, o.side, fallback) = NoPrice
  <2>1. "Rejected" \in SentState \ {"Filled"} /\ IsTerminal("Rejected")
        /\ StateOf(x, id) # "Filled"
    BY <1>1 DEF SentState, OrderState, IsTerminal, Terminal, StateOf
  <2>2. QED
    BY <1>4, <1>7, <2>1, SetStateSim
<1>8. CASE MarketPrice(x, o.side, fallback) # NoPrice
  BY <1>4, <1>5, <1>6, <1>8, SimOrder
<1>9. QED
  BY <1>7, <1>8

LEMMA SimBook ==
  ASSUME NEW x, SoundSim(x), NEW b
  PROVE  LET y == [x EXCEPT !.book = b]
         IN  /\ SoundSim(y) /\ Live(y) = Live(x) /\ y.orders = x.orders
             /\ y.buckets = x.buckets /\ y.book = b
<1> DEFINE y == [x EXCEPT !.book = b]
<1>1. /\ x = [model |-> x.model, book |-> x.book, orders |-> x.orders, buckets |-> x.buckets]
      /\ x.orders = [id \in Live(x) |-> x.orders[id]]
      /\ \A id \in Live(x) : SoundOrder(x.orders[id])
      /\ x.buckets \in [BucketKey -> Seq(OrderId)]
      /\ \A k \in BucketKey, id \in Live(x) : InBucket(x, k, id) => BucketOf(x.orders[id]) = k
  BY DEF SoundSim
<1>2. /\ y = [model |-> y.model, book |-> y.book, orders |-> y.orders, buckets |-> y.buckets]
      /\ y.orders = x.orders /\ y.buckets = x.buckets /\ y.book = b
  BY <1>1
<1> HIDE DEF y
<1>3. Live(y) = Live(x) /\ \A k, id : InBucket(y, k, id) <=> InBucket(x, k, id)
  BY <1>2 DEF Live, InBucket
<1>4. SoundSim(y)
  BY <1>1, <1>2, <1>3 DEF SoundSim
<1>5. QED
  BY <1>2, <1>3, <1>4 DEF y

LEMMA LevelsAreBook ==
  ASSUME NEW book \in L3Book
  PROVE  LevelsOf(book) \in Book
<1>1. \A s \in BookSide, p \in Prices : QtyOf(book[s][p]) \in Nat
  BY RestingIsEntry, QtyIsNat DEF L3Book
<1>2. QED
  BY <1>1 DEF LevelsOf, Book

LEMMA KeepingTwice ==
  ASSUME NEW x, NEW y, NEW z, Live(y) = Live(x), Keeping(x, y), Keeping(y, z)
  PROVE  Keeping(x, z)
  BY DEF Keeping, Stays

\* A market order and what of it is cancelled.
LEMMA ExecuteMarketSim ==
  ASSUME NEW x, SoundSim(x), NEW book \in L3Book, NEW id \in Live(x),
         x.orders[id].type = "Market", StateOf(x, id) = "PendingNew", NEW fallback
  PROVE  LET y == ExecuteMarketL3(x, book, id, fallback)
         IN  /\ SoundSim(y) /\ Live(y) = Live(x) /\ y.buckets = x.buckets /\ Keeping(x, y)
<1> DEFINE b == LevelsOf(book)
           u == [x EXCEPT !.book = b]
           v == FillMarketImmediately(u, id, fallback)
           c == x.book
           w == [v EXCEPT !.book = c]
           z == ForceCancelPartialFill(w, id)
<1>1. b \in Book
  BY LevelsAreBook
<1> HIDE DEF b, c
<1>2. SoundSim(u) /\ Live(u) = Live(x) /\ u.orders = x.orders /\ u.buckets = x.buckets /\ u.book = b
  BY SimBook
<1> HIDE DEF u
<1>3. u.orders[id].type = "Market" /\ StateOf(u, id) = "PendingNew" /\ id \in Live(u)
  BY <1>2 DEF StateOf
<1>4. SoundSim(v) /\ Live(v) = Live(u) /\ v.buckets = u.buckets /\ Keeping(u, v)
  BY <1>1, <1>2, <1>3, FillMarketSim
<1> HIDE DEF v
<1>5. SoundSim(w) /\ Live(w) = Live(v) /\ w.orders = v.orders /\ w.buckets = v.buckets
  BY <1>4, SimBook
<1>6. TakeFromLevels(x, book, id, fallback) = w
  BY DEF TakeFromLevels, w, v, u, b, c
<1> HIDE DEF w
<1>7. Keeping(x, w)
  BY <1>2, <1>4, <1>5 DEF Keeping
<1>8. CASE StateOf(w, id) = "PartiallyFilled"
  <2>1. /\ "Cancelled" \in SentState \ {"Filled"} /\ IsTerminal("Cancelled")
        /\ id \in Live(w) /\ StateOf(w, id) # "Filled"
    BY <1>2, <1>4, <1>5, <1>8 DEF SentState, OrderState, IsTerminal, Terminal
  <2>2. z = SetState(w, id, "Cancelled")
    BY DEF ForceCancelPartialFill
  <2> HIDE DEF z
  <2>3. SoundSim(z) /\ Live(z) = Live(w) /\ z.buckets = w.buckets /\ Keeping(w, z)
    BY <1>5, <2>1, <2>2, SetStateSim
  <2>4. Keeping(x, z)
    BY <1>2, <1>4, <1>5, <1>7, <2>3, KeepingTwice
  <2>5. ExecuteMarketL3(x, book, id, fallback) = z
    BY <1>6, <1>8 DEF ExecuteMarketL3, z
  <2>6. QED
    BY <1>2, <1>4, <1>5, <2>3, <2>4, <2>5
<1>9. CASE StateOf(w, id) # "PartiallyFilled"
  <2>1. ExecuteMarketL3(x, book, id, fallback) = w
    BY <1>6, <1>9 DEF ExecuteMarketL3
  <2>2. QED
    BY <1>2, <1>4, <1>5, <1>7, <2>1
<1>10. QED
  BY <1>8, <1>9

\* submit_order, then register_order with the L3 book.
Submitted(x, book, id, o) ==
  [SubmitOrder(x, id, o) EXCEPT !.orders[id].queue = RegisterL3(book, id, o)]

LEMMA SubmittedSim ==
  ASSUME NEW x, SoundSim(x), NEW book \in L3Book, NEW id \in OrderId, id \notin Live(x),
         \A k \in BucketKey : ~InBucket(x, k, id),
         NEW o \in [side : BookSide, type : OrderType, price : Prices, qty : OrderQtys]
  PROVE  LET y == Submitted(x, book, id, o)
         IN  /\ SoundSim(y) /\ Live(y) = Live(x) \cup {id} /\ Keeping(x, y)
             /\ y.orders[id].queue = RegisterL3(book, id, o)
             /\ y.orders[id].side = o.side /\ y.orders[id].price = o.price
             /\ \A k \in BucketKey : \A i : InBucket(y, k, i) => i = id \/ InBucket(x, k, i)
<1> DEFINE key  == BucketOf(o)
           old  == x.buckets[key]
           ids  == Append(old, id)
           q    == RegisterL3(book, id, o)
           reg  == RegisterOrder(LevelQty(x.book, o.side, o.price))
           live == [side |-> o.side, type |-> o.type, price |-> o.price,
                    qty |-> o.qty, state |-> "PendingNew", filled |-> 0,
                    remaining |-> o.qty, queue |-> reg]
           n    == [live EXCEPT !.queue = q]
           z    == SubmitOrder(x, id, o)
           y    == Submitted(x, book, id, o)
<1>1. /\ x.orders = [i \in Live(x) |-> x.orders[i]]
      /\ \A i \in Live(x) : SoundOrder(x.orders[i])
      /\ x.buckets \in [BucketKey -> Seq(OrderId)]
      /\ \A k \in BucketKey, i \in Live(x) : InBucket(x, k, i) => BucketOf(x.orders[i]) = k
  BY DEF SoundSim
<1>2. /\ o.side \in BookSide /\ o.side \in Side /\ o.price \in Prices /\ o.type \in OrderType
      /\ o.qty \in OrderQtys /\ o.qty \in Nat \ {0}
  BY QtysArePositive DEF BookSide, Side
<1>3. key \in BucketKey /\ old \in Seq(OrderId)
  BY <1>1, <1>2 DEF BucketOf, BucketKey
<1>4. ids \in Seq(OrderId) /\ Len(ids) = Len(old) + 1 /\ ids[Len(old) + 1] = id
      /\ \A i \in 1 .. Len(old) : ids[i] = old[i]
  BY <1>3, AppendProperties
<1>5. SoundQueue(q)
  BY <1>2, RegisterSound
<1>6. z = [model |-> x.model, book |-> x.book, orders |-> Insert(x.orders, id, live),
           buckets |-> [x.buckets EXCEPT ![key] = ids]]
  BY DEF SubmitOrder, Reindex
<1>7. y = [z EXCEPT !.orders[id].queue = q]
  BY DEF Submitted
<1> HIDE DEF q, reg, z, y, key, ids
<1>8. n = [side |-> o.side, type |-> o.type, price |-> o.price,
           qty |-> o.qty, state |-> "PendingNew", filled |-> 0,
           remaining |-> o.qty, queue |-> q]
  OBVIOUS
<1>9. SoundOrder(n)
  <2>1. n \in L3Order
    BY <1>2, <1>5, <1>8, SoundIsTyped DEF L3Order, SentState, OrderState
  <2>2. QED
    BY <1>2, <1>5, <1>8, <2>1 DEF SoundOrder, Conserved
<1> DEFINE f == [i \in Live(x) \cup {id} |-> IF i = id THEN live ELSE x.orders[i]]
           g == [i \in Live(x) \cup {id} |-> IF i = id THEN n ELSE x.orders[i]]
           B == [x.buckets EXCEPT ![key] = ids]
<1>10. Insert(x.orders, id, live) = f
  BY DEF Insert, Live
<1>11. [f EXCEPT ![id].queue = q] = g
  OBVIOUS
<1> HIDE DEF f, g, n, live, B
<1>12. /\ y = [model |-> y.model, book |-> y.book, orders |-> y.orders, buckets |-> y.buckets]
       /\ y.orders = [f EXCEPT ![id].queue = q] /\ y.buckets = B
  BY <1>6, <1>7, <1>10 DEF B
<1>13. y.orders = g
  BY <1>11, <1>12
<1>14. /\ Live(y) = Live(x) \cup {id}
       /\ y.orders[id] = n /\ \A i \in Live(x) : y.orders[i] = x.orders[i]
       /\ y.orders = [i \in Live(y) |-> y.orders[i]]
  BY <1>13 DEF Live, g
<1>15. B \in [BucketKey -> Seq(OrderId)]
  BY <1>1, <1>3, <1>4 DEF B
<1>16. ASSUME NEW k \in BucketKey, NEW i, InBucket(y, k, i)
       PROVE  InBucket(x, k, i) \/ (i = id /\ k = key)
  <2>1. PICK j \in DOMAIN B[k] : B[k][j] = i
    BY <1>12, <1>16 DEF InBucket
  <2>2. CASE k # key
    BY <1>1, <2>1, <2>2 DEF B, InBucket
  <2>3. CASE k = key
    <3>1. B[k] = ids
      BY <1>1, <1>3, <2>3 DEF B
    <3>2. j \in 1 .. Len(old) + 1 /\ DOMAIN old = 1 .. Len(old) /\ ids[j] = i
      BY <1>3, <1>4, <2>1, <3>1, LenProperties
    <3>3. CASE j \in 1 .. Len(old)
      BY <1>4, <2>3, <3>2, <3>3 DEF InBucket
    <3>4. CASE j = Len(old) + 1
      BY <1>4, <2>3, <3>2, <3>4
    <3>5. QED
      BY <1>3, <3>2, <3>3, <3>4, LenProperties
  <2>4. QED
    BY <2>2, <2>3
<1>17. BucketOf(n) = key
  BY <1>8 DEF BucketOf, key
<1>18. \A k \in BucketKey, i \in Live(y) : InBucket(y, k, i) => BucketOf(y.orders[i]) = k
  BY <1>1, <1>14, <1>16, <1>17
<1>19. \A i \in Live(y) : SoundOrder(y.orders[i])
  BY <1>1, <1>9, <1>14
<1>20. SoundSim(y)
  BY <1>12, <1>14, <1>15, <1>18, <1>19 DEF SoundSim
<1>21. Keeping(x, y)
  BY <1>14 DEF Keeping, Stays
<1>22. y.orders[id].queue = q /\ y.orders[id].side = o.side /\ y.orders[id].price = o.price
  BY <1>8, <1>14
<1>23. QED
  BY <1>14, <1>16, <1>20, <1>21, <1>22 DEF y, q

\* remove_order.
LEMMA RemovedSim ==
  ASSUME NEW x, SoundSim(x), NEW id \in Live(x)
  PROVE  LET y == RemoveOrder(x, id)
         IN  /\ SoundSim(y) /\ Live(y) = Live(x) \ {id} /\ Keeping(x, y)
             /\ \A k \in BucketKey : \A i : InBucket(y, k, i) => InBucket(x, k, i)
<1> DEFINE key == BucketOf(x.orders[id])
           old == x.buckets[key]
           at  == PositionIn(old, id)
           ids == IF InBucket(x, key, id) THEN DropAt(old, at) ELSE old
           y   == RemoveOrder(x, id)
           B   == [x.buckets EXCEPT ![key] = ids]
<1>1. /\ x.orders = [i \in Live(x) |-> x.orders[i]]
      /\ \A i \in Live(x) : SoundOrder(x.orders[i])
      /\ x.buckets \in [BucketKey -> Seq(OrderId)]
      /\ \A k \in BucketKey, i \in Live(x) : InBucket(x, k, i) => BucketOf(x.orders[i]) = k
  BY DEF SoundSim
<1>2. key \in BucketKey /\ old \in Seq(OrderId)
  <2>1. x.orders[id].side \in Side /\ x.orders[id].price \in Prices
    BY <1>1, L3OrderOf DEF SoundOrder, BookSide, Side
  <2>2. key \in BucketKey
    BY <2>1 DEF BucketOf, BucketKey
  <2>3. QED
    BY <1>1, <2>2
<1>3. y = [model |-> x.model, book |-> x.book, orders |-> Erase(x.orders, id), buckets |-> B]
  BY DEF RemoveOrder, Reindex
<1> HIDE DEF y, at, key
<1>4. ids \in Seq(OrderId) /\ \A j \in 1 .. Len(ids) : \E m \in 1 .. Len(old) : ids[j] = old[m]
  <2>1. CASE ~InBucket(x, key, id)
    BY <1>2, <2>1
  <2>2. CASE InBucket(x, key, id)
    <3> DEFINE n == Len(old)
    <3>1. n \in Nat /\ n # 0 /\ \A j \in 1 .. n : old[j] \in OrderId
      BY <1>2, <2>2, LenProperties, ElementOfSeq DEF InBucket
    <3> DEFINE d(j) == IF j < at THEN old[j] ELSE old[j + 1]
    <3>2. ids = [j \in 1 .. n - 1 |-> d(j)]
      BY <2>2 DEF DropAt
    <3>3. \A j \in 1 .. n - 1 : j \in 1 .. n /\ j + 1 \in 1 .. n
      BY <3>1
    <3>4. \A j \in 1 .. n - 1 : d(j) \in OrderId /\ \E m \in 1 .. n : d(j) = old[m]
      BY <3>1, <3>3
    <3> HIDE DEF d, n, ids
    <3>5. [j \in 1 .. n - 1 |-> d(j)] \in Seq(OrderId) /\ Len([j \in 1 .. n - 1 |-> d(j)]) = n - 1
      <4>1. n - 1 \in Nat
        BY <3>1
      <4>2. QED
        BY <3>4, <4>1, IsASeq
    <3>6. \A j \in 1 .. n - 1 : ids[j] = d(j)
      BY <3>2
    <3>7. QED
      BY <3>2, <3>4, <3>5, <3>6 DEF n
  <2>3. QED
    BY <2>1, <2>2
<1> HIDE DEF ids, B, old
<1>5. /\ y = [model |-> y.model, book |-> y.book, orders |-> y.orders, buckets |-> y.buckets]
      /\ y.orders = [i \in Live(x) \ {id} |-> x.orders[i]] /\ y.buckets = B
  BY <1>3 DEF Erase, Live
<1>6. /\ Live(y) = Live(x) \ {id} /\ \A i \in Live(y) : y.orders[i] = x.orders[i]
      /\ y.orders = [i \in Live(y) |-> y.orders[i]]
  BY <1>5 DEF Live
<1>7. B \in [BucketKey -> Seq(OrderId)]
  BY <1>1, <1>2, <1>4 DEF B
<1>8. ASSUME NEW k \in BucketKey, NEW i, InBucket(y, k, i)
      PROVE  InBucket(x, k, i)
  <2>1. PICK j \in DOMAIN B[k] : B[k][j] = i
    BY <1>5, <1>8 DEF InBucket
  <2>2. CASE k # key
    BY <1>1, <2>1, <2>2 DEF B, InBucket
  <2>3. CASE k = key
    <3>1. B[k] = ids
      BY <1>1, <1>2, <2>3 DEF B
    <3>2. DOMAIN ids = 1 .. Len(ids) /\ DOMAIN old = 1 .. Len(old)
      BY <1>2, <1>4, LenProperties
    <3>3. PICK m \in DOMAIN old : old[m] = i
      BY <1>4, <2>1, <3>1, <3>2
    <3>4. QED
      BY <2>3, <3>3 DEF InBucket, old
  <2>4. QED
    BY <2>2, <2>3
<1>9. \A k \in BucketKey, i \in Live(y) : InBucket(y, k, i) => BucketOf(y.orders[i]) = k
  BY <1>1, <1>6, <1>8
<1>10. SoundSim(y)
  BY <1>1, <1>5, <1>6, <1>7, <1>9 DEF SoundSim
<1>11. Keeping(x, y)
  BY <1>6 DEF Keeping, Stays
<1>12. QED
  BY <1>6, <1>8, <1>10, <1>11 DEF y

\* on_trade.
LEMMA TradeSim ==
  ASSUME NEW x, SoundSim(x), NEW trade, trade.qty \in Nat
  PROVE  LET y == OnTradeL3(x, trade)
         IN  /\ SoundSim(y) /\ Live(y) = Live(x) /\ y.buckets = x.buckets
             /\ \A id \in Live(x) :
                  /\ y.orders[id].side = x.orders[id].side
                  /\ y.orders[id].price = x.orders[id].price
                  /\ y.orders[id].queue
                       = IF id \in Asked(x, trade)
                         THEN L3Fill(x.orders[id].queue, x.orders[id].remaining, trade.qty).queue
                         ELSE x.orders[id].queue
<1> DEFINE ans(id) == L3Fill(x.orders[id].queue, x.orders[id].remaining, trade.qty)
           new(id) == AfterAnswer(x.orders[id], ans(id))
           f == [id \in Live(x) |-> IF id \in Asked(x, trade) THEN new(id) ELSE x.orders[id]]
<1>1. \A id \in Live(x) : SoundOrder(x.orders[id])
  BY DEF SoundSim
<1>2. ASSUME NEW id \in Live(x), id \in Asked(x, trade)
      PROVE  /\ SoundOrder(new(id)) /\ new(id).side = x.orders[id].side
             /\ new(id).price = x.orders[id].price /\ new(id).queue = ans(id).queue
  <2>1. x.orders[id].remaining > 0
    BY <1>2 DEF Asked
  <2>2. SoundOrder(new(id))
    BY <1>1, <2>1, AnswerSound
  <2> DEFINE o == x.orders[id]
             a == ans(id)
  <2>3. o = [side |-> o.side, type |-> o.type, price |-> o.price, qty |-> o.qty,
             state |-> o.state, filled |-> o.filled, remaining |-> o.remaining,
             queue |-> o.queue]
    BY <1>1, L3OrderOf DEF SoundOrder
  <2>4. new(id) = AfterAnswer(o, a)
    OBVIOUS
  <2> HIDE DEF o, a, ans, new
  <2>5. /\ AfterAnswer(o, a).side = o.side /\ AfterAnswer(o, a).price = o.price
        /\ AfterAnswer(o, a).queue = a.queue
    <3>1. CASE a.fill <= 0
      <4>1. AfterAnswer(o, a) = [o EXCEPT !.queue = a.queue]
        BY <3>1 DEF AfterAnswer
      <4>2. QED
        BY <2>3, <4>1
    <3>2. CASE ~(a.fill <= 0)
      <4>1. AfterAnswer(o, a)
              = [o EXCEPT !.queue = a.queue, !.filled = @ + a.fill, !.remaining = @ - a.fill,
                          !.state = AfterFill(o.remaining - a.fill)]
        BY <3>2 DEF AfterAnswer
      <4>2. QED
        BY <2>3, <4>1
    <3>3. QED
      BY <3>1, <3>2
  <2>6. QED
    BY <2>2, <2>4, <2>5 DEF o, a
<1>3. OnTradeL3(x, trade) = [x EXCEPT !.orders = f]
  BY DEF OnTradeL3
<1> HIDE DEF new, ans
<1>4. f = [id \in Live(x) |-> f[id]]
  OBVIOUS
<1>5. \A id \in Live(x) : /\ SoundOrder(f[id])
                          /\ f[id].side = x.orders[id].side
                          /\ f[id].price = x.orders[id].price
                          /\ f[id].queue = IF id \in Asked(x, trade) THEN ans(id).queue
                                           ELSE x.orders[id].queue
  BY <1>1, <1>2
<1> HIDE DEF f
<1>6. QED
  BY <1>3, <1>4, <1>5, SimOrders DEF ans

\* apply_l3_update.
LEMMA UpdateSim ==
  ASSUME NEW x, SoundSim(x), NEW u \in L3Messages
  PROVE  LET y == ApplyL3ToOrders(x, u)
         IN  /\ SoundSim(y) /\ Live(y) = Live(x) /\ y.buckets = x.buckets
             /\ \A id \in Live(x) :
                  /\ y.orders[id].side = x.orders[id].side
                  /\ y.orders[id].price = x.orders[id].price
                  /\ y.orders[id].state = x.orders[id].state
                  /\ y.orders[id].queue
                       = IF StateOf(x, id) \in Following THEN AfterL3Update(x.orders[id], u)
                         ELSE x.orders[id].queue
<1> DEFINE q(id) == AfterL3Update(x.orders[id], u)
           new(id) == [x.orders[id] EXCEPT !.queue = q(id)]
           f == [id \in Live(x) |-> IF StateOf(x, id) \in Following THEN new(id) ELSE x.orders[id]]
<1>1. \A id \in Live(x) : SoundOrder(x.orders[id])
  BY DEF SoundSim
<1>2. ASSUME NEW id \in Live(x)
      PROVE  /\ SoundOrder(new(id)) /\ new(id).side = x.orders[id].side
             /\ new(id).price = x.orders[id].price /\ new(id).queue = q(id)
             /\ new(id).state = x.orders[id].state
  <2> DEFINE o == x.orders[id]
             p == q(id)
  <2>1. SoundOrder(o)
    BY <1>1
  <2>2. SoundQueue(p) /\ (o.queue.ahead = <<>> => p.ahead = <<>>)
    BY <2>1, AfterL3UpdateSound DEF SoundOrder
  <2>3. new(id) = [o EXCEPT !.queue = p]
    OBVIOUS
  <2> HIDE DEF p, o, new, q
  <2>4. SoundOrder([o EXCEPT !.queue = p])
    BY <2>1, <2>2, QueueSound
  <2>5. o = [side |-> o.side, type |-> o.type, price |-> o.price, qty |-> o.qty,
             state |-> o.state, filled |-> o.filled, remaining |-> o.remaining,
             queue |-> o.queue]
    BY <2>1, L3OrderOf DEF SoundOrder
  <2> DEFINE n == [o EXCEPT !.queue = p]
  <2>6. n.side = o.side /\ n.price = o.price /\ n.queue = p /\ n.state = o.state
    BY <2>5
  <2> HIDE DEF n
  <2>7. QED
    BY <2>3, <2>4, <2>6 DEF o, p, n
<1>3. ApplyL3ToOrders(x, u) = [x EXCEPT !.orders = f]
  BY DEF ApplyL3ToOrders
<1> HIDE DEF new, q
<1>4. f = [id \in Live(x) |-> f[id]]
  OBVIOUS
<1>5. \A id \in Live(x) : /\ SoundOrder(f[id])
                          /\ f[id].side = x.orders[id].side
                          /\ f[id].price = x.orders[id].price
                          /\ f[id].state = x.orders[id].state
                          /\ f[id].queue = IF StateOf(x, id) \in Following THEN q(id)
                                           ELSE x.orders[id].queue
  BY <1>1, <1>2
<1> HIDE DEF f
<1>6. QED
  BY <1>3, <1>4, <1>5, SimOrders DEF q

-----------------------------------------------------------------------------
(***************************************************************************)
(* The messages of the venue                                               *)
(***************************************************************************)
Messages == L3Messages \cup TradeMessages

LEMMA UpdateOf ==
  ASSUME NEW key \in Keys, NEW action \in L3Action, NEW id \in Nat, NEW qty \in Nat,
         action = "ADD" => qty > 0
  PROVE  /\ Update(key, action, id, qty) \in L3Messages
         /\ Update(key, action, id, qty).kind = "L3Update"
         /\ Update(key, action, id, qty).side = key[1]
         /\ Update(key, action, id, qty).price = key[2]
         /\ Update(key, action, id, qty).action = action
         /\ Update(key, action, id, qty).id = id
         /\ Update(key, action, id, qty).qty = qty
<1>1. key[1] \in BookSide /\ key[2] \in Prices
  BY L3Assumption DEF Keys
<1>2. QED
  BY <1>1 DEF Update, L3Messages

LEMMA TradeOf ==
  ASSUME NEW key \in Keys, NEW qty \in Nat \ {0}
  PROVE  /\ Trade(key, qty) \in TradeMessages /\ Trade(key, qty).kind = "Tick"
         /\ MakerSide(Trade(key, qty).side) = key[1] /\ Trade(key, qty).price = key[2]
         /\ Trade(key, qty).qty = qty
<1>1. key[1] \in BookSide /\ key[2] \in Prices
  BY L3Assumption DEF Keys
<1>2. QED
  BY <1>1 DEF Trade, TradeMessages, MakerSide, BookSide

LEMMA KindsOfMessages ==
  /\ \A m \in L3Messages : m.kind = "L3Update" /\ m \in Messages
  /\ \A m \in TradeMessages : /\ m.kind = "Tick" /\ m \in Messages
                              /\ m.price \in Prices /\ m.qty \in Nat \ {0}
  /\ \A m \in Messages : /\ m.kind = "L3Update" => m \in L3Messages
                         /\ m.kind = "Tick" => m \in TradeMessages
  BY DEF Messages, L3Messages, TradeMessages

LEMMA LineType ==
  ASSUME NEW book \in L3Book, NEW key \in Keys
  PROVE  book[key[1]][key[2]] \in Seq(Resting) /\ key[1] \in BookSide /\ key[2] \in Prices
  BY L3Assumption DEF L3Book, Keys

LEMMA SetLine ==
  ASSUME NEW book \in L3Book, NEW key \in Keys, NEW line \in Seq(Resting)
  PROVE  LET y == [book EXCEPT ![key[1]][key[2]] = line]
         IN  /\ y \in L3Book
             /\ \A s \in BookSide, p \in Prices :
                  y[s][p] = IF s = key[1] /\ p = key[2] THEN line ELSE book[s][p]
<1>1. key[1] \in BookSide /\ key[2] \in Prices
  BY LineType
<1>2. QED
  BY <1>1 DEF L3Book

(***************************************************************************)
(* What a trade takes from a line, served from its front.                  *)
(***************************************************************************)
Serves == INSTANCE FoldTheory WITH Op <- Serve

Asking(qty) == [asked |-> qty, line |-> <<>>, served |-> <<>>]
ServeRun(s, qty) == FoldLeft(Serve, Asking(qty), s)

Serving == [asked : Nat, line : Seq(Resting), served : Seq(AnyEntry)]

LEMMA ServingOf ==
  ASSUME NEW q \in Nat, NEW l \in Seq(Resting), NEW v \in Seq(AnyEntry)
  PROVE  [asked |-> q, line |-> l, served |-> v] \in Serving
  BY DEF Serving

LEMMA ServeTyped ==
  ASSUME NEW r \in Serving, NEW e \in Resting
  PROVE  Serve(r, e) \in Serving
<1> DEFINE q == r.asked
           l == r.line
           v == r.served
<1>1. /\ q \in Nat /\ l \in Seq(Resting) /\ v \in Seq(AnyEntry)
      /\ r = [asked |-> q, line |-> l, served |-> v]
  BY DEF Serving
<1> HIDE DEF q, l, v
<1>2. e.id \in Nat /\ e.qty \in Nat \ {0}
  BY DEF Resting
<1>3. CASE q = 0
  <2>1. Serve(r, e) = [asked |-> q, line |-> Append(l, e), served |-> v]
    BY <1>1, <1>3 DEF Serve
  <2>2. Append(l, e) \in Seq(Resting)
    BY <1>1, AppendProperties
  <2>3. QED
    BY <1>1, <2>1, <2>2, ServingOf
<1>4. CASE q # 0 /\ q < e.qty
  <2> DEFINE x == Entry(e.id, e.qty - q)
  <2>1. x \in Resting /\ x \in AnyEntry
    BY <1>1, <1>2, <1>4, EntryOf
  <2>2. Serve(r, e) = [asked |-> 0, line |-> Append(l, x), served |-> Append(v, x)]
    BY <1>1, <1>4 DEF Serve
  <2> HIDE DEF x
  <2>3. Append(l, x) \in Seq(Resting) /\ Append(v, x) \in Seq(AnyEntry) /\ 0 \in Nat
    BY <1>1, <2>1, AppendProperties
  <2> DEFINE none == 0
  <2> HIDE DEF none
  <2>4. [asked |-> none, line |-> Append(l, x), served |-> Append(v, x)] \in Serving
    BY <2>3, ServingOf DEF none
  <2>5. QED
    BY <2>2, <2>4 DEF none
<1>5. CASE q # 0 /\ ~(q < e.qty)
  <2> DEFINE x == Entry(e.id, 0)
  <2>1. x \in AnyEntry
    BY <1>2, EntryOf
  <2>2. Serve(r, e) = [asked |-> q - e.qty, line |-> l, served |-> Append(v, x)]
    BY <1>1, <1>5 DEF Serve
  <2>3. q - e.qty \in Nat
    BY <1>1, <1>2, <1>5
  <2> HIDE DEF x
  <2>4. Append(v, x) \in Seq(AnyEntry)
    BY <1>1, <2>1, AppendProperties
  <2>5. QED
    BY <1>1, <2>2, <2>3, <2>4, ServingOf
<1>6. QED
  BY <1>1, <1>3, <1>4, <1>5

LEMMA ServeRunIsFold ==
  ASSUME NEW s, NEW qty
  PROVE  ServeRun(s, qty) = Serves!Fold(Asking(qty), s)
<1> DEFINE start == Asking(qty)
<1>1. ServeRun(s, qty) = FoldLeft(Serve, start, s)
  BY DEF ServeRun
<1> HIDE DEF start
<1>2. FoldLeft(Serve, start, s) = Serves!Fold(start, s)
  BY DEF Serves!Fold, FoldLeft,
         Serves!MapThenFoldSet, MapThenFoldSet, Serves!Latest, Max
<1>3. QED
  BY <1>1, <1>2 DEF start

LEMMA ServedType ==
  ASSUME NEW s \in Seq(Resting), NEW qty \in Nat
  PROVE  /\ Served(s, qty).line \in Seq(Resting)
         /\ Served(s, qty).served \in Seq(AnyEntry)
<1> DEFINE start == Asking(qty)
<1>1. start \in Serving
  <2>1. <<>> \in Seq(Resting) /\ <<>> \in Seq(AnyEntry)
    BY EmptySeq
  <2>2. QED
    BY <2>1, ServingOf DEF Asking
<1> HIDE DEF start
<1>2. Serves!Fold(start, s) \in Serving
  BY <1>1, ServeTyped, Serves!FoldKeeps
<1>3. Served(s, qty) = ServeRun(s, qty)
  BY DEF Served, ServeRun, Asking
<1>4. Served(s, qty) \in Serving
  BY <1>2, <1>3, ServeRunIsFold DEF start
<1>5. QED
  BY <1>4 DEF Serving

\* The updates of the orders that were served.
Shown(key, served) == [i \in DOMAIN served |-> Show(key, served[i])]

LEMMA ShowType ==
  ASSUME NEW key \in Keys, NEW e \in AnyEntry
  PROVE  Show(key, e) \in L3Messages /\ Show(key, e).action # "ADD"
<1>1. e.id \in Nat /\ e.qty \in Nat
  BY DEF AnyEntry
<1>2. CASE e.qty = 0
  BY <1>1, <1>2, UpdateOf DEF Show, L3Action
<1>3. CASE e.qty # 0
  BY <1>1, <1>3, UpdateOf DEF Show, L3Action
<1>4. QED
  BY <1>2, <1>3

LEMMA ShownType ==
  ASSUME NEW key \in Keys, NEW served \in Seq(AnyEntry)
  PROVE  /\ Shown(key, served) \in Seq(L3Messages) /\ Len(Shown(key, served)) = Len(served)
         /\ \A i \in 1 .. Len(served) : Shown(key, served)[i] = Show(key, served[i])
<1> DEFINE n == Len(served)
           f(i) == Show(key, served[i])
<1>1. n \in Nat /\ DOMAIN served = 1 .. n /\ \A i \in 1 .. n : served[i] \in AnyEntry
  BY LenProperties, ElementOfSeq
<1>2. \A i \in 1 .. n : f(i) \in L3Messages
  BY <1>1, ShowType
<1>3. Shown(key, served) = [i \in 1 .. n |-> f(i)]
  BY <1>1 DEF Shown
<1> HIDE DEF n, f
<1>4. [i \in 1 .. n |-> f(i)] \in Seq(L3Messages) /\ Len([i \in 1 .. n |-> f(i)]) = n
  BY <1>1, <1>2, IsASeq
<1>5. \A i \in 1 .. n : [j \in 1 .. n |-> f(j)][i] = f(i)
  OBVIOUS
<1>6. QED
  BY <1>3, <1>4, <1>5 DEF n, f

-----------------------------------------------------------------------------
(***************************************************************************)
(* Lines in which every id occurs once                                     *)
(***************************************************************************)
IdsIn(s) == {s[j].id : j \in 1 .. Len(s)}
Unique(s) == \A i, j \in 1 .. Len(s) : s[i].id = s[j].id => i = j

\* The places of a line that is put together from two.
LEMMA PlacesOfConcat ==
  ASSUME NEW E, NEW a \in Seq(E), NEW b \in Seq(E)
  PROVE  /\ a \o b \in Seq(E) /\ Len(a \o b) = Len(a) + Len(b)
         /\ Len(a) \in Nat /\ Len(b) \in Nat
         /\ \A j \in 1 .. Len(a) : j \in 1 .. Len(a) + Len(b) /\ (a \o b)[j] = a[j]
         /\ \A j \in 1 .. Len(b) : /\ Len(a) + j \in 1 .. Len(a) + Len(b)
                                   /\ (a \o b)[Len(a) + j] = b[j]
         /\ \A j \in 1 .. Len(a) + Len(b) :
              j \in 1 .. Len(a) \/ \E i \in 1 .. Len(b) : j = Len(a) + i
<1> DEFINE l == Len(a)
           m == Len(b)
           c == a \o b
<1>1. l \in Nat /\ m \in Nat
  BY LenProperties
<1>2. /\ c \in Seq(E) /\ Len(c) = l + m
      /\ \A j \in 1 .. l + m : c[j] = IF j <= l THEN a[j] ELSE b[j - l]
  BY ConcatProperties
<1> HIDE DEF l, m, c
<1>3. \A j \in 1 .. l : j \in 1 .. l + m /\ j <= l
  BY <1>1
<1>4. \A j \in 1 .. m : l + j \in 1 .. l + m /\ ~(l + j <= l) /\ (l + j) - l = j
  BY <1>1
<1>5. \A j \in 1 .. l + m : j \in 1 .. l \/ (j - l \in 1 .. m /\ j = l + (j - l))
  BY <1>1
<1>6. \A j \in 1 .. l : c[j] = a[j]
  BY <1>2, <1>3
<1>7. \A j \in 1 .. m : c[l + j] = b[j]
  BY <1>2, <1>4
<1>8. \A j \in 1 .. l + m : j \in 1 .. l \/ \E i \in 1 .. m : j = l + i
  BY <1>5
<1>9. QED
  BY <1>1, <1>2, <1>3, <1>4, <1>6, <1>7, <1>8 DEF l, m, c

LEMMA IdsOfConcat ==
  ASSUME NEW E, NEW a \in Seq(E), NEW b \in Seq(E)
  PROVE  /\ IdsIn(a \o b) = IdsIn(a) \cup IdsIn(b)
         /\ Unique(a \o b) <=> Unique(a) /\ Unique(b) /\ IdsIn(a) \cap IdsIn(b) = {}
<1> DEFINE l == Len(a)
           m == Len(b)
           c == a \o b
<1>0. /\ c \in Seq(E) /\ Len(c) = l + m
      /\ l \in Nat /\ m \in Nat
      /\ \A j \in 1 .. l : j \in 1 .. l + m /\ c[j] = a[j]
      /\ \A j \in 1 .. m : /\ l + j \in 1 .. l + m
                           /\ c[l + j] = b[j]
      /\ \A j \in 1 .. l + m :
           j \in 1 .. l \/ \E i \in 1 .. m : j = l + i
  BY ZenonT(60), PlacesOfConcat, Zenon
<1> HIDE DEF l, m, c
<1>1. /\ Len(c) = l + m
      /\ l \in Nat /\ m \in Nat
      /\ \A j \in 1 .. l : j \in 1 .. l + m /\ c[j] = a[j]
      /\ \A j \in 1 .. m : l + j \in 1 .. l + m /\ c[l + j] = b[j]
      /\ \A j \in 1 .. l + m : j \in 1 .. l \/ \E i \in 1 .. m : j = l + i
  BY <1>0
<1>2. \A i, j \in 1 .. m : l + i = l + j => i = j
  BY <1>1
<1>3. \A i \in 1 .. l, j \in 1 .. m : i # l + j
  BY <1>1
<1>4. /\ IdsIn(a) = {a[j].id : j \in 1 .. l} /\ IdsIn(b) = {b[j].id : j \in 1 .. m}
      /\ IdsIn(c) = {c[j].id : j \in 1 .. l + m}
      /\ Unique(a) <=> \A i, j \in 1 .. l : a[i].id = a[j].id => i = j
      /\ Unique(b) <=> \A i, j \in 1 .. m : b[i].id = b[j].id => i = j
      /\ Unique(c) <=> \A i, j \in 1 .. l + m : c[i].id = c[j].id => i = j
  BY <1>1 DEF IdsIn, Unique, l, m
<1>5. IdsIn(c) = IdsIn(a) \cup IdsIn(b)
  <2>1. ASSUME NEW x \in IdsIn(c) PROVE x \in IdsIn(a) \cup IdsIn(b)
    <3>1. PICK j \in 1 .. l + m : x = c[j].id
      BY <1>4
    <3>2. CASE j \in 1 .. l
      BY <1>1, <1>4, <3>1, <3>2
    <3>3. ASSUME NEW i \in 1 .. m, j = l + i PROVE x \in IdsIn(b)
      <4>1. c[l + i] = b[i]
        BY <1>1
      <4>2. x = b[i].id
        BY <3>1, <3>3, <4>1
      <4>3. QED
        BY <1>4, <4>2
    <3>4. QED
      BY <1>1, <3>2, <3>3
  <2>2. ASSUME NEW x \in IdsIn(a) PROVE x \in IdsIn(c)
    BY <1>1, <1>4
  <2>3. ASSUME NEW x \in IdsIn(b) PROVE x \in IdsIn(c)
    BY <1>1, <1>4
  <2>4. QED
    BY <2>1, <2>2, <2>3
<1>6. ASSUME Unique(c) PROVE Unique(a) /\ Unique(b) /\ IdsIn(a) \cap IdsIn(b) = {}
  <2>1. Unique(a)
    BY <1>1, <1>4, <1>6
  <2>2. ASSUME NEW i \in 1 .. m, NEW j \in 1 .. m, b[i].id = b[j].id PROVE i = j
    <3>1. c[l + i] = b[i] /\ c[l + j] = b[j] /\ l + i \in 1 .. l + m /\ l + j \in 1 .. l + m
      BY <1>1
    <3>2. l + i = l + j
      BY <1>4, <1>6, <2>2, <3>1
    <3>3. QED
      BY <1>2, <3>2
  <2>3. ASSUME NEW i \in 1 .. l, NEW j \in 1 .. m PROVE a[i].id # b[j].id
    BY SMTT(60), <1>1, <1>3, <1>4, <1>6
  <2>4. ASSUME NEW x \in IdsIn(a), x \in IdsIn(b) PROVE FALSE
    <3>1. PICK i \in 1 .. l : x = a[i].id
      BY <1>4
    <3>2. PICK j \in 1 .. m : x = b[j].id
      BY <1>4, <2>4
    <3>3. QED
      BY <2>3, <3>1, <3>2
  <2>5. Unique(b)
    BY <1>4, <2>2
  <2>6. QED
    BY <2>1, <2>4, <2>5
<1>7. ASSUME Unique(a), Unique(b), IdsIn(a) \cap IdsIn(b) = {} PROVE Unique(c)
  <2>0. \A i \in 1 .. l, j \in 1 .. m : a[i].id # b[j].id
    BY SMTT(60), <1>4, <1>7
  <2>1. SUFFICES ASSUME NEW i \in 1 .. l + m, NEW j \in 1 .. l + m, c[i].id = c[j].id
                 PROVE  i = j
    BY <1>4
  <2>2. CASE i \in 1 .. l /\ j \in 1 .. l
    BY <1>1, <1>4, <1>7, <2>1, <2>2
  <2>3. ASSUME i \in 1 .. l, NEW h \in 1 .. m, j = l + h PROVE FALSE
    BY ZenonT(60), <1>1, <2>0, <2>1, <2>3
  <2>4. ASSUME j \in 1 .. l, NEW h \in 1 .. m, i = l + h PROVE FALSE
    BY ZenonT(60), <1>1, <2>0, <2>1, <2>4
  <2>5. ASSUME NEW g \in 1 .. m, i = l + g, NEW h \in 1 .. m, j = l + h PROVE i = j
    <3>1. c[l + g] = b[g] /\ c[l + h] = b[h]
      BY <1>1
    <3>2. b[g].id = b[h].id
      BY <2>1, <2>5, <3>1
    <3>3. g = h
      BY <1>4, <1>7, <3>2
    <3>4. QED
      BY <2>5, <3>3
  <2>6. QED
    BY <1>1, <2>2, <2>3, <2>4, <2>5
<1>8. QED
  BY <1>5, <1>6, <1>7 DEF c

LEMMA IdsOfOne ==
  ASSUME NEW e
  PROVE  IdsIn(<<e>>) = {e.id} /\ Unique(<<e>>)
  BY DEF IdsIn, Unique

LEMMA IdsOfNone == IdsIn(<<>>) = {} /\ Unique(<<>>)
  BY DEF IdsIn, Unique

\* A line around one order.
Amid(a, e, b) == (a \o <<e>>) \o b

LEMMA AmidType ==
  ASSUME NEW E, NEW a \in Seq(E), NEW b \in Seq(E), NEW e \in E
  PROVE  /\ Amid(a, e, b) \in Seq(E) /\ a \o b \in Seq(E)
         /\ a \o <<e>> \in Seq(E) /\ <<e>> \in Seq(E)
<1>1. <<e>> \in Seq(E)
  OBVIOUS
<1>2. a \o <<e>> \in Seq(E)
  BY <1>1, ConcatProperties
<1>3. QED
  BY <1>1, <1>2, ConcatProperties DEF Amid

LEMMA IdsAmid ==
  ASSUME NEW E, NEW a \in Seq(E), NEW b \in Seq(E), NEW e \in E
  PROVE  /\ IdsIn(Amid(a, e, b)) = IdsIn(a \o b) \cup {e.id}
         /\ Unique(Amid(a, e, b)) <=> Unique(a \o b) /\ e.id \notin IdsIn(a \o b)
         /\ e.id \notin IdsIn(a \o b) <=> e.id \notin IdsIn(a) /\ e.id \notin IdsIn(b)
<1>1. <<e>> \in Seq(E) /\ a \o <<e>> \in Seq(E)
  BY AmidType
<1> DEFINE x == <<e>>
<1>2. IdsIn(x) = {e.id} /\ Unique(x)
  BY IdsOfOne
<1> HIDE DEF x
<1>3. /\ IdsIn(a \o x) = IdsIn(a) \cup IdsIn(x)
      /\ Unique(a \o x) <=> Unique(a) /\ Unique(x) /\ IdsIn(a) \cap IdsIn(x) = {}
  BY <1>1, IdsOfConcat DEF x
<1>4. /\ IdsIn((a \o x) \o b) = IdsIn(a \o x) \cup IdsIn(b)
      /\ Unique((a \o x) \o b) <=> Unique(a \o x) /\ Unique(b) /\ IdsIn(a \o x) \cap IdsIn(b) = {}
  BY <1>1, IdsOfConcat DEF x
<1>5. /\ IdsIn(a \o b) = IdsIn(a) \cup IdsIn(b)
      /\ Unique(a \o b) <=> Unique(a) /\ Unique(b) /\ IdsIn(a) \cap IdsIn(b) = {}
  BY IdsOfConcat
<1>6. Amid(a, e, b) = (a \o x) \o b
  BY DEF Amid, x
<1>7. QED
  BY <1>2, <1>3, <1>4, <1>5, <1>6

\* The places of a line around an order, and what is before and behind it.
LEMMA PlacesAmid ==
  ASSUME NEW E, NEW a \in Seq(E), NEW b \in Seq(E), NEW e \in E
  PROVE  LET s == Amid(a, e, b)
             i == Len(a) + 1
         IN  /\ i \in 1 .. Len(s) /\ s[i] = e
             /\ \A j \in 1 .. i - 1 : j \in 1 .. Len(a) /\ s[j] = a[j]
             /\ SubSeq(s, 1, i - 1) = a /\ SubSeq(s, i + 1, Len(s)) = b
<1> DEFINE s == Amid(a, e, b)
           c == a \o <<e>>
           l == Len(a)
           i == l + 1
<1>0. <<e>> \in Seq(E) /\ c \in Seq(E) /\ s \in Seq(E) /\ Len(<<e>>) = 1 /\ <<e>>[1] = e
  BY AmidType
<1>1. l \in Nat /\ Len(b) \in Nat
  BY LenProperties
<1>2. /\ Len(c) = l + 1
      /\ \A j \in 1 .. l : c[j] = a[j]
      /\ c[l + 1] = e
  <2>1. /\ Len(c) = Len(a) + Len(<<e>>)
        /\ \A j \in 1 .. Len(a) : c[j] = a[j]
        /\ \A j \in 1 .. Len(<<e>>) : c[Len(a) + j] = <<e>>[j]
    BY <1>0, PlacesOfConcat
  <2>2. 1 \in 1 .. Len(<<e>>)
    BY <1>0
  <2>3. QED
    BY <1>0, <2>1, <2>2
<1> HIDE DEF c
<1>3. /\ Len(s) = Len(c) + Len(b)
      /\ \A j \in 1 .. Len(c) : s[j] = c[j]
      /\ \A j \in 1 .. Len(b) : s[Len(c) + j] = b[j]
  BY <1>0, PlacesOfConcat DEF Amid, c
<1> HIDE DEF s, l
<1>4. i \in 1 .. Len(s) /\ s[i] = e
  <2>1. i \in 1 .. l + 1 /\ i \in 1 .. (l + 1) + Len(b)
    BY <1>1
  <2>2. QED
    BY <1>2, <1>3, <2>1
<1>5. \A j \in 1 .. i - 1 : j \in 1 .. l /\ s[j] = a[j]
  <2>1. \A j \in 1 .. i - 1 : j \in 1 .. l /\ j \in 1 .. l + 1
    BY <1>1
  <2>2. QED
    BY <1>2, <1>3, <2>1
<1>6. /\ SubSeq(s, 1, i - 1) \in Seq(E) /\ Len(SubSeq(s, 1, i - 1)) = i - 1
      /\ \A j \in 1 .. i - 1 : SubSeq(s, 1, i - 1)[j] = s[j]
      /\ SubSeq(s, i + 1, Len(s)) \in Seq(E) /\ Len(SubSeq(s, i + 1, Len(s))) = Len(s) - i
      /\ \A j \in 1 .. Len(s) - i : SubSeq(s, i + 1, Len(s))[j] = s[i + j]
  BY ZenonT(60), <1>0, <1>4, BothSides
<1> DEFINE f == SubSeq(s, 1, i - 1)
           g == SubSeq(s, i + 1, Len(s))
<1>7. i - 1 = l /\ Len(s) - i = Len(b)
  BY <1>1, <1>2, <1>3
<1> HIDE DEF f, g
<1>8. f \in Seq(E) /\ Len(f) = l /\ \A j \in 1 .. l : f[j] = a[j]
  BY <1>5, <1>6, <1>7 DEF f
<1>9. g \in Seq(E) /\ Len(g) = Len(b) /\ \A j \in 1 .. Len(b) : g[j] = b[j]
  BY ZenonT(60), <1>2, <1>3, <1>6, <1>7 DEF g
<1>10. f = a
  BY <1>8, SeqEqual DEF l
<1>11. g = b
  BY <1>9, SeqEqual
<1>12. QED
  BY <1>4, <1>5, <1>10, <1>11 DEF s, l, f, g

LEMMA RemoveAmid ==
  ASSUME NEW E, NEW a \in Seq(E), NEW b \in Seq(E), NEW e \in E
  PROVE  RemoveAt(Amid(a, e, b), Len(a) + 1) = a \o b
<1> DEFINE s == Amid(a, e, b)
           i == Len(a) + 1
<1>1. SubSeq(s, 1, i - 1) = a /\ SubSeq(s, i + 1, Len(s)) = b
  BY PlacesAmid
<1> HIDE DEF s, i
<1>2. RemoveAt(s, i) = a \o b
  BY <1>1 DEF RemoveAt
<1>3. QED
  BY <1>2 DEF s, i

LEMMA ChangeAmid ==
  ASSUME NEW E, NEW a \in Seq(E), NEW b \in Seq(E), NEW e \in E, NEW x \in E
  PROVE  [Amid(a, e, b) EXCEPT ![Len(a) + 1] = x] = Amid(a, x, b)
<1> DEFINE s == Amid(a, e, b)
           i == Len(a) + 1
<1>1. s \in Seq(E)
  BY AmidType
<1>2. i \in 1 .. Len(s) /\ SubSeq(s, 1, i - 1) = a /\ SubSeq(s, i + 1, Len(s)) = b
  BY SMTT(60), PlacesAmid
<1> HIDE DEF s, i
<1>3. [s EXCEPT ![i] = x] = (SubSeq(s, 1, i - 1) \o <<x>>) \o SubSeq(s, i + 1, Len(s))
  BY ZenonT(60), <1>1, <1>2, Replaced
<1>4. [s EXCEPT ![i] = x] = Amid(a, x, b)
  BY <1>2, <1>3, Zenon DEF Amid
<1>5. QED
  BY <1>4 DEF s, i

\* Every place of a line is amid what is before and behind it.
LEMMA PlaceIsAmid ==
  ASSUME NEW E, NEW s \in Seq(E), NEW i \in 1 .. Len(s)
  PROVE  \E a \in Seq(E), b \in Seq(E) :
           s[i] \in E /\ s = Amid(a, s[i], b) /\ i = Len(a) + 1
<1> DEFINE a == SubSeq(s, 1, i - 1)
           b == SubSeq(s, i + 1, Len(s))
<1>1. /\ a \in Seq(E) /\ b \in Seq(E) /\ Len(a) = i - 1
      /\ s = (a \o <<s[i]>>) \o b
  BY ZenonT(60), Around
<1>2. s[i] \in E
  BY ElementOfSeq
<1> HIDE DEF a, b
<1>3. s = Amid(a, s[i], b)
  BY <1>1 DEF Amid
<1>4. i = Len(a) + 1
  BY <1>1
<1>5. QED
  BY <1>1, <1>2, <1>3, <1>4

LEMMA KeptAll ==
  ASSUME NEW E, NEW s \in Seq(E), NEW T
  PROVE  /\ (\A j \in 1 .. Len(s) : s[j] \in T) => Kept(s, T) = s
         /\ (\A j \in 1 .. Len(s) : s[j] \notin T) => Kept(s, T) = <<>>
<1>1. \A e \in ToSet(s) : \E j \in 1 .. Len(s) : e = s[j]
  BY LenProperties DEF ToSet
<1>2. ASSUME \A j \in 1 .. Len(s) : s[j] \in T PROVE Kept(s, T) = s
  <2>1. Kept(s, T) = Kept(s, E)
    <3>1. \A e \in ToSet(s) : e \in T <=> e \in E
      BY <1>1, <1>2, ElementOfSeq
    <3>2. QED
      BY <3>1, KeptOfOwn
  <2>2. QED
    BY <2>1, KeptWhole
<1>3. ASSUME \A j \in 1 .. Len(s) : s[j] \notin T PROVE Kept(s, T) = <<>>
  <2>1. Kept(s, T) = Kept(s, {})
    <3>1. \A e \in ToSet(s) : e \in T <=> e \in {}
      BY <1>1, <1>3
    <3>2. QED
      BY <3>1, KeptOfOwn
  <2>2. E \cap {} = {}
    OBVIOUS
  <2>3. QED
    BY <2>1, <2>2, KeptWhole
<1>4. QED
  BY <1>2, <1>3

LEMMA KeptOfOne ==
  ASSUME NEW e, NEW T
  PROVE  Kept(<<e>>, T) = IF e \in T THEN <<e>> ELSE <<>>
<1>1. <<>> \in Seq({e}) /\ e \in {e} /\ Append(<<>>, e) = <<e>>
  BY EmptySeq
<1>2. Kept(Append(<<>>, e), T) = IF e \in T THEN Append(Kept(<<>>, T), e) ELSE Kept(<<>>, T)
  BY <1>1, KeptOfAppend
<1>3. QED
  BY <1>1, <1>2, KeptOfEmpty

LEMMA KeptAmid ==
  ASSUME NEW E, NEW a \in Seq(E), NEW b \in Seq(E), NEW e \in E, NEW T
  PROVE  Kept(Amid(a, e, b), T) = IF e \in T THEN Amid(Kept(a, T), e, Kept(b, T))
                                  ELSE Kept(a, T) \o Kept(b, T)
<1>1. /\ Kept(Amid(a, e, b), T) = Kept(a \o <<e>>, T) \o Kept(b, T)
      /\ Kept(a \o <<e>>, T) = Kept(a, T) \o Kept(<<e>>, T)
  BY ZenonT(60), AmidType, KeptOfConcat DEF Amid
<1>2. Kept(a, T) \in Seq(E \cap T)
  BY KeptType
<1>3. Kept(a, T) \o <<>> = Kept(a, T)
  BY <1>2, ConcatEmptySeq
<1>4. QED
  BY <1>1, <1>3, KeptOfOne DEF Amid

\* Where the orders of an id are.
LEMMA IdIsAmid ==
  ASSUME NEW E, NEW s \in Seq(E), NEW id \in IdsIn(s)
  PROVE  \E a \in Seq(E), b \in Seq(E), e \in E : s = Amid(a, e, b) /\ e.id = id
<1>1. PICK i \in 1 .. Len(s) : s[i].id = id
  BY DEF IdsIn
<1>2. QED
  BY <1>1, PlaceIsAmid

-----------------------------------------------------------------------------
(***************************************************************************)
(* What an update does to the line of its price.                           *)
(***************************************************************************)
LEMMA WithoutAmid ==
  ASSUME NEW a \in Seq(Resting), NEW b \in Seq(Resting), NEW e \in Resting,
         Unique(Amid(a, e, b))
  PROVE  Without(Amid(a, e, b), e.id) = a \o b
<1> DEFINE s == Amid(a, e, b)
           T == {x \in ToSet(s) : x.id # e.id}
           U == {x \in Resting : x.id # e.id}
<1>1. s \in Seq(Resting)
  BY AmidType
<1>2. \A x \in ToSet(s) : x \in T <=> x \in U
  <2>1. \A x \in ToSet(s) : x \in Resting
    BY <1>1, ElementOfSeq, LenProperties DEF ToSet
  <2> HIDE DEF s
  <2>2. QED
    BY <2>1
<1>3. Without(s, e.id) = Kept(s, T)
  BY DEF Without
<1>4. Kept(s, T) = Kept(s, U)
  <2> HIDE DEF s, T, U
  <2>1. QED
    BY <1>1, <1>2, KeptOfOwn
<1>5. e \notin U
  OBVIOUS
<1>6. /\ \A j \in 1 .. Len(a) : a[j] \in Resting /\ a[j].id # e.id
      /\ \A j \in 1 .. Len(b) : b[j] \in Resting /\ b[j].id # e.id
  <2>1. e.id \notin IdsIn(a) /\ e.id \notin IdsIn(b)
    BY IdsAmid
  <2>2. QED
    BY <2>1, ElementOfSeq DEF IdsIn
<1>7. /\ \A j \in 1 .. Len(a) : a[j] \in U
      /\ \A j \in 1 .. Len(b) : b[j] \in U
  BY <1>6
<1> HIDE DEF U, T
<1>8. Kept(a, U) = a /\ Kept(b, U) = b
  BY <1>7, KeptAll
<1>9. Kept(s, U) = a \o b
  <2>1. Kept(s, U) = IF e \in U THEN Amid(Kept(a, U), e, Kept(b, U)) ELSE Kept(a, U) \o Kept(b, U)
    BY KeptAmid
  <2>2. QED
    BY <1>5, <1>8, <2>1
<1>10. QED
  BY <1>3, <1>4, <1>9

LEMMA WithoutAbsent ==
  ASSUME NEW s \in Seq(Resting), NEW id, id \notin IdsIn(s)
  PROVE  Without(s, id) = s
<1> DEFINE T == {x \in ToSet(s) : x.id # id}
<1>1. \A j \in 1 .. Len(s) : s[j] \in T
  BY LenProperties DEF IdsIn, ToSet
<1>2. Without(s, id) = Kept(s, T)
  BY DEF Without
<1> HIDE DEF T
<1>3. QED
  BY <1>1, <1>2, KeptAll

LEMMA ResizedAmid ==
  ASSUME NEW a \in Seq(Resting), NEW b \in Seq(Resting), NEW e \in Resting,
         e.id \notin IdsIn(a), NEW m \in Nat \ {0}
  PROVE  Resized(Amid(a, e, b), e.id, m) = Amid(a, Entry(e.id, m), b)
<1> DEFINE s == Amid(a, e, b)
           i == Len(a) + 1
           x == Entry(e.id, m)
           r == Resized(s, e.id, m)
           t == [s EXCEPT ![i] = x]
<1>1. s \in Seq(Resting)
  BY AmidType
<1>2. i \in 1 .. Len(s) /\ s[i] = e /\ \A j \in 1 .. i - 1 : j \in 1 .. Len(a) /\ s[j] = a[j]
  BY PlacesAmid
<1>3. x \in Resting
  <2>1. e.id \in Nat
    BY DEF Resting
  <2>2. QED
    BY <2>1, EntryOf
<1> HIDE DEF x
<1>4. t = Amid(a, x, b)
  BY <1>3, ChangeAmid
<1>5. \A j \in 1 .. i - 1 : s[j].id # e.id
  BY <1>2 DEF IdsIn
<1>6. Len(s) \in Nat /\ DOMAIN s = 1 .. Len(s) /\ i \in Nat
  BY <1>1, <1>2, LenProperties
<1> HIDE DEF s, i
<1>7. r = [j \in 1 .. Len(s) |->
             IF s[j].id = e.id /\ \A h \in 1 .. j - 1 : s[h].id # e.id THEN x ELSE s[j]]
  BY <1>6 DEF Resized, x
<1>8. t = [j \in 1 .. Len(s) |-> IF j = i THEN x ELSE s[j]]
  BY <1>2, <1>6
<1>9. ASSUME NEW j \in 1 .. Len(s)
      PROVE  (s[j].id = e.id /\ \A h \in 1 .. j - 1 : s[h].id # e.id) <=> j = i
  <2>1. CASE j = i
    BY <1>2, <1>5, <2>1
  <2>2. CASE j < i
    <3>1. j \in 1 .. i - 1
      BY <1>6, <2>2
    <3>2. QED
      BY <1>5, <2>2, <3>1
  <2>3. CASE i < j
    <3>1. i \in 1 .. j - 1
      BY <1>2, <1>6, <2>3
    <3>2. QED
      BY <1>2, <2>3, <3>1
  <2>4. QED
    BY <1>6, <2>1, <2>2, <2>3
<1>10. r = t
  <2>1. \A j \in 1 .. Len(s) :
          (IF s[j].id = e.id /\ \A h \in 1 .. j - 1 : s[h].id # e.id THEN x ELSE s[j])
            = IF j = i THEN x ELSE s[j]
    BY <1>9
  <2> HIDE DEF r, t
  <2>2. QED
    BY <1>7, <1>8, <2>1
<1>11. QED
  BY <1>4, <1>10 DEF s, x

LEMMA ResizedAbsent ==
  ASSUME NEW s \in Seq(Resting), NEW id, id \notin IdsIn(s), NEW m
  PROVE  Resized(s, id, m) = s
<1>1. DOMAIN s = 1 .. Len(s) /\ s = [j \in 1 .. Len(s) |-> s[j]]
  BY LenProperties
<1>2. \A j \in 1 .. Len(s) : s[j].id # id
  BY DEF IdsIn
<1> DEFINE r == Resized(s, id, m)
<1>3. r = [j \in 1 .. Len(s) |->
             IF s[j].id = id /\ \A h \in 1 .. j - 1 : s[h].id # id THEN Entry(id, m) ELSE s[j]]
  BY <1>1 DEF Resized
<1> HIDE DEF r
<1>4. r = [j \in 1 .. Len(s) |-> s[j]]
  BY <1>2, <1>3
<1>5. QED
  BY <1>1, <1>4 DEF r

\* What is left of the order e in its line: nothing, or its new quantity.
AmidAfter(a, e, b, m) == IF m = 0 THEN a \o b ELSE Amid(a, Entry(e.id, m), b)

\* The quantity that a change or a deletion leaves.
QtyAfter(u) == IF u.action = "DELETE" THEN 0 ELSE u.qty

LEMMA LevelAfterAmid ==
  ASSUME NEW a \in Seq(Resting), NEW b \in Seq(Resting), NEW e \in Resting,
         Unique(Amid(a, e, b)),
         NEW u \in L3Messages, u.action # "ADD", u.id = e.id
  PROVE  LevelAfter(Amid(a, e, b), u) = AmidAfter(a, e, b, QtyAfter(u))
<1> DEFINE s == Amid(a, e, b)
<1>1. e.id \notin IdsIn(a)
  BY IdsAmid
<1>2. u.action \in {"MODIFY", "DELETE"} /\ u.qty \in Nat
  BY DEF L3Messages, L3Action
<1>3. Without(s, e.id) = a \o b
  BY WithoutAmid
<1>4. u.qty # 0 => Resized(s, e.id, u.qty) = Amid(a, Entry(e.id, u.qty), b)
  BY <1>1, <1>2, ResizedAmid
<1> HIDE DEF s
<1>5. QED
  BY <1>2, <1>3, <1>4 DEF LevelAfter, AmidAfter, QtyAfter, s

LEMMA LevelAfterAbsent ==
  ASSUME NEW s \in Seq(Resting), NEW u \in L3Messages, u.action # "ADD", u.id \notin IdsIn(s)
  PROVE  LevelAfter(s, u) = s
<1>1. u.action \in {"MODIFY", "DELETE"}
  BY DEF L3Messages, L3Action
<1>2. Without(s, u.id) = s /\ Resized(s, u.id, u.qty) = s
  BY WithoutAbsent, ResizedAbsent
<1>3. QED
  BY <1>1, <1>2 DEF LevelAfter

-----------------------------------------------------------------------------
(***************************************************************************)
(* What the feed shows of a trade                                          *)
(***************************************************************************)
Follows == INSTANCE FoldTheory WITH Op <- AfterMessage

Seen(book, messages) == FoldLeft(AfterMessage, book, messages)

LEMMA SeenIsFold ==
  ASSUME NEW book, NEW messages
  PROVE  Seen(book, messages) = Follows!Fold(book, messages)
  BY DEF Seen, Follows!Fold, FoldLeft,
         Follows!MapThenFoldSet, MapThenFoldSet, Follows!Latest, Max

LEMMA SeenNone == \A book : Seen(book, <<>>) = book
  BY SeenIsFold, Follows!FoldOfEmpty

LEMMA SeenAppend ==
  ASSUME NEW book, NEW E, NEW s \in Seq(E), NEW m \in E
  PROVE  Seen(book, Append(s, m)) = AfterMessage(Seen(book, s), m)
  BY SeenIsFold, Follows!FoldOfAppend

LEMMA SeenOne ==
  ASSUME NEW book, NEW m
  PROVE  Seen(book, <<m>>) = AfterMessage(book, m)
<1>1. <<>> \in Seq({m}) /\ m \in {m} /\ Append(<<>>, m) = <<m>>
  BY EmptySeq
<1>2. Seen(book, Append(<<>>, m)) = AfterMessage(Seen(book, <<>>), m)
  BY ZenonT(60), <1>1, SeenAppend
<1>3. QED
  BY <1>1, <1>2, SeenNone

LEMMA SeenConcat ==
  ASSUME NEW book, NEW E, NEW s \in Seq(E), NEW t \in Seq(E)
  PROVE  Seen(book, s \o t) = Seen(Seen(book, s), t)
  BY SeenIsFold, Follows!FoldOfConcat

LEMMA HeadAndTail ==
  ASSUME NEW E, NEW s \in Seq(E), s # <<>>
  PROVE  /\ Head(s) \in E /\ Tail(s) \in Seq(E) /\ <<Head(s)>> \in Seq(E)
         /\ s = <<Head(s)>> \o Tail(s)
  BY HeadTailProperties

LEMMA SeenHead ==
  ASSUME NEW book, NEW E, NEW s \in Seq(E), s # <<>>
  PROVE  Seen(book, s) = Seen(AfterMessage(book, Head(s)), Tail(s))
<1> DEFINE h == <<Head(s)>>
           t == Tail(s)
<1>1. h \in Seq(E) /\ t \in Seq(E) /\ s = h \o t
  BY HeadAndTail
<1>2. Seen(book, h) = AfterMessage(book, Head(s))
  BY SeenOne
<1> HIDE DEF h, t
<1>3. Seen(book, h \o t) = Seen(Seen(book, h), t)
  BY <1>1, SeenConcat
<1>4. QED
  BY <1>1, <1>2, <1>3 DEF t

\* A book with another line at a price.
WithLine(book, key, line) == [book EXCEPT ![key[1]][key[2]] = line]

LEMMA WithLineTwice ==
  ASSUME NEW book \in L3Book, NEW key \in Keys, NEW l \in Seq(Resting), NEW m \in Seq(Resting)
  PROVE  WithLine(WithLine(book, key, l), key, m) = WithLine(book, key, m)
<1>1. key[1] \in BookSide /\ key[2] \in Prices
  BY LineType
<1>2. QED
  BY <1>1 DEF WithLine, L3Book

LEMMA WithOwnLine ==
  ASSUME NEW book \in L3Book, NEW key \in Keys
  PROVE  WithLine(book, key, book[key[1]][key[2]]) = book
<1>1. key[1] \in BookSide /\ key[2] \in Prices
  BY LineType
<1>2. QED
  BY <1>1 DEF WithLine, L3Book

LEMMA AfterUpdateOf ==
  ASSUME NEW book \in L3Book, NEW key \in Keys, NEW l \in Seq(Resting),
         NEW u \in L3Messages, u.side = key[1], u.price = key[2]
  PROVE  AfterMessage(WithLine(book, key, l), u) = WithLine(book, key, LevelAfter(l, u))
<1> DEFINE y == WithLine(book, key, l)
           m == LevelAfter(l, u)
<1>1. key[1] \in BookSide /\ key[2] \in Prices /\ u.kind = "L3Update"
  BY LineType, KindsOfMessages
<1>2. y \in L3Book /\ y[key[1]][key[2]] = l
  BY <1>1, SetLine DEF WithLine
<1>3. AfterMessage(y, u) = WithLine(y, key, LevelAfter(y[key[1]][key[2]], u))
  BY <1>1 DEF AfterMessage, ApplyL3, WithLine
<1>4. m \in Seq(Resting)
  BY LevelAfterType
<1>5. AfterMessage(y, u) = WithLine(y, key, m)
  BY <1>2, <1>3
<1> HIDE DEF m
<1>6. WithLine(y, key, m) = WithLine(book, key, m)
  BY <1>4, WithLineTwice
<1>7. QED
  BY <1>5, <1>6 DEF m

-----------------------------------------------------------------------------
LEMMA ServeRunOfEmpty == \A qty : ServeRun(<<>>, qty) = Asking(qty)
  BY ServeRunIsFold, Serves!FoldOfEmpty

LEMMA ServeRunOfAppend ==
  ASSUME NEW E, NEW s \in Seq(E), NEW e \in E, NEW qty
  PROVE  ServeRun(Append(s, e), qty) = Serve(ServeRun(s, qty), e)
<1> DEFINE start == Asking(qty)
           t == Append(s, e)
<1>1. ServeRun(t, qty) = Serves!Fold(start, t) /\ ServeRun(s, qty) = Serves!Fold(start, s)
  BY ServeRunIsFold
<1> HIDE DEF start, t
<1>2. Serves!Fold(start, t) = Serve(Serves!Fold(start, s), e)
  BY Serves!FoldOfAppend DEF t
<1>3. QED
  BY <1>1, <1>2 DEF t

\* The order x that the feed shows of an order e that was served.
ServedAs(r, n, e, x) ==
  /\ x \in AnyEntry /\ x.id = e.id
  /\ n.served = Append(r.served, x)
  /\ n.line = IF x.qty = 0 THEN r.line ELSE Append(r.line, x)

LEMMA ServeIs ==
  ASSUME NEW r \in Serving, NEW e \in Resting
  PROVE  \/ Serve(r, e).served = r.served /\ Serve(r, e).line = Append(r.line, e)
         \/ \E x : ServedAs(r, Serve(r, e), e, x)
<1> DEFINE q == r.asked
           l == r.line
           v == r.served
           n == Serve(r, e)
<1>1. /\ q \in Nat
      /\ r = [asked |-> q, line |-> l, served |-> v]
      /\ e.id \in Nat /\ e.qty \in Nat \ {0}
  BY DEF Serving, Resting
<1>0. r.line = l /\ r.served = v
  OBVIOUS
<1> HIDE DEF q, l, v
<1>2. CASE q = 0
  BY <1>0, <1>1, <1>2 DEF Serve
<1>3. CASE q # 0 /\ q < e.qty
  <2> DEFINE x == Entry(e.id, e.qty - q)
  <2>1. x \in AnyEntry /\ x.id = e.id /\ x.qty = e.qty - q /\ x.qty # 0
    BY <1>1, <1>3, EntryOf
  <2>2. n = [asked |-> 0, line |-> Append(l, x), served |-> Append(v, x)]
    BY <1>1, <1>3 DEF Serve
  <2> HIDE DEF x
  <2>3. ServedAs(r, n, e, x)
    BY <1>0, <2>1, <2>2 DEF ServedAs
  <2>4. QED
    BY <2>3
<1>4. CASE q # 0 /\ ~(q < e.qty)
  <2> DEFINE x == Entry(e.id, 0)
  <2>1. x \in AnyEntry /\ x.id = e.id /\ x.qty = 0
    BY <1>1, EntryOf
  <2>2. n = [asked |-> q - e.qty, line |-> l, served |-> Append(v, x)]
    BY <1>1, <1>4 DEF Serve
  <2> HIDE DEF x
  <2>3. ServedAs(r, n, e, x)
    BY <1>0, <2>1, <2>2 DEF ServedAs
  <2>4. QED
    BY <2>3
<1>5. QED
  BY <1>2, <1>3, <1>4

\* Of an order that is in both, both say the same.
SameOrders(s, t) == \A i \in 1 .. Len(s), j \in 1 .. Len(t) : s[i].id = t[j].id => s[i] = t[j]

\* The places of a line to which one was added.
LEMMA PlacesOfAppend ==
  ASSUME NEW E, NEW s \in Seq(E), NEW x \in E
  PROVE  /\ Append(s, x) = s \o <<x>> /\ Append(s, x) \in Seq(E) /\ Len(s) \in Nat
         /\ Len(Append(s, x)) = Len(s) + 1
         /\ \A j \in 1 .. Len(s) : j \in 1 .. Len(s) + 1 /\ Append(s, x)[j] = s[j]
         /\ Len(s) + 1 \in 1 .. Len(s) + 1 /\ Append(s, x)[Len(s) + 1] = x
         /\ \A j \in 1 .. Len(s) + 1 : j \in 1 .. Len(s) \/ j = Len(s) + 1
  BY AppendProperties, AppendIsConcat, LenProperties

LEMMA IdsOfAppend ==
  ASSUME NEW E, NEW s \in Seq(E), NEW x \in E
  PROVE  /\ IdsIn(Append(s, x)) = IdsIn(s) \cup {x.id}
         /\ Unique(Append(s, x)) <=> Unique(s) /\ x.id \notin IdsIn(s)
<1> DEFINE o == <<x>>
<1>1. o \in Seq(E) /\ IdsIn(o) = {x.id} /\ Unique(o)
  BY IdsOfOne
<1>2. Append(s, x) = s \o o
  BY PlacesOfAppend
<1> HIDE DEF o
<1>3. QED
  BY <1>1, <1>2, IdsOfConcat

LEMMA SameOrdersAppend ==
  ASSUME NEW s \in Seq(AnyEntry), NEW t \in Seq(AnyEntry), SameOrders(s, t),
         NEW x \in AnyEntry
  PROVE  /\ x.id \notin IdsIn(t) => SameOrders(Append(s, x), t)
         /\ x.id \notin IdsIn(s) => SameOrders(s, Append(t, x))
         /\ x.id \notin IdsIn(s) /\ x.id \notin IdsIn(t)
              => SameOrders(Append(s, x), Append(t, x))
<1>1. /\ \A j \in 1 .. Len(s) : s[j].id \in IdsIn(s)
      /\ \A j \in 1 .. Len(t) : t[j].id \in IdsIn(t)
      /\ \A i \in 1 .. Len(s), j \in 1 .. Len(t) : s[i].id = t[j].id => s[i] = t[j]
  BY DEF IdsIn, SameOrders
<1> DEFINE v == Append(s, x)
           w == Append(t, x)
<1>2. /\ Len(v) = Len(s) + 1
      /\ \A j \in 1 .. Len(s) : v[j] = s[j]
      /\ v[Len(s) + 1] = x
      /\ \A j \in 1 .. Len(s) + 1 : j \in 1 .. Len(s) \/ j = Len(s) + 1
  BY PlacesOfAppend
<1>3. /\ Len(w) = Len(t) + 1
      /\ \A j \in 1 .. Len(t) : w[j] = t[j]
      /\ w[Len(t) + 1] = x
      /\ \A j \in 1 .. Len(t) + 1 : j \in 1 .. Len(t) \/ j = Len(t) + 1
  BY PlacesOfAppend
<1> HIDE DEF v, w
<1>4. ASSUME x.id \notin IdsIn(t) PROVE SameOrders(v, t)
  <2>1. \A i \in 1 .. Len(s) + 1, j \in 1 .. Len(t) : v[i].id = t[j].id => v[i] = t[j]
    BY SMTT(60), <1>1, <1>2, <1>4
  <2>2. QED
    BY <1>2, <2>1 DEF SameOrders
<1>5. ASSUME x.id \notin IdsIn(s) PROVE SameOrders(s, w)
  <2>1. \A i \in 1 .. Len(s), j \in 1 .. Len(t) + 1 : s[i].id = w[j].id => s[i] = w[j]
    BY <1>1, <1>3, <1>5
  <2>2. QED
    BY <1>3, <2>1 DEF SameOrders
<1>6. ASSUME x.id \notin IdsIn(s), x.id \notin IdsIn(t) PROVE SameOrders(v, w)
  <2>1. \A i \in 1 .. Len(s) + 1, j \in 1 .. Len(t) + 1 : v[i].id = w[j].id => v[i] = w[j]
    BY SMTT(60), <1>1, <1>2, <1>3, <1>6
  <2>2. QED
    BY <1>2, <1>3, <2>1 DEF SameOrders
<1>7. QED
  BY <1>4, <1>5, <1>6 DEF v, w

\* What serving a line t leaves of it.
LeavesOf(r, t) ==
  /\ r \in Serving
  /\ IdsIn(r.line) \subseteq IdsIn(t) /\ IdsIn(r.served) \subseteq IdsIn(t)
  /\ Unique(t) => Unique(r.line) /\ SameOrders(r.served, r.line)

LEMMA LeavesOfStart ==
  ASSUME NEW qty \in Nat
  PROVE  LeavesOf(Asking(qty), <<>>)
<1> DEFINE r == Asking(qty)
<1>1. r.line = <<>> /\ r.served = <<>> /\ r \in Serving
  <2>1. <<>> \in Seq(Resting) /\ <<>> \in Seq(AnyEntry)
    BY EmptySeq
  <2>2. QED
    BY <2>1, ServingOf DEF Asking
<1> HIDE DEF r
<1>2. SameOrders(r.served, r.line)
  BY <1>1, EmptySeq DEF SameOrders
<1>3. QED
  BY <1>1, <1>2, IdsOfNone DEF LeavesOf, r

LEMMA LeavesOfAppend ==
  ASSUME NEW r, NEW t \in Seq(Resting), LeavesOf(r, t), NEW e \in Resting
  PROVE  LeavesOf(Serve(r, e), Append(t, e))
<1> DEFINE n == Serve(r, e)
           u == Append(t, e)
<1>1. r \in Serving /\ n \in Serving
  BY ServeTyped DEF LeavesOf
<1>2. IdsIn(u) = IdsIn(t) \cup {e.id} /\ (Unique(u) => Unique(t) /\ e.id \notin IdsIn(t))
  BY IdsOfAppend
<1>3. /\ r.line \in Seq(Resting) /\ r.served \in Seq(AnyEntry) /\ r.line \in Seq(AnyEntry)
      /\ e \in AnyEntry
  BY <1>1, RestingIsEntry DEF Serving
<1>4. /\ IdsIn(r.line) \subseteq IdsIn(t) /\ IdsIn(r.served) \subseteq IdsIn(t)
      /\ Unique(t) => Unique(r.line) /\ SameOrders(r.served, r.line)
  BY DEF LeavesOf
<1> HIDE DEF n, u
<1>5. CASE n.served = r.served /\ n.line = Append(r.line, e)
  <2>1. IdsIn(n.line) = IdsIn(r.line) \cup {e.id}
    BY <1>3, <1>5, IdsOfAppend
  <2>2. ASSUME Unique(u) PROVE Unique(n.line) /\ SameOrders(n.served, n.line)
    <3>1. e.id \notin IdsIn(r.line) /\ e.id \notin IdsIn(r.served)
      BY <1>2, <1>4, <2>2
    <3>2. Unique(n.line)
      BY <1>2, <1>3, <1>4, <1>5, <2>2, <3>1, IdsOfAppend
    <3>3. SameOrders(n.served, n.line)
      BY <1>2, <1>3, <1>4, <1>5, <2>2, <3>1, SameOrdersAppend
    <3>4. QED
      BY <3>2, <3>3
  <2>3. QED
    BY <1>1, <1>2, <1>4, <1>5, <2>1, <2>2 DEF LeavesOf, n, u
<1>6. ASSUME NEW x, ServedAs(r, n, e, x) PROVE LeavesOf(n, u)
  <2>1. /\ x \in AnyEntry /\ x.id = e.id /\ n.served = Append(r.served, x)
        /\ n.line = IF x.qty = 0 THEN r.line ELSE Append(r.line, x)
    BY <1>6 DEF ServedAs
  <2>2. IdsIn(n.served) = IdsIn(r.served) \cup {e.id}
    BY <1>3, <2>1, IdsOfAppend
  <2>3. IdsIn(n.line) \subseteq IdsIn(r.line) \cup {e.id}
    BY <1>3, <2>1, IdsOfAppend
  <2>4. ASSUME Unique(u) PROVE Unique(n.line) /\ SameOrders(n.served, n.line)
    <3>1. x.id \notin IdsIn(r.line) /\ x.id \notin IdsIn(r.served)
      BY <1>2, <1>4, <2>1, <2>4
    <3>2. Unique(r.line) /\ SameOrders(r.served, r.line)
      BY <1>2, <1>4, <2>4
    <3>3. Unique(n.line)
      BY <1>3, <2>1, <3>1, <3>2, IdsOfAppend
    <3>4. SameOrders(n.served, n.line)
      BY <1>3, <2>1, <3>1, <3>2, SameOrdersAppend
    <3>5. QED
      BY <3>3, <3>4
  <2>5. QED
    BY <1>1, <1>2, <1>4, <2>2, <2>3, <2>4 DEF LeavesOf
<1>7. QED
  BY <1>1, <1>5, <1>6, ServeIs DEF n, u

LEMMA ServeRunLeaves ==
  ASSUME NEW s \in Seq(Resting), NEW qty \in Nat
  PROVE  LeavesOf(ServeRun(s, qty), s)
<1> DEFINE Good == {t \in Seq(Resting) : LeavesOf(ServeRun(t, qty), t)}
<1>1. <<>> \in Good
  BY ServeRunOfEmpty, LeavesOfStart, EmptySeq
<1>2. ASSUME NEW t \in Seq(Resting), NEW e \in Resting, t \in Good PROVE Append(t, e) \in Good
  BY <1>2, ServeRunOfAppend, LeavesOfAppend, AppendProperties
<1> HIDE DEF Good
<1>3. s \in Good
  BY <1>1, <1>2, Serves!SeqSetInduction
<1>4. QED
  BY <1>3 DEF Good

LEMMA ShowIs ==
  ASSUME NEW key \in Keys, NEW x \in AnyEntry
  PROVE  LET u == Show(key, x)
         IN  /\ u \in L3Messages /\ u.action # "ADD" /\ u.kind = "L3Update"
             /\ u.side = key[1] /\ u.price = key[2] /\ u.id = x.id /\ QtyAfter(u) = x.qty
             /\ u.qty = x.qty /\ (x.qty # 0 => u.action = "MODIFY")
<1>1. x.id \in Nat /\ x.qty \in Nat
  BY DEF AnyEntry
<1>2. CASE x.qty = 0
  <2> DEFINE none == 0
             u == Update(key, "DELETE", x.id, none)
  <2> HIDE DEF none
  <2>1. /\ u \in L3Messages /\ u.action = "DELETE" /\ u.side = key[1] /\ u.price = key[2]
        /\ u.id = x.id /\ u.qty = none /\ u.kind = "L3Update"
    BY <1>1, UpdateOf DEF L3Action, none
  <2>2. Show(key, x) = u
    BY <1>2 DEF Show, none
  <2>3. QED
    BY <1>2, <2>1, <2>2 DEF QtyAfter, none
<1>3. CASE x.qty # 0
  <2> DEFINE u == Update(key, "MODIFY", x.id, x.qty)
  <2>1. /\ u \in L3Messages /\ u.action = "MODIFY" /\ u.side = key[1] /\ u.price = key[2]
        /\ u.id = x.id /\ u.qty = x.qty /\ u.kind = "L3Update"
    BY <1>1, UpdateOf DEF L3Action
  <2>2. Show(key, x) = u
    BY <1>3 DEF Show
  <2>3. QED
    BY <1>3, <2>1, <2>2 DEF QtyAfter
<1>4. QED
  BY <1>2, <1>3

LEMMA ShownAppend ==
  ASSUME NEW key \in Keys, NEW s \in Seq(AnyEntry), NEW x \in AnyEntry
  PROVE  Shown(key, Append(s, x)) = Append(Shown(key, s), Show(key, x))
<1> DEFINE t == Append(s, x)
           l == Shown(key, t)
           v == Shown(key, s)
           u == Show(key, x)
           r == Append(v, u)
<1>1. /\ t \in Seq(AnyEntry) /\ Len(t) = Len(s) + 1 /\ Len(s) \in Nat
      /\ \A j \in 1 .. Len(s) : j \in 1 .. Len(s) + 1 /\ t[j] = s[j]
      /\ Len(s) + 1 \in 1 .. Len(s) + 1 /\ t[Len(s) + 1] = x
      /\ \A j \in 1 .. Len(s) + 1 : j \in 1 .. Len(s) \/ j = Len(s) + 1
  BY PlacesOfAppend
<1>2. /\ v \in Seq(L3Messages) /\ Len(v) = Len(s) /\ u \in L3Messages
      /\ \A i \in 1 .. Len(s) : v[i] = Show(key, s[i])
  BY ShownType, ShowType
<1> HIDE DEF t
<1>3. /\ l \in Seq(L3Messages) /\ Len(l) = Len(t)
      /\ \A i \in 1 .. Len(t) : l[i] = Show(key, t[i])
  BY <1>1, ShownType
<1> HIDE DEF l, v, u
<1>4. /\ r \in Seq(L3Messages) /\ Len(r) = Len(v) + 1
      /\ \A j \in 1 .. Len(v) : r[j] = v[j]
      /\ r[Len(v) + 1] = u
  BY <1>2, PlacesOfAppend
<1> HIDE DEF r
<1>5. ASSUME NEW j \in 1 .. Len(s) + 1 PROVE l[j] = r[j]
  <2>1. CASE j \in 1 .. Len(s)
    BY <1>1, <1>2, <1>3, <1>4, <2>1
  <2>2. CASE j = Len(s) + 1
    BY <1>1, <1>2, <1>3, <1>4, <2>2 DEF u
  <2>3. QED
    BY <1>1, <2>1, <2>2
<1>6. l = r
  BY <1>1, <1>2, <1>3, <1>4, <1>5, SeqEqual
<1>7. QED
  BY <1>6 DEF l, t, v, u, r

LEMMA ShownNone == \A key : Shown(key, <<>>) = <<>>
  BY DEF Shown

\* The line around an order, seen from its front and from its end.
LEMMA AmidIs ==
  ASSUME NEW E, NEW a \in Seq(E), NEW b \in Seq(E), NEW e \in E
  PROVE  /\ Append(a, e) \o b = Amid(a, e, b)
         /\ a \o (<<e>> \o b) = Amid(a, e, b)
         /\ <<e>> \o b \in Seq(E)
<1>1. <<e>> \in Seq(E) /\ Append(a, e) = a \o <<e>>
  BY AmidType, AppendIsConcat
<1> DEFINE o == <<e>>
<1> HIDE DEF o
<1>2. a \o (o \o b) = (a \o o) \o b /\ o \o b \in Seq(E)
  BY SMTT(60), <1>1, ConcatAssociative, ConcatProperties DEF o
<1>3. QED
  BY <1>1, <1>2 DEF o, Amid

\* One order more is served: its update does the same to the book.
LEMMA ShownOfServe ==
  ASSUME NEW book \in L3Book, NEW key \in Keys, NEW r \in Serving,
         NEW t \in Seq(Resting), LeavesOf(r, t), NEW e \in Resting, NEW rest \in Seq(Resting),
         Unique(Append(t, e) \o rest),
         Seen(WithLine(book, key, t \o (<<e>> \o rest)), Shown(key, r.served))
           = WithLine(book, key, r.line \o (<<e>> \o rest))
  PROVE  LET n == Serve(r, e)
         IN  Seen(WithLine(book, key, Append(t, e) \o rest), Shown(key, n.served))
               = WithLine(book, key, n.line \o rest)
<1> DEFINE n == Serve(r, e)
           l == r.line
           v == r.served
           start == WithLine(book, key, Amid(t, e, rest))
           whole == Amid(l, e, rest)
<1>1. /\ l \in Seq(Resting) /\ v \in Seq(AnyEntry)
      /\ IdsIn(l) \subseteq IdsIn(t) /\ (Unique(t) => Unique(l))
  BY DEF Serving, LeavesOf
<1>2. /\ Append(t, e) \o rest = Amid(t, e, rest)
      /\ t \o (<<e>> \o rest) = Amid(t, e, rest)
  BY ZenonT(60), AmidIs
<1>3. l \o (<<e>> \o rest) = whole /\ Append(l, e) \o rest = whole /\ whole \in Seq(Resting)
  BY ZenonT(60), <1>1, AmidIs, AmidType
<1>4. Unique(whole)
  <2>1. /\ Unique(t \o rest) /\ e.id \notin IdsIn(t \o rest)
    BY <1>2, IdsAmid
  <2>2. /\ Unique(t) /\ Unique(rest) /\ IdsIn(t) \cap IdsIn(rest) = {}
        /\ IdsIn(t \o rest) = IdsIn(t) \cup IdsIn(rest)
    BY <2>1, IdsOfConcat
  <2>3. /\ IdsIn(l \o rest) = IdsIn(l) \cup IdsIn(rest)
        /\ Unique(l \o rest) <=> Unique(l) /\ Unique(rest) /\ IdsIn(l) \cap IdsIn(rest) = {}
    BY <1>1, IdsOfConcat
  <2>4. Unique(l \o rest) /\ e.id \notin IdsIn(l \o rest)
    BY <1>1, <2>1, <2>2, <2>3
  <2>5. Unique(Amid(l, e, rest)) <=> Unique(l \o rest) /\ e.id \notin IdsIn(l \o rest)
    BY <1>1, IdsAmid
  <2>6. QED
    BY <2>4, <2>5
<1>5. Seen(start, Shown(key, v)) = WithLine(book, key, whole)
  BY <1>2, <1>3
<1> HIDE DEF n, start
<1>6. CASE n.served = v /\ n.line = Append(l, e)
  BY <1>2, <1>3, <1>5, <1>6 DEF start, n
<1>7. ASSUME NEW x, ServedAs(r, n, e, x)
      PROVE  Seen(start, Shown(key, n.served)) = WithLine(book, key, n.line \o rest)
  <2> DEFINE u == Show(key, x)
  <2>1. /\ x \in AnyEntry /\ x.id = e.id /\ n.served = Append(v, x)
        /\ n.line = IF x.qty = 0 THEN l ELSE Append(l, x)
    BY <1>7 DEF ServedAs
  <2>2. /\ u \in L3Messages /\ u.action # "ADD" /\ u.side = key[1] /\ u.price = key[2]
        /\ u.id = e.id /\ QtyAfter(u) = x.qty
    BY <2>1, ShowIs
  <2>3. Shown(key, n.served) = Append(Shown(key, v), u)
    BY <1>1, <2>1, ShownAppend
  <2>4. Shown(key, v) \in Seq(L3Messages)
    BY <1>1, ShownType
  <2> DEFINE msgs == Shown(key, v)
  <2> HIDE DEF u, l, v, whole, msgs
  <2>5. Seen(start, Append(msgs, u)) = AfterMessage(Seen(start, msgs), u)
    BY <2>2, <2>4, SeenAppend DEF msgs
  <2>6. AfterMessage(WithLine(book, key, whole), u) = WithLine(book, key, LevelAfter(whole, u))
    BY <1>3, <2>2, AfterUpdateOf
  <2>7. LevelAfter(whole, u) = AmidAfter(l, e, rest, x.qty)
    BY <1>1, <1>4, <2>2, LevelAfterAmid DEF whole
  <2>8. AmidAfter(l, e, rest, x.qty) = n.line \o rest
    <3>1. CASE x.qty = 0
      BY <2>1, <3>1 DEF AmidAfter
    <3>2. CASE x.qty # 0
      <4>1. x = Entry(e.id, x.qty)
        BY <2>1 DEF AnyEntry, Entry
      <4>2. x \in Resting
        BY <2>1, <3>2 DEF AnyEntry, Resting
      <4>3. Append(l, x) \o rest = Amid(l, x, rest)
        BY ZenonT(60), <1>1, <4>2, AmidIs
      <4>4. AmidAfter(l, e, rest, x.qty) = Amid(l, x, rest)
        BY <3>2, <4>1, Zenon DEF AmidAfter
      <4>5. QED
        BY <2>1, <3>2, <4>3, <4>4
    <3>3. QED
      BY <3>1, <3>2
  <2>9. QED
    BY <1>5, <2>3, <2>5, <2>6, <2>7, <2>8 DEF msgs
<1>8. (n.served = v /\ n.line = Append(l, e)) \/ \E x : ServedAs(r, n, e, x)
  BY ServeIs DEF n
<1>9. Seen(start, Shown(key, n.served)) = WithLine(book, key, n.line \o rest)
  <2>1. CASE n.served = v /\ n.line = Append(l, e)
    BY <1>3, <1>5, <2>1
  <2>2. QED
    BY <1>7, <1>8, <2>1
<1>10. QED
  BY <1>2, <1>9 DEF n, start

\* A book that follows what the feed shows of a trade is served like the venue.
LEMMA TradeIsShown ==
  ASSUME NEW book \in L3Book, NEW key \in Keys, NEW qty \in Nat,
         Unique(book[key[1]][key[2]])
  PROVE  LET done == Served(book[key[1]][key[2]], qty)
         IN  /\ Seen(book, Shown(key, done.served)) = WithLine(book, key, done.line)
             /\ LeavesOf(done, book[key[1]][key[2]])
<1> DEFINE s == book[key[1]][key[2]]
           Good == {t \in Seq(Resting) :
                      \A rest \in Seq(Resting) : Unique(t \o rest) =>
                        Seen(WithLine(book, key, t \o rest), Shown(key, ServeRun(t, qty).served))
                          = WithLine(book, key, ServeRun(t, qty).line \o rest)}
<1>0. s \in Seq(Resting)
  BY LineType
<1>1. <<>> \in Good
  <2> DEFINE r == ServeRun(<<>>, qty)
  <2>1. r.served = <<>> /\ r.line = <<>>
    BY ServeRunOfEmpty DEF Asking
  <2> HIDE DEF r
  <2>2. ASSUME NEW rest \in Seq(Resting)
        PROVE  Seen(WithLine(book, key, <<>> \o rest), Shown(key, r.served))
                 = WithLine(book, key, r.line \o rest)
    <3> DEFINE y == WithLine(book, key, <<>> \o rest)
    <3>1. Shown(key, r.served) = <<>>
      BY <2>1, ShownNone
    <3>2. WithLine(book, key, r.line \o rest) = y
      BY <2>1
    <3> HIDE DEF y
    <3>3. Seen(y, <<>>) = y
      BY SeenNone
    <3>4. QED
      BY <3>1, <3>2, <3>3 DEF y
  <2>3. QED
    BY <2>2, EmptySeq DEF r
<1>2. ASSUME NEW t \in Seq(Resting), NEW e \in Resting, t \in Good PROVE Append(t, e) \in Good
  <2> DEFINE r == ServeRun(t, qty)
             n == ServeRun(Append(t, e), qty)
  <2>1. Append(t, e) \in Seq(Resting) /\ LeavesOf(r, t)
    BY AppendProperties, ServeRunLeaves
  <2>2. r \in Serving
    BY <2>1 DEF LeavesOf
  <2>3. n = Serve(r, e)
    BY ServeRunOfAppend
  <2>4. ASSUME NEW rest \in Seq(Resting), Unique(Append(t, e) \o rest)
        PROVE  Seen(WithLine(book, key, Append(t, e) \o rest), Shown(key, n.served))
                 = WithLine(book, key, n.line \o rest)
    <3> DEFINE more == <<e>> \o rest
    <3>1. Append(t, e) \o rest = t \o more /\ more \in Seq(Resting)
      BY SMTT(60), AmidIs
    <3> HIDE DEF more
    <3>2. Seen(WithLine(book, key, t \o more), Shown(key, r.served))
            = WithLine(book, key, r.line \o more)
      BY <1>2, <2>4, <3>1
    <3> HIDE DEF r, n
    <3>3. QED
      BY <2>1, <2>2, <2>3, <2>4, <3>2, ShownOfServe DEF more
  <2>5. QED
    BY <2>1, <2>4
<1> HIDE DEF Good
<1>3. s \in Good
  BY <1>0, <1>1, <1>2, Serves!SeqSetInduction
<1> DEFINE r == ServeRun(s, qty)
<1>4. LeavesOf(r, s) /\ r = Served(s, qty)
  BY <1>0, ServeRunLeaves DEF ServeRun, Served, Asking
<1> HIDE DEF r, s
<1>5. r.line \in Seq(Resting)
  BY <1>4 DEF LeavesOf, Serving
<1>6. s \o <<>> = s /\ r.line \o <<>> = r.line /\ <<>> \in Seq(Resting)
  BY <1>0, <1>5, ConcatEmptySeq, EmptySeq
<1>7. Seen(WithLine(book, key, s), Shown(key, r.served)) = WithLine(book, key, r.line)
  <2>1. \A rest \in Seq(Resting) : Unique(s \o rest) =>
          Seen(WithLine(book, key, s \o rest), Shown(key, r.served))
            = WithLine(book, key, r.line \o rest)
    BY <1>3 DEF Good, r
  <2>2. Unique(s \o <<>>)
    BY <1>6 DEF s
  <2>3. Seen(WithLine(book, key, s \o <<>>), Shown(key, r.served))
            = WithLine(book, key, r.line \o <<>>)
    BY <1>6, <2>1, <2>2
  <2>4. QED
    BY <1>6, <2>3
<1>8. WithLine(book, key, s) = book
  BY WithOwnLine DEF s
<1>9. QED
  BY <1>4, <1>7, <1>8 DEF s
LEMMA LevelAfterUnique ==
  ASSUME NEW s \in Seq(Resting), Unique(s), NEW u \in L3Messages, u.action # "ADD"
  PROVE  Unique(LevelAfter(s, u)) /\ IdsIn(LevelAfter(s, u)) \subseteq IdsIn(s)
<1>1. CASE u.id \notin IdsIn(s)
  BY <1>1, LevelAfterAbsent
<1>2. CASE u.id \in IdsIn(s)
  <2>1. PICK a \in Seq(Resting), b \in Seq(Resting), e \in Resting :
          s = Amid(a, e, b) /\ e.id = u.id
    BY <1>2, IdIsAmid
  <2>2. /\ IdsIn(s) = IdsIn(a \o b) \cup {e.id}
        /\ Unique(a \o b) /\ e.id \notin IdsIn(a \o b)
    BY <2>1, IdsAmid
  <2>3. LevelAfter(s, u) = AmidAfter(a, e, b, QtyAfter(u))
    BY <2>1, LevelAfterAmid
  <2>4. e.id \in Nat /\ QtyAfter(u) \in Nat
    BY <2>1 DEF Resting, L3Messages, QtyAfter
  <2>5. CASE QtyAfter(u) = 0
    BY <2>2, <2>3, <2>5 DEF AmidAfter
  <2>6. CASE QtyAfter(u) # 0
    <3> DEFINE x == Entry(e.id, QtyAfter(u))
    <3>1. x \in Resting /\ x.id = e.id
      BY <2>4, <2>6, EntryOf
    <3> HIDE DEF x
    <3>2. /\ IdsIn(Amid(a, x, b)) = IdsIn(a \o b) \cup {x.id}
          /\ Unique(Amid(a, x, b)) <=> Unique(a \o b) /\ x.id \notin IdsIn(a \o b)
      BY <3>1, IdsAmid
    <3>3. LevelAfter(s, u) = Amid(a, x, b)
      BY <2>3, <2>6 DEF AmidAfter, x
    <3>4. QED
      BY <2>2, <3>1, <3>2, <3>3
  <2>7. QED
    BY <2>5, <2>6
<1>3. QED
  BY <1>1, <1>2

\* What a message does to a book.

-----------------------------------------------------------------------------
(***************************************************************************)
(* The list of the orders ahead follows the feed as the book does          *)
(***************************************************************************)
LEMMA PlaceAmid ==
  ASSUME NEW q, NEW a \in Seq(Resting), NEW b \in Seq(Resting), NEW e \in Resting,
         q.ahead = Amid(a, e, b), e.id \notin IdsIn(a)
  PROVE  PlaceOf(q, e.id) = Len(a) + 1
<1> DEFINE s == q.ahead
           i == PlaceOf(q, e.id)
           n == Len(a) + 1
<1>1. /\ n \in 1 .. Len(s) /\ s[n] = e
      /\ \A j \in 1 .. n - 1 : j \in 1 .. Len(a) /\ s[j] = a[j]
  BY PlacesAmid
<1>2. s \in Seq(Resting) /\ s \in Seq(AnyEntry) /\ Len(s) \in Nat
  BY AmidType, RestingIsEntry, LenProperties
<1>3. /\ i = 0 => \A j \in 1 .. Len(s) : s[j].id # e.id
      /\ i # 0 => /\ i \in 1 .. Len(s) /\ s[i].id = e.id
                  /\ \A j \in 1 .. i - 1 : s[j].id # e.id
  BY <1>2, PlaceOfIs
<1>4. \A j \in 1 .. n - 1 : s[j].id # e.id
  BY <1>1 DEF IdsIn
<1> HIDE DEF s, i, n
<1>5. i \in 1 .. Len(s) /\ s[i].id = e.id /\ \A j \in 1 .. i - 1 : s[j].id # e.id
  BY <1>1, <1>3
<1>6. i \in Nat /\ n \in Nat /\ 1 <= i /\ 1 <= n
  BY <1>1, <1>2, <1>5
<1>7. ~(i < n)
  <2>1. i < n => i \in 1 .. n - 1
    BY <1>6
  <2>2. QED
    BY <1>4, <1>5, <2>1
<1>8. ~(n < i)
  <2>1. n < i => n \in 1 .. i - 1
    BY <1>6
  <2>2. QED
    BY <1>1, <1>5, <2>1
<1>9. i = n
  BY <1>6, <1>7, <1>8
<1>10. QED
  BY <1>9 DEF i, n

LEMMA PlaceAbsent ==
  ASSUME NEW q, q.ahead \in Seq(AnyEntry), NEW id, id \notin IdsIn(q.ahead)
  PROVE  PlaceOf(q, id) = 0
<1> DEFINE i == PlaceOf(q, id)
<1>1. i # 0 => i \in 1 .. Len(q.ahead) /\ q.ahead[i].id = id
  BY PlaceOfIs
<1> HIDE DEF i
<1>2. i = 0
  BY <1>1 DEF IdsIn
<1>3. QED
  BY <1>2 DEF i

\* What rests of a line around an order that has nothing left.
LEMMA KeptResting ==
  ASSUME NEW s \in Seq(Resting)
  PROVE  Kept(s, Resting) = s
  BY KeptWhole

LEMMA StandingIsResting ==
  ASSUME NEW s \in Seq(AnyEntry)
  PROVE  Kept(s, {e \in ToSet(s) : e.qty > 0}) = Kept(s, Resting)
<1> DEFINE T == {e \in ToSet(s) : e.qty > 0}
<1>1. \A e \in ToSet(s) : e \in AnyEntry
  BY ElementOfSeq, LenProperties DEF ToSet
<1>2. \A e \in ToSet(s) : e \in T <=> e \in Resting
  <2>1. ASSUME NEW e \in AnyEntry PROVE e.qty > 0 <=> e \in Resting
    <3>1. e = [id |-> e.id, qty |-> e.qty] /\ e.id \in Nat /\ e.qty \in Nat
      BY DEF AnyEntry
    <3>2. e \in Resting => e.qty \in Nat \ {0}
      BY DEF Resting
    <3>3. e.qty \in Nat \ {0} => e \in Resting
      BY <3>1 DEF Resting
    <3>4. QED
      BY <3>1, <3>2, <3>3
  <2>2. QED
    BY <1>1, <2>1
<1> HIDE DEF T
<1>3. Kept(s, T) = Kept(s, Resting)
  BY <1>2, KeptOfOwn
<1>4. QED
  BY <1>3 DEF T

LEMMA NothingLeftAmid ==
  ASSUME NEW a \in Seq(Resting), NEW b \in Seq(Resting), NEW x \in AnyEntry, x.qty = 0
  PROVE  Kept(Amid(a, x, b), Resting) = a \o b
<1>1. x \notin Resting
  BY DEF Resting
<1>2. a \in Seq(AnyEntry) /\ b \in Seq(AnyEntry)
  BY RestingIsEntry
<1>3. Kept(Amid(a, x, b), Resting)
        = IF x \in Resting THEN Amid(Kept(a, Resting), x, Kept(b, Resting))
          ELSE Kept(a, Resting) \o Kept(b, Resting)
  BY <1>2, KeptAmid
<1>4. QED
  BY <1>1, <1>3, KeptResting

LEMMA ModifyAheadAmid ==
  ASSUME NEW q, NEW a \in Seq(Resting), NEW b \in Seq(Resting), NEW e \in Resting,
         q.ahead = Amid(a, e, b), e.id \notin IdsIn(a), NEW m \in Nat
  PROVE  ModifyAhead(q, e.id, m).ahead = AmidAfter(a, e, b, m)
<1> DEFINE i == PlaceOf(q, e.id)
           n == Len(a) + 1
           x == Entry(e.id, m)
           r == [q.ahead EXCEPT ![i] = x]
<1>1. i = n /\ i # 0
  <2>1. Len(a) + 1 # 0
    BY LenProperties
  <2>2. QED
    BY <2>1, PlaceAmid
<1>2. /\ e.id \in Nat /\ x \in AnyEntry /\ x.id = e.id /\ x.qty = m
      /\ m # 0 => x \in Resting
  <2>1. e.id \in Nat
    BY DEF Resting
  <2>2. QED
    BY <2>1, EntryOf
<1>3. a \in Seq(AnyEntry) /\ b \in Seq(AnyEntry) /\ e \in AnyEntry
  BY RestingIsEntry
<1> HIDE DEF x
<1>4. [Amid(a, e, b) EXCEPT ![n] = x] = Amid(a, x, b)
  BY <1>2, <1>3, ChangeAmid
<1>5. r = Amid(a, x, b) /\ r \in Seq(AnyEntry)
  <2>1. r = [Amid(a, e, b) EXCEPT ![n] = x]
    BY <1>1
  <2>2. Amid(a, x, b) \in Seq(AnyEntry)
    BY <1>2, <1>3, AmidType
  <2>3. QED
    BY <1>4, <2>1, <2>2
<1>6. ModifyAhead(q, e.id, m).ahead
        = IF m = 0 THEN Kept(r, {k \in ToSet(r) : k.qty > 0}) ELSE r
  BY <1>1 DEF ModifyAhead, x
<1> HIDE DEF r
<1>7. CASE m = 0
  BY <1>2, <1>5, <1>6, <1>7, StandingIsResting, NothingLeftAmid DEF AmidAfter
<1>8. CASE m # 0
  BY <1>5, <1>6, <1>8 DEF AmidAfter, x
<1>9. QED
  BY <1>7, <1>8

LEMMA RemoveAheadAmid ==
  ASSUME NEW q, NEW a \in Seq(Resting), NEW b \in Seq(Resting), NEW e \in Resting,
         q.ahead = Amid(a, e, b), e.id \notin IdsIn(a)
  PROVE  RemoveAhead(q, e.id).ahead = a \o b
<1> DEFINE i == PlaceOf(q, e.id)
           n == Len(a) + 1
<1>1. i = n /\ i # 0
  <2>1. Len(a) + 1 # 0
    BY LenProperties
  <2>2. QED
    BY <2>1, PlaceAmid
<1>2. RemoveAhead(q, e.id).ahead = RemoveAt(Amid(a, e, b), n)
  BY <1>1 DEF RemoveAhead
<1>3. QED
  BY <1>2, RemoveAmid

(***************************************************************************)
(* on_l3_update does to the list of the orders ahead what apply_l3 does to *)
(* the line of the book.                                                   *)
(***************************************************************************)
LEMMA AheadFollows ==
  ASSUME NEW o, o.queue.ahead \in Seq(Resting), Unique(o.queue.ahead),
         NEW u \in L3Messages, u.action # "ADD"
  PROVE  AfterL3Update(o, u).ahead
           = IF <<u.side, u.price>> = <<o.side, o.price>> THEN LevelAfter(o.queue.ahead, u)
             ELSE o.queue.ahead
<1> DEFINE q == o.queue
           s == o.queue.ahead
           m == QtyAfter(u)
<1>1. u.action \in {"MODIFY", "DELETE"} /\ u.qty \in Nat /\ ~(u.qty < 0)
  BY DEF L3Messages, L3Action
<1>2. CASE <<u.side, u.price>> # <<o.side, o.price>>
  BY <1>2 DEF AfterL3Update
<1>3. CASE <<u.side, u.price>> = <<o.side, o.price>>
  <2>1. AfterL3Update(o, u) = IF u.action = "DELETE" THEN RemoveAhead(q, u.id)
                              ELSE ModifyAhead(q, u.id, u.qty)
    BY <1>1, <1>3 DEF AfterL3Update
  <2> HIDE DEF q
  <2>2. s = q.ahead
    BY DEF q
  <2>3. CASE u.id \notin IdsIn(s)
    <3>1. PlaceOf(q, u.id) = 0
      BY <2>2, <2>3, PlaceAbsent, RestingIsEntry
    <3>2. AfterL3Update(o, u) = q
      BY <2>1, <3>1 DEF RemoveAhead, ModifyAhead
    <3>3. LevelAfter(s, u) = s
      BY <2>3, LevelAfterAbsent
    <3>4. QED
      BY <1>3, <2>2, <3>2, <3>3
  <2>4. CASE u.id \in IdsIn(s)
    <3>1. PICK a \in Seq(Resting), b \in Seq(Resting), e \in Resting :
            s = Amid(a, e, b) /\ e.id = u.id
      BY <2>4, IdIsAmid
    <3>2. e.id \notin IdsIn(a)
      BY <3>1, IdsAmid
    <3>3. LevelAfter(s, u) = AmidAfter(a, e, b, m)
      BY <3>1, LevelAfterAmid
    <3>4. q.ahead = Amid(a, e, b)
      BY <2>2, <3>1
    <3> HIDE DEF s
    <3>5. CASE u.action = "DELETE"
      <4>1. AfterL3Update(o, u).ahead = a \o b
        BY SMTT(60), <2>1, <3>1, <3>2, <3>4, <3>5, RemoveAheadAmid
      <4>2. AmidAfter(a, e, b, m) = a \o b
        BY <3>5 DEF AmidAfter, QtyAfter
      <4>3. QED
        BY <1>3, <3>3, <4>1, <4>2 DEF s
    <3>6. CASE u.action # "DELETE"
      <4>1. AfterL3Update(o, u).ahead = AmidAfter(a, e, b, u.qty)
        BY <1>1, <2>1, <3>1, <3>2, <3>4, <3>6, ModifyAheadAmid
      <4>2. m = u.qty
        BY <3>6 DEF QtyAfter
      <4>3. QED
        BY <1>3, <3>3, <4>1, <4>2 DEF s
    <3>7. QED
      BY <3>5, <3>6
  <2>5. QED
    BY <2>3, <2>4
<1>4. QED
  BY <1>2, <1>3

\* A line whose front is w: an update does to each part what it does to the whole.
LEMMA LevelAfterConcat ==
  ASSUME NEW w \in Seq(Resting), NEW g \in Seq(Resting), Unique(w \o g),
         NEW u \in L3Messages, u.action # "ADD"
  PROVE  LevelAfter(w \o g, u) = LevelAfter(w, u) \o LevelAfter(g, u)
<1> DEFINE m == QtyAfter(u)
<1>1. /\ IdsIn(w \o g) = IdsIn(w) \cup IdsIn(g) /\ Unique(w) /\ Unique(g)
      /\ IdsIn(w) \cap IdsIn(g) = {} /\ w \o g \in Seq(Resting)
  BY IdsOfConcat, ConcatProperties
<1>2. CASE u.id \in IdsIn(w)
  <2>1. PICK a \in Seq(Resting), b \in Seq(Resting), e \in Resting :
          w = Amid(a, e, b) /\ e.id = u.id
    BY <1>2, IdIsAmid
  <2>2. LevelAfter(g, u) = g
    BY <1>1, <1>2, LevelAfterAbsent
  <2>3. b \o g \in Seq(Resting) /\ a \o <<e>> \in Seq(Resting)
    BY ConcatProperties, AmidType
  <2>4. \A x \in Resting : Amid(a, x, b) \o g = Amid(a, x, b \o g)
    <3>1. SUFFICES ASSUME NEW x \in Resting PROVE Amid(a, x, b) \o g = Amid(a, x, b \o g)
      OBVIOUS
    <3> DEFINE c == a \o <<x>>
    <3>2. c \in Seq(Resting)
      BY AmidType
    <3> HIDE DEF c
    <3>3. (c \o b) \o g = c \o (b \o g)
      BY SMTT(60), <3>2, ConcatAssociative
    <3>4. QED
      BY <3>3 DEF Amid, c
  <2>5. w \o g = Amid(a, e, b \o g)
    BY <2>1, <2>4
  <2>6. LevelAfter(w, u) = AmidAfter(a, e, b, m)
    BY <1>1, <2>1, LevelAfterAmid
  <2>7. LevelAfter(w \o g, u) = AmidAfter(a, e, b \o g, m)
    <3> DEFINE c == b \o g
    <3>1. c \in Seq(Resting) /\ w \o g = Amid(a, e, c) /\ Unique(Amid(a, e, c))
      BY <2>3, <2>5
    <3> HIDE DEF c
    <3>2. LevelAfter(Amid(a, e, c), u) = AmidAfter(a, e, c, m)
      BY <2>1, <3>1, LevelAfterAmid
    <3>3. QED
      BY <3>1, <3>2 DEF c
  <2>8. AmidAfter(a, e, b, m) \o g = AmidAfter(a, e, b \o g, m)
    <3>1. CASE m = 0
      BY SMTT(60), <3>1, ConcatAssociative DEF AmidAfter
    <3>2. CASE m # 0
      <4>1. e.id \in Nat /\ m \in Nat
        BY DEF Resting, L3Messages, QtyAfter
      <4> DEFINE x == Entry(e.id, m)
      <4>2. x \in Resting
        BY <3>2, <4>1, EntryOf
      <4> HIDE DEF x
      <4>3. Amid(a, x, b) \o g = Amid(a, x, b \o g)
        BY <2>4, <4>2
      <4>4. QED
        BY <3>2, <4>3 DEF AmidAfter, x
    <3>3. QED
      BY <3>1, <3>2
  <2>9. QED
    BY <2>2, <2>6, <2>7, <2>8
<1>3. CASE u.id \in IdsIn(g)
  <2>1. PICK a \in Seq(Resting), b \in Seq(Resting), e \in Resting :
          g = Amid(a, e, b) /\ e.id = u.id
    BY <1>3, IdIsAmid
  <2>2. LevelAfter(w, u) = w
    BY <1>1, <1>3, LevelAfterAbsent
  <2>3. w \o a \in Seq(Resting)
    BY ConcatProperties
  <2>4. \A x \in Resting : w \o Amid(a, x, b) = Amid(w \o a, x, b)
    <3>1. SUFFICES ASSUME NEW x \in Resting PROVE w \o Amid(a, x, b) = Amid(w \o a, x, b)
      OBVIOUS
    <3> DEFINE y == <<x>>
    <3>2. y \in Seq(Resting) /\ a \o y \in Seq(Resting)
      BY AmidType
    <3> HIDE DEF y
    <3>3. w \o ((a \o y) \o b) = (w \o (a \o y)) \o b
      BY SMTT(60), <3>2, ConcatAssociative
    <3>4. w \o (a \o y) = (w \o a) \o y
      BY SMTT(60), <3>2, ConcatAssociative
    <3>5. QED
      BY <3>3, <3>4 DEF Amid, y
  <2>5. w \o g = Amid(w \o a, e, b)
    BY <2>1, <2>4
  <2>6. LevelAfter(g, u) = AmidAfter(a, e, b, m)
    BY <1>1, <2>1, LevelAfterAmid
  <2>7. LevelAfter(w \o g, u) = AmidAfter(w \o a, e, b, m)
    <3> DEFINE c == w \o a
    <3>1. c \in Seq(Resting) /\ w \o g = Amid(c, e, b) /\ Unique(Amid(c, e, b))
      BY <2>3, <2>5
    <3> HIDE DEF c
    <3>2. LevelAfter(Amid(c, e, b), u) = AmidAfter(c, e, b, m)
      BY <2>1, <3>1, LevelAfterAmid
    <3>3. QED
      BY <3>1, <3>2 DEF c
  <2>8. w \o AmidAfter(a, e, b, m) = AmidAfter(w \o a, e, b, m)
    <3>1. CASE m = 0
      BY SMTT(60), <3>1, ConcatAssociative DEF AmidAfter
    <3>2. CASE m # 0
      <4>1. e.id \in Nat /\ m \in Nat
        BY DEF Resting, L3Messages, QtyAfter
      <4> DEFINE x == Entry(e.id, m)
      <4>2. x \in Resting
        BY <3>2, <4>1, EntryOf
      <4> HIDE DEF x
      <4>3. w \o Amid(a, x, b) = Amid(w \o a, x, b)
        BY <2>4, <4>2
      <4>4. QED
        BY <3>2, <4>3 DEF AmidAfter, x
    <3>3. QED
      BY <3>1, <3>2
  <2>9. QED
    BY <2>2, <2>6, <2>7, <2>8
<1>4. CASE u.id \notin IdsIn(w) /\ u.id \notin IdsIn(g)
  BY <1>1, <1>4, LevelAfterAbsent
<1>5. QED
  BY <1>2, <1>3, <1>4

-----------------------------------------------------------------------------
(***************************************************************************)
(* check_fill takes from the orders ahead what the trade took from them    *)
(***************************************************************************)
LEMMA TakeIsServe ==
  ASSUME NEW r, r.left \in Nat, NEW n \in Serving, n.asked = r.left, n.line = r.line,
         NEW e \in Resting
  PROVE  /\ TakeFrom(r, e).line = Serve(n, e).line
         /\ TakeFrom(r, e).left = Serve(n, e).asked
         /\ TakeFrom(r, e).left \in Nat
<1> DEFINE k == r.left
           l == r.line
           v == n.served
           t == Lesser(e.qty, k)
<1>1. /\ k \in Nat /\ e.id \in Nat /\ e.qty \in Nat \ {0}
      /\ n = [asked |-> k, line |-> l, served |-> v]
      /\ e = [id |-> e.id, qty |-> e.qty]
  BY DEF Serving, Resting
<1>2. TakeFrom(r, e) = [left |-> k - t,
                        line |-> IF t = e.qty THEN l ELSE Append(l, Entry(e.id, e.qty - t))]
  BY DEF TakeFrom
<1> HIDE DEF k, l, v
<1>3. CASE k = 0
  <2>1. t = 0 /\ t # e.qty /\ e.qty - t = e.qty /\ k - t = 0
    BY <1>1, <1>3 DEF Lesser
  <2>2. Entry(e.id, e.qty - t) = e
    BY <1>1, <2>1 DEF Entry
  <2>3. TakeFrom(r, e) = [left |-> 0, line |-> Append(l, e)]
    BY <1>2, <2>1, <2>2
  <2>4. Serve(n, e) = [asked |-> 0, line |-> Append(l, e), served |-> v]
    BY <1>1, <1>3 DEF Serve
  <2>5. QED
    BY <2>3, <2>4
<1>4. CASE k # 0 /\ k < e.qty
  <2>1. t = k /\ t # e.qty /\ k - t = 0
    BY <1>1, <1>4 DEF Lesser
  <2>2. TakeFrom(r, e) = [left |-> 0, line |-> Append(l, Entry(e.id, e.qty - k))]
    BY <1>2, <2>1
  <2> DEFINE x == Entry(e.id, e.qty - k)
  <2>3. Serve(n, e) = [asked |-> 0, line |-> Append(l, x), served |-> Append(v, x)]
    BY <1>1, <1>4 DEF Serve
  <2> HIDE DEF x
  <2>4. QED
    BY <2>2, <2>3 DEF x
<1>5. CASE k # 0 /\ ~(k < e.qty)
  <2>1. t = e.qty /\ k - e.qty \in Nat
    BY <1>1, <1>5 DEF Lesser
  <2>2. TakeFrom(r, e) = [left |-> k - e.qty, line |-> l]
    BY <1>2, <2>1
  <2> DEFINE x == Entry(e.id, 0)
  <2>3. Serve(n, e) = [asked |-> k - e.qty, line |-> l, served |-> Append(v, x)]
    BY <1>1, <1>5 DEF Serve
  <2> HIDE DEF x
  <2>4. QED
    BY <2>1, <2>2, <2>3
<1>6. QED
  BY <1>3, <1>4, <1>5

LEMMA ConsumedIsServed ==
  ASSUME NEW s \in Seq(Resting), NEW qty \in Nat
  PROVE  Consumed(s, qty) = ServeRun(s, qty).line
<1> DEFINE Good == {t \in Seq(Resting) : /\ Run(t, qty).line = ServeRun(t, qty).line
                                         /\ Run(t, qty).left = ServeRun(t, qty).asked
                                         /\ Run(t, qty).left \in Nat}
<1>1. <<>> \in Good
  BY RunOfEmpty, ServeRunOfEmpty, EmptySeq DEF TakenFrom, Asking
<1>2. ASSUME NEW t \in Seq(Resting), NEW e \in Resting, t \in Good PROVE Append(t, e) \in Good
  <2> DEFINE r == Run(t, qty)
             n == ServeRun(t, qty)
  <2>1. r.line = n.line /\ r.left = n.asked /\ r.left \in Nat
    BY <1>2
  <2>2. n \in Serving
    BY ServeRunLeaves DEF LeavesOf
  <2>3. Run(Append(t, e), qty) = TakeFrom(r, e) /\ ServeRun(Append(t, e), qty) = Serve(n, e)
    BY RunOfAppend, ServeRunOfAppend
  <2> HIDE DEF r, n
  <2>4. /\ TakeFrom(r, e).line = Serve(n, e).line
        /\ TakeFrom(r, e).left = Serve(n, e).asked
        /\ TakeFrom(r, e).left \in Nat
    BY <2>1, <2>2, TakeIsServe
  <2>5. QED
    BY <2>3, <2>4, AppendProperties
<1> HIDE DEF Good
<1>3. s \in Good
  BY <1>1, <1>2, Serves!SeqSetInduction
<1>4. Consumed(s, qty) = Run(s, qty).line
  BY DEF Consumed, Run, TakenFrom
<1>5. QED
  BY <1>3, <1>4 DEF Good

\* What is left of the front of a line is the front of what is left of the line.
LEMMA ServedConcat ==
  ASSUME NEW f \in Seq(Resting), NEW g \in Seq(Resting), NEW qty \in Nat
  PROVE  \E w \in Seq(Resting) :
           /\ ServeRun(f \o g, qty).line = ServeRun(f, qty).line \o w
           /\ IdsIn(w) \subseteq IdsIn(g)
<1> DEFINE l == ServeRun(f, qty).line
           Good == {t \in Seq(Resting) :
                      \E w \in Seq(Resting) :
                        ServeRun(f \o t, qty).line = l \o w /\ IdsIn(w) \subseteq IdsIn(t)}
<1>0. l \in Seq(Resting)
  BY ServeRunLeaves DEF LeavesOf, Serving
<1>1. <<>> \in Good
  <2>1. f \o <<>> = f /\ l \o <<>> = l /\ <<>> \in Seq(Resting)
    BY <1>0, ConcatEmptySeq, EmptySeq
  <2> HIDE DEF l
  <2>2. ServeRun(f \o <<>>, qty).line = l \o <<>>
    BY <2>1 DEF l
  <2>3. QED
    BY <2>1, <2>2
<1> HIDE DEF l
<1>2. ASSUME NEW t \in Seq(Resting), NEW e \in Resting, t \in Good PROVE Append(t, e) \in Good
  <2> DEFINE u == f \o t
             r == ServeRun(u, qty)
             n == Serve(r, e)
  <2>1. PICK w \in Seq(Resting) : r.line = l \o w /\ IdsIn(w) \subseteq IdsIn(t)
    BY <1>2
  <2>2. u \in Seq(Resting) /\ f \o Append(t, e) = Append(u, e)
    <3>1. u \in Seq(Resting)
      BY ConcatProperties
    <3> DEFINE o == <<e>>
    <3>2. o \in Seq(Resting) /\ Append(t, e) = t \o o
      BY AmidType, AppendIsConcat
    <3>3. Append(u, e) = u \o o
      BY <3>1, AppendIsConcat
    <3> HIDE DEF o
    <3>4. f \o (t \o o) = (f \o t) \o o
      <4>1. f \in Seq(Resting) /\ t \in Seq(Resting) /\ o \in Seq(Resting)
        BY <1>2, <3>2
      <4>2. (f \o t) \o o = f \o (t \o o)
        BY SMTT(60), <4>1, ConcatAssociative
      <4>3. QED
        BY <4>2
    <3>5. QED
      BY <3>1, <3>2, <3>3, <3>4
  <2> HIDE DEF u
  <2>3. ServeRun(Append(u, e), qty) = n
    BY <2>2, ServeRunOfAppend
  <2>4. r \in Serving
    BY <2>2, ServeRunLeaves DEF LeavesOf
  <2>5. IdsIn(Append(t, e)) = IdsIn(t) \cup {e.id} /\ Append(t, e) \in Seq(Resting)
    BY IdsOfAppend, AppendProperties
  <2> HIDE DEF r, n
  <2>6. ASSUME NEW x \in Resting, x.id = e.id, n.line = Append(r.line, x)
        PROVE  Append(t, e) \in Good
    <3> DEFINE k == Append(w, x)
    <3>1. k \in Seq(Resting) /\ IdsIn(k) = IdsIn(w) \cup {x.id}
      BY AppendProperties, IdsOfAppend
    <3>2. Append(l \o w, x) = l \o k
      <4> DEFINE o == <<x>>
      <4>1. o \in Seq(Resting) /\ k = w \o o /\ l \o w \in Seq(Resting)
        BY <1>0, AmidType, AppendIsConcat, ConcatProperties
      <4>2. Append(l \o w, x) = (l \o w) \o o
        BY <4>1, AppendIsConcat
      <4> HIDE DEF o, k
      <4>3. (l \o w) \o o = l \o (w \o o)
        <5>1. o \in Seq(Resting)
          BY <4>1
        <5>2. QED
          BY SMTT(60), <1>0, <5>1, ConcatAssociative
      <4>4. QED
        BY <4>1, <4>2, <4>3
    <3> HIDE DEF k
    <3>3. n.line = l \o k /\ IdsIn(k) \subseteq IdsIn(Append(t, e))
      BY <2>1, <2>5, <2>6, <3>1, <3>2
    <3>4. QED
      BY <2>2, <2>3, <2>5, <3>1, <3>3
  <2>7. CASE n.served = r.served /\ n.line = Append(r.line, e)
    BY <2>6, <2>7
  <2>8. ASSUME NEW x, ServedAs(r, n, e, x) PROVE Append(t, e) \in Good
    <3>1. /\ x \in AnyEntry /\ x.id = e.id
          /\ n.line = IF x.qty = 0 THEN r.line ELSE Append(r.line, x)
      BY <2>8 DEF ServedAs
    <3>2. CASE x.qty = 0
      <4>1. n.line = l \o w /\ IdsIn(w) \subseteq IdsIn(Append(t, e))
        BY <2>1, <2>5, <3>1, <3>2
      <4>2. QED
        BY <2>2, <2>3, <2>5, <4>1
    <3>3. CASE x.qty # 0
      <4>1. x \in Resting
        BY <3>1, <3>3 DEF AnyEntry, Resting
      <4>2. QED
        BY <2>6, <3>1, <3>3, <4>1
    <3>4. QED
      BY <3>2, <3>3
  <2>9. QED
    BY <2>4, <2>7, <2>8, ServeIs DEF n
<1> HIDE DEF Good
<1>3. g \in Good
  BY <1>1, <1>2, Serves!SeqSetInduction
<1>4. QED
  BY <1>3 DEF Good, l

\* The part of the trade that is taken from the orders ahead is all that
\* could be taken from them.
LEMMA UsedIsEnough ==
  ASSUME NEW q, SoundQueue(q), NEW qty \in Nat
  PROVE  Consumed(q.ahead, UsedAhead(q, qty)) = Consumed(q.ahead, qty)
<1> DEFINE s == q.ahead
           n == q.qty_ahead
           used == UsedAhead(q, qty)
<1>1. s \in Seq(Resting) /\ n = QtyOf(s)
  BY DEF SoundQueue
<1>2. n \in Nat
  BY <1>1, RestingIsEntry, QtyIsNat
<1>3. CASE qty <= n
  <2>1. used = qty
    BY <1>2, <1>3 DEF UsedAhead, Lesser
  <2>2. QED
    BY <2>1
<1>4. CASE n < qty
  <2>1. used = n
    BY <1>2, <1>4 DEF UsedAhead, Lesser
  <2>2. Consumed(s, n) = <<>> /\ Consumed(s, qty) = <<>>
    <3> HIDE DEF n, s
    <3>1. n >= QtyOf(s) /\ qty >= QtyOf(s)
      BY <1>1, <1>2, <1>4
    <3>2. QED
      BY <1>1, <1>2, <3>1, ConsumedIs
  <2>3. QED
    BY <2>1, <2>2
<1>5. QED
  BY <1>2, <1>3, <1>4

LEMMA FilledAhead ==
  ASSUME NEW q, SoundQueue(q), NEW remaining, NEW qty \in Nat
  PROVE  L3Fill(q, remaining, qty).queue.ahead = Consumed(q.ahead, qty)
  BY UsedIsEnough DEF L3Fill

-----------------------------------------------------------------------------
(***************************************************************************)
(* An order whose list is exact: the list is the front of the line, with   *)
(* the orders that were there when it came; the others came later.         *)
(***************************************************************************)
IsFront(ahead, line, ent) ==
  \E g \in Seq(Resting) :
    line = ahead \o g /\ IdsIn(ahead) \subseteq ent /\ IdsIn(g) \cap ent = {}

LEMMA FrontAfterUpdate ==
  ASSUME NEW a \in Seq(Resting), NEW line \in Seq(Resting), NEW ent, IsFront(a, line, ent),
         Unique(line), NEW u \in L3Messages, u.action # "ADD"
  PROVE  IsFront(LevelAfter(a, u), LevelAfter(line, u), ent) /\ Unique(a)
<1>1. PICK g \in Seq(Resting) :
        line = a \o g /\ IdsIn(a) \subseteq ent /\ IdsIn(g) \cap ent = {}
  BY DEF IsFront
<1>2. Unique(a) /\ Unique(g)
  BY <1>1, IdsOfConcat
<1>3. /\ IdsIn(LevelAfter(a, u)) \subseteq IdsIn(a) /\ IdsIn(LevelAfter(g, u)) \subseteq IdsIn(g)
      /\ LevelAfter(g, u) \in Seq(Resting)
  BY <1>2, LevelAfterUnique, LevelAfterType
<1>4. Unique(a \o g)
  BY <1>1
<1>5. LevelAfter(line, u) = LevelAfter(a, u) \o LevelAfter(g, u)
  BY <1>1, <1>4, LevelAfterConcat
<1>6. QED
  BY <1>1, <1>2, <1>3, <1>5 DEF IsFront

LEMMA AppendConcat ==
  ASSUME NEW E, NEW a \in Seq(E), NEW g \in Seq(E), NEW x \in E
  PROVE  Append(a \o g, x) = a \o Append(g, x) /\ Append(g, x) \in Seq(E)
<1> DEFINE o == <<x>>
<1>1. o \in Seq(E) /\ Append(g, x) = g \o o /\ Append(g, x) \in Seq(E)
  BY PlacesOfAppend
<1>2. a \o g \in Seq(E)
  BY ConcatProperties
<1>3. Append(a \o g, x) = (a \o g) \o o
  BY <1>2, AppendIsConcat
<1> HIDE DEF o
<1>4. (a \o g) \o o = a \o (g \o o)
  <2>1. o \in Seq(E)
    BY <1>1
  <2>2. QED
    BY SMTT(60), <2>1, ConcatAssociative
<1>5. QED
  BY <1>1, <1>3, <1>4

LEMMA FrontAfterAdd ==
  ASSUME NEW a \in Seq(Resting), NEW line \in Seq(Resting), NEW ent, IsFront(a, line, ent),
         NEW u \in L3Messages, u.action = "ADD", u.id \notin ent
  PROVE  IsFront(a, LevelAfter(line, u), ent)
<1> DEFINE x == Entry(u.id, u.qty)
<1>1. PICK g \in Seq(Resting) :
        line = a \o g /\ IdsIn(a) \subseteq ent /\ IdsIn(g) \cap ent = {}
  BY DEF IsFront
<1>2. x \in Resting /\ x.id = u.id
  <2>1. u.id \in Nat /\ u.qty \in Nat /\ u.qty > 0
    BY DEF L3Messages
  <2>2. QED
    BY <2>1, EntryOf
<1>3. LevelAfter(line, u) = Append(line, x)
  BY DEF LevelAfter
<1> HIDE DEF x
<1>4. Append(a \o g, x) = a \o Append(g, x) /\ Append(g, x) \in Seq(Resting)
  <2>1. a \in Seq(Resting) /\ g \in Seq(Resting) /\ x \in Resting
    BY <1>2
  <2>2. a \o Append(g, x) = Append(a \o g, x)
    BY <2>1, AppendConcat
  <2>3. Append(g, x) \in Seq(Resting)
    BY <2>1, AppendProperties
  <2>4. QED
    BY <2>2, <2>3
<1>5. IdsIn(Append(g, x)) = IdsIn(g) \cup {u.id}
  BY <1>2, IdsOfAppend
<1>6. QED
  BY <1>1, <1>3, <1>4, <1>5 DEF IsFront

LEMMA FrontAfterTrade ==
  ASSUME NEW a \in Seq(Resting), NEW line \in Seq(Resting), NEW ent, IsFront(a, line, ent),
         NEW qty \in Nat
  PROVE  IsFront(Consumed(a, qty), Served(line, qty).line, ent)
<1>1. PICK g \in Seq(Resting) :
        line = a \o g /\ IdsIn(a) \subseteq ent /\ IdsIn(g) \cap ent = {}
  BY DEF IsFront
<1> DEFINE l == ServeRun(a, qty).line
<1>2. PICK w \in Seq(Resting) :
        ServeRun(a \o g, qty).line = l \o w /\ IdsIn(w) \subseteq IdsIn(g)
  BY ZenonT(60), ServedConcat
<1>3. Consumed(a, qty) = l /\ IdsIn(l) \subseteq IdsIn(a)
  BY ConsumedIsServed, ServeRunLeaves DEF LeavesOf
<1>4. Served(line, qty) = ServeRun(line, qty)
  BY DEF Served, ServeRun, Asking
<1> HIDE DEF l
<1>5. QED
  BY <1>1, <1>2, <1>3, <1>4 DEF IsFront

LEMMA FrontIsKept ==
  ASSUME NEW a \in Seq(Resting), NEW line \in Seq(Resting), NEW ent, IsFront(a, line, ent)
  PROVE  Kept(line, {e \in ToSet(line) : e.id \in ent}) = a
<1> DEFINE T == {e \in ToSet(line) : e.id \in ent}
           U == {e \in Resting : e.id \in ent}
<1>1. PICK g \in Seq(Resting) :
        line = a \o g /\ IdsIn(a) \subseteq ent /\ IdsIn(g) \cap ent = {}
  BY DEF IsFront
<1>2. \A e \in ToSet(line) : e \in T <=> e \in U
  <2>1. \A e \in ToSet(line) : e \in Resting
    BY ElementOfSeq, LenProperties DEF ToSet
  <2>2. QED
    BY <2>1
<1>3. \A j \in 1 .. Len(a) : a[j] \in U
  BY <1>1, ElementOfSeq DEF IdsIn
<1>4. \A j \in 1 .. Len(g) : g[j] \notin U
  BY <1>1 DEF IdsIn
<1> HIDE DEF T, U
<1>5. Kept(line, T) = Kept(line, U)
  BY <1>2, KeptOfOwn
<1>6. Kept(a, U) = a /\ Kept(g, U) = <<>>
  BY <1>3, <1>4, KeptAll
<1>7. Kept(a \o g, U) = Kept(a, U) \o Kept(g, U)
  BY KeptOfConcat
<1>8. a \o <<>> = a
  BY ConcatEmptySeq
<1>9. QED
  BY <1>1, <1>5, <1>6, <1>7, <1>8 DEF T

\* A message that says of the orders in a list what the list says already.
Settled(ahead, m) ==
  /\ m.kind = "L3Update" /\ m.action # "ADD"
  /\ \A j \in 1 .. Len(ahead) :
       ahead[j].id = m.id => m.action = "MODIFY" /\ m.qty = ahead[j].qty

LEMMA SettledKeeps ==
  ASSUME NEW a \in Seq(Resting), Unique(a), NEW u \in L3Messages, Settled(a, u)
  PROVE  LevelAfter(a, u) = a
<1>1. CASE u.id \notin IdsIn(a)
  BY <1>1, LevelAfterAbsent DEF Settled
<1>2. CASE u.id \in IdsIn(a)
  <2>1. PICK x \in Seq(Resting), y \in Seq(Resting), e \in Resting :
          a = Amid(x, e, y) /\ e.id = u.id
    BY <1>2, IdIsAmid
  <2>2. Len(x) + 1 \in 1 .. Len(a) /\ a[Len(x) + 1] = e
    <3>1. Len(x) + 1 \in 1 .. Len(Amid(x, e, y)) /\ Amid(x, e, y)[Len(x) + 1] = e
      BY PlacesAmid
    <3>2. QED
      BY <2>1, <3>1
  <2>3. u.action = "MODIFY" /\ u.qty = e.qty
    BY <2>1, <2>2 DEF Settled
  <2>4. QtyAfter(u) = e.qty /\ e.qty # 0 /\ Entry(e.id, e.qty) = e
    BY <2>3 DEF QtyAfter, Resting, Entry
  <2>5. LevelAfter(Amid(x, e, y), u) = AmidAfter(x, e, y, QtyAfter(u))
    <3>1. Unique(Amid(x, e, y)) /\ u.action # "ADD"
      BY <2>1, <2>3
    <3>2. QED
      BY <2>1, <3>1, LevelAfterAmid
  <2>6. AmidAfter(x, e, y, QtyAfter(u)) = Amid(x, e, y)
    BY <2>4 DEF AmidAfter
  <2>7. QED
    BY <2>1, <2>5, <2>6
<1>3. QED
  BY <1>1, <1>2

\* Once the list is as the trade leaves the line, the updates of the trade
\* say nothing new.
LEMMA SettledByTrade ==
  ASSUME NEW line \in Seq(Resting), Unique(line), NEW r, LeavesOf(r, line),
         NEW a \in Seq(Resting), NEW ent, IsFront(a, r.line, ent), NEW key \in Keys,
         NEW j \in 1 .. Len(Shown(key, r.served))
  PROVE  Settled(a, Shown(key, r.served)[j])
<1> DEFINE s == r.served
           l == r.line
           x == s[j]
           u == Show(key, x)
<1>1. s \in Seq(AnyEntry) /\ l \in Seq(Resting) /\ SameOrders(s, l)
  BY DEF LeavesOf, Serving
<1>2. j \in 1 .. Len(s) /\ Shown(key, s)[j] = u
  BY <1>1, ShownType
<1>3. x \in AnyEntry
  BY <1>1, <1>2, ElementOfSeq
<1>4. PICK g \in Seq(Resting) : l = a \o g
  BY DEF IsFront
<1>5. \A i \in 1 .. Len(a) : i \in 1 .. Len(l) /\ l[i] = a[i] /\ a[i] \in Resting
  <2>1. /\ Len(a \o g) = Len(a) + Len(g)
        /\ \A i \in 1 .. Len(a) : i \in 1 .. Len(a) + Len(g) /\ (a \o g)[i] = a[i]
    BY PlacesOfConcat
  <2>2. QED
    BY <1>4, <2>1, ElementOfSeq
<1>6. /\ u.kind = "L3Update" /\ u.action # "ADD" /\ u.id = x.id /\ u.qty = x.qty
      /\ x.qty # 0 => u.action = "MODIFY"
  BY <1>3, ShowIs
<1> HIDE DEF u, l
<1>7. ASSUME NEW i \in 1 .. Len(a), a[i].id = u.id
      PROVE  u.action = "MODIFY" /\ u.qty = a[i].qty
  <2>1. i \in 1 .. Len(l) /\ l[i] = a[i] /\ a[i].qty # 0
    BY <1>5 DEF Resting
  <2>2. x = l[i]
    BY <1>1, <1>2, <1>6, <1>7, <2>1 DEF SameOrders
  <2>3. QED
    BY <1>6, <2>1, <2>2
<1>8. Settled(a, u)
  BY <1>6, <1>7 DEF Settled
<1>9. QED
  BY <1>2, <1>8

-----------------------------------------------------------------------------
(***************************************************************************)
(* Lines with less in them: the same orders, none of them with more.  What *)
(* has nothing left is not in the list of the orders ahead.                *)
(***************************************************************************)
Below(v, w) ==
  /\ Len(v) = Len(w)
  /\ \A j \in 1 .. Len(v) : v[j].id = w[j].id /\ v[j].qty <= w[j].qty

LEMMA BelowItself ==
  ASSUME NEW v \in Seq(AnyEntry)
  PROVE  Below(v, v)
<1>1. \A j \in 1 .. Len(v) : v[j] \in AnyEntry
  BY ElementOfSeq
<1>2. \A e \in AnyEntry : e.qty <= e.qty
  BY DEF AnyEntry
<1>3. QED
  BY <1>1, <1>2 DEF Below

LEMMA BelowBelow ==
  ASSUME NEW t \in Seq(AnyEntry), NEW v \in Seq(AnyEntry), NEW w \in Seq(AnyEntry),
         Below(t, v), Below(v, w)
  PROVE  Below(t, w)
<1>1. Len(t) = Len(v) /\ Len(v) = Len(w)
  BY DEF Below
<1>2. \A j \in 1 .. Len(t) : t[j] \in AnyEntry /\ v[j] \in AnyEntry /\ w[j] \in AnyEntry
  BY <1>1, ElementOfSeq
<1>3. \A x, y, z \in Nat : x <= y /\ y <= z => x <= z
  OBVIOUS
<1>4. ASSUME NEW j \in 1 .. Len(t) PROVE t[j].id = w[j].id /\ t[j].qty <= w[j].qty
  <2>1. t[j].qty \in Nat /\ v[j].qty \in Nat /\ w[j].qty \in Nat
    BY <1>2 DEF AnyEntry
  <2>2. /\ t[j].id = v[j].id /\ t[j].qty <= v[j].qty
        /\ v[j].id = w[j].id /\ v[j].qty <= w[j].qty
    BY <1>1 DEF Below
  <2>3. QED
    BY <1>3, <2>1, <2>2
<1>5. QED
  BY <1>1, <1>4 DEF Below

LEMMA BelowConcat ==
  ASSUME NEW v \in Seq(AnyEntry), NEW w \in Seq(AnyEntry), Below(v, w),
         NEW x \in Seq(AnyEntry), NEW y \in Seq(AnyEntry), Below(x, y)
  PROVE  Below(v \o x, w \o y)
<1> DEFINE s == v \o x
           t == w \o y
           l == Len(v)
           m == Len(x)
<1>1. l = Len(w) /\ m = Len(y)
  BY DEF Below
<1>2. /\ Len(s) = l + m
      /\ \A j \in 1 .. l : s[j] = v[j]
      /\ \A j \in 1 .. m : s[l + j] = x[j]
      /\ \A j \in 1 .. l + m : j \in 1 .. l \/ \E i \in 1 .. m : j = l + i
  BY PlacesOfConcat
<1>3. /\ Len(t) = l + m
      /\ \A j \in 1 .. l : t[j] = w[j]
      /\ \A j \in 1 .. m : t[l + j] = y[j]
  <2>1. /\ Len(t) = Len(w) + Len(y)
        /\ \A j \in 1 .. Len(w) : t[j] = w[j]
        /\ \A j \in 1 .. Len(y) : t[Len(w) + j] = y[j]
    BY PlacesOfConcat
  <2> HIDE DEF t, l, m
  <2>2. QED
    BY <1>1, <2>1
<1>4. /\ \A j \in 1 .. l : v[j].id = w[j].id /\ v[j].qty <= w[j].qty
      /\ \A j \in 1 .. m : x[j].id = y[j].id /\ x[j].qty <= y[j].qty
  BY DEF Below
<1> HIDE DEF s, t, l, m
<1>5. ASSUME NEW j \in 1 .. l + m PROVE s[j].id = t[j].id /\ s[j].qty <= t[j].qty
  <2>1. CASE j \in 1 .. l
    BY <1>2, <1>3, <1>4, <2>1
  <2>2. ASSUME NEW i \in 1 .. m, j = l + i PROVE s[j].id = t[j].id /\ s[j].qty <= t[j].qty
    <3>1. s[j] = x[i] /\ t[j] = y[i]
      BY <1>2, <1>3, <2>2
    <3>2. QED
      BY <1>4, <3>1
  <2>3. QED
    BY <1>2, <2>1, <2>2
<1>6. Below(s, t)
  BY <1>2, <1>3, <1>5 DEF Below
<1>7. QED
  BY <1>6 DEF s, t

LEMMA BelowOne ==
  ASSUME NEW x \in AnyEntry, NEW e \in AnyEntry, x.id = e.id, x.qty <= e.qty
  PROVE  Below(<<x>>, <<e>>)
<1> DEFINE s == <<x>>
           t == <<e>>
<1>1. Len(s) = 1 /\ Len(t) = 1 /\ s[1] = x /\ t[1] = e
  OBVIOUS
<1> HIDE DEF s, t
<1>2. Below(s, t)
  BY <1>1 DEF Below
<1>3. QED
  BY <1>2 DEF s, t

LEMMA BelowAmid ==
  ASSUME NEW va \in Seq(AnyEntry), NEW a \in Seq(AnyEntry), Below(va, a),
         NEW vb \in Seq(AnyEntry), NEW b \in Seq(AnyEntry), Below(vb, b),
         NEW x \in AnyEntry, NEW e \in AnyEntry, x.id = e.id, x.qty <= e.qty
  PROVE  Below(Amid(va, x, vb), Amid(a, e, b))
<1> DEFINE s == <<x>>
           t == <<e>>
<1>1. s \in Seq(AnyEntry) /\ t \in Seq(AnyEntry) /\ Below(s, t)
  BY BelowOne
<1>2. va \o s \in Seq(AnyEntry) /\ a \o t \in Seq(AnyEntry)
  BY AmidType
<1> HIDE DEF s, t
<1>3. Below(va \o s, a \o t)
  BY <1>1, BelowConcat
<1>4. Below((va \o s) \o vb, (a \o t) \o b)
  BY <1>2, <1>3, BelowConcat
<1>5. QED
  BY <1>4 DEF Amid, s, t

LEMMA BelowIds ==
  ASSUME NEW v \in Seq(AnyEntry), NEW w \in Seq(AnyEntry), Below(v, w)
  PROVE  IdsIn(v) = IdsIn(w) /\ (Unique(w) => Unique(v))
  BY DEF Below, IdsIn, Unique

\* Two lines taken apart at the same place.
LEMMA BelowParts ==
  ASSUME NEW v \in Seq(AnyEntry), NEW w \in Seq(Resting), Below(v, w), NEW n \in 1 .. Len(w)
  PROVE  \E va, vb \in Seq(AnyEntry), a, b \in Seq(Resting) :
           /\ w = Amid(a, w[n], b) /\ v = Amid(va, v[n], vb)
           /\ Below(va, a) /\ Below(vb, b)
<1> DEFINE va == SubSeq(v, 1, n - 1)
           vb == SubSeq(v, n + 1, Len(v))
           a == SubSeq(w, 1, n - 1)
           b == SubSeq(w, n + 1, Len(w))
<1>1. Len(v) = Len(w) /\ n \in 1 .. Len(v) /\ Len(v) \in Nat
  BY LenProperties DEF Below
<1>2. va \in Seq(AnyEntry) /\ vb \in Seq(AnyEntry) /\ v = (va \o <<v[n]>>) \o vb
  BY <1>1, Around
<1>3. a \in Seq(Resting) /\ b \in Seq(Resting) /\ w = (a \o <<w[n]>>) \o b
  BY Around
<1>4. /\ Len(va) = n - 1 /\ Len(a) = n - 1
      /\ \A j \in 1 .. n - 1 : va[j] = v[j] /\ a[j] = w[j]
  BY <1>1, Around
<1>5. /\ Len(vb) = Len(v) - n /\ Len(b) = Len(v) - n
      /\ \A j \in 1 .. Len(v) - n : vb[j] = v[n + j] /\ b[j] = w[n + j]
  <2> DEFINE one == <<v[n]>>
             two == <<w[n]>>
  <2>1. /\ one \in Seq(AnyEntry) /\ two \in Seq(Resting) /\ Len(one) = 1 /\ Len(two) = 1
    BY <1>1, ElementOfSeq
  <2> HIDE DEF one, two
  <2>2. va \o one \in Seq(AnyEntry) /\ Len(va \o one) = n
        /\ a \o two \in Seq(Resting) /\ Len(a \o two) = n
    <3>1. va \o one \in Seq(AnyEntry) /\ Len(va \o one) = Len(va) + Len(one)
      BY ZenonT(60), <1>2, <2>1, PlacesOfConcat
    <3>2. a \o two \in Seq(Resting) /\ Len(a \o two) = Len(a) + Len(two)
      BY ZenonT(60), <1>3, <2>1, PlacesOfConcat
    <3>3. (n - 1) + 1 = n
      BY <1>1
    <3> HIDE DEF va, a
    <3>4. QED
      BY <1>4, <2>1, <3>1, <3>2, <3>3
  <2>3. /\ Len(v) = n + Len(vb) /\ Len(vb) \in Nat
        /\ \A j \in 1 .. Len(vb) : v[n + j] = vb[j]
    <3> DEFINE c == va \o one
    <3>1. v = c \o vb /\ c \in Seq(AnyEntry) /\ Len(c) = n
      BY <1>2, <2>2 DEF one
    <3> HIDE DEF c, vb
    <3>2. c \in Seq(AnyEntry) /\ vb \in Seq(AnyEntry)
      BY <1>2, <3>1
    <3>3. /\ Len(c \o vb) = Len(c) + Len(vb) /\ Len(vb) \in Nat
          /\ \A j \in 1 .. Len(vb) : (c \o vb)[Len(c) + j] = vb[j]
      BY <3>2, PlacesOfConcat
    <3>4. QED
      BY <3>1, <3>3
  <2>4. /\ Len(w) = n + Len(b) /\ Len(b) \in Nat
        /\ \A j \in 1 .. Len(b) : w[n + j] = b[j]
    <3> DEFINE c == a \o two
    <3>1. w = c \o b /\ c \in Seq(Resting) /\ Len(c) = n
      BY <1>3, <2>2 DEF two
    <3> HIDE DEF c, b
    <3>2. c \in Seq(Resting) /\ b \in Seq(Resting)
      BY <1>3, <3>1
    <3>3. /\ Len(c \o b) = Len(c) + Len(b) /\ Len(b) \in Nat
          /\ \A j \in 1 .. Len(b) : (c \o b)[Len(c) + j] = b[j]
      BY <3>2, PlacesOfConcat
    <3>4. QED
      BY <3>1, <3>3
  <2> HIDE DEF vb, b
  <2>5. \A p, q, r \in Nat : p = q + r => r = p - q
    OBVIOUS
  <2>6. n \in Nat /\ Len(v) \in Nat /\ Len(v) = Len(w)
    BY <1>1
  <2>7. Len(vb) = Len(v) - n /\ Len(b) = Len(v) - n
    BY <2>3, <2>4, <2>5, <2>6
  <2>8. QED
    BY <2>3, <2>4, <2>7
<1> HIDE DEF va, vb, a, b
<1>6. \A j \in 1 .. Len(v) : v[j].id = w[j].id /\ v[j].qty <= w[j].qty
  BY DEF Below
<1>7. Below(va, a)
  <2>1. \A j \in 1 .. n - 1 : j \in 1 .. Len(v)
    BY <1>1
  <2>2. QED
    BY <1>4, <1>6, <2>1 DEF Below
<1>8. Below(vb, b)
  <2>1. \A j \in 1 .. Len(v) - n : n + j \in 1 .. Len(v)
    BY <1>1
  <2>2. QED
    BY <1>5, <1>6, <2>1 DEF Below
<1>9. QED
  BY <1>2, <1>3, <1>7, <1>8 DEF Amid

LEMMA BelowQty ==
  ASSUME NEW v \in Seq(AnyEntry), NEW w \in Seq(Resting), Below(v, w)
  PROVE  QtyOf(v) <= QtyOf(w)
<1> DEFINE Good == {t \in Seq(Resting) :
                      \A s \in Seq(AnyEntry) : Below(s, t) => QtyOf(s) <= QtyOf(t)}
<1>1. <<>> \in Good
  <2>1. \A s \in Seq(AnyEntry) : Below(s, <<>>) => s = <<>>
    BY EmptySeq DEF Below
  <2>2. QED
    BY <2>1, EmptySeq, QtyOfEmpty
<1>2. ASSUME NEW t \in Seq(Resting), NEW e \in Resting, t \in Good PROVE Append(t, e) \in Good
  <2>1. Append(t, e) \in Seq(Resting) /\ Append(t, e) \in Seq(AnyEntry)
        /\ t \in Seq(AnyEntry) /\ e \in AnyEntry
    BY AppendProperties, RestingIsEntry
  <2>2. ASSUME NEW s \in Seq(AnyEntry), Below(s, Append(t, e))
        PROVE  QtyOf(s) <= QtyOf(Append(t, e))
    <3> DEFINE n == Len(t) + 1
               x == s[n]
               f == SubSeq(s, 1, n - 1)
    <3>1. /\ Len(Append(t, e)) = n /\ Len(t) \in Nat /\ n - 1 = Len(t)
          /\ Append(t, e)[n] = e /\ \A j \in 1 .. Len(t) : Append(t, e)[j] = t[j]
      BY AppendProperties, LenProperties
    <3>2. Len(s) = n /\ n \in 1 .. Len(s)
      BY <2>2, <3>1 DEF Below
    <3> HIDE DEF n
    <3>3. /\ f \in Seq(AnyEntry) /\ Len(f) = n - 1 /\ \A j \in 1 .. n - 1 : f[j] = s[j]
          /\ x \in AnyEntry
      BY <3>2, Around, ElementOfSeq
    <3> HIDE DEF f, x
    <3>4. /\ \A j \in 1 .. n : s[j].id = Append(t, e)[j].id /\ s[j].qty <= Append(t, e)[j].qty
          /\ \A j \in 1 .. n - 1 : j \in 1 .. n
      BY <2>2, <3>1, <3>2 DEF Below
    <3>5. Below(f, t)
      BY <3>1, <3>3, <3>4 DEF Below
    <3>6. x.qty <= e.qty
      BY <3>1, <3>2, <3>4 DEF x
    <3>7. s = Append(f, x)
      <4> DEFINE g == Append(f, x)
      <4>1. /\ g \in Seq(AnyEntry) /\ Len(g) = Len(f) + 1
            /\ \A j \in 1 .. Len(f) : g[j] = f[j] /\ g[Len(f) + 1] = x
        BY <3>3, AppendProperties
      <4>2. Len(f) + 1 = n /\ g[Len(f) + 1] = x
        BY <3>1, <3>3, AppendProperties
      <4> HIDE DEF g
      <4>3. \A j \in 1 .. n : j \in 1 .. n - 1 \/ j = n
        BY <3>1, <3>2
      <4>4. \A j \in 1 .. n : s[j] = g[j]
        BY <3>3, <4>1, <4>2, <4>3 DEF x
      <4>5. s = g
        BY <3>2, <4>1, <4>2, <4>4, SeqEqual
      <4>6. QED
        BY <4>5 DEF g
    <3>8. /\ QtyOf(s) = QtyOf(f) + x.qty /\ QtyOf(Append(t, e)) = QtyOf(t) + e.qty
      BY <2>1, <3>3, <3>7, QtyOfAppend
    <3>9. /\ QtyOf(f) \in Nat /\ QtyOf(t) \in Nat /\ x.qty \in Nat /\ e.qty \in Nat
          /\ QtyOf(f) <= QtyOf(t)
      BY <1>2, <2>1, <3>3, <3>5, QtyIsNat DEF AnyEntry
    <3>10. \A a, b, c, d \in Nat : a <= b /\ c <= d => a + c <= b + d
      OBVIOUS
    <3>11. QED
      BY <3>6, <3>8, <3>9, <3>10
  <2>3. QED
    BY <2>1, <2>2
<1> HIDE DEF Good
<1>3. w \in Good
  BY <1>1, <1>2, Takes!SeqSetInduction
<1>4. QED
  BY <1>3 DEF Good

LEMMA KeptIds ==
  ASSUME NEW v \in Seq(AnyEntry), NEW T
  PROVE  IdsIn(Kept(v, T)) \subseteq IdsIn(v) /\ (Unique(v) => Unique(Kept(v, T)))
<1> DEFINE Good == {t \in Seq(AnyEntry) : /\ IdsIn(Kept(t, T)) \subseteq IdsIn(t)
                                          /\ Unique(t) => Unique(Kept(t, T))}
<1>1. <<>> \in Good
  BY KeptOfEmpty, EmptySeq
<1>2. ASSUME NEW t \in Seq(AnyEntry), NEW e \in AnyEntry, t \in Good PROVE Append(t, e) \in Good
  <2> DEFINE k == Kept(t, T)
             n == Append(t, e)
  <2>1. k \in Seq(AnyEntry)
    <3>1. k \in Seq(AnyEntry \cap T) /\ AnyEntry \cap T \subseteq AnyEntry
      BY KeptType
    <3> HIDE DEF k
    <3>2. QED
      BY <3>1, SeqMonotonic
  <2>2. IdsIn(k) \subseteq IdsIn(t) /\ (Unique(t) => Unique(k))
    BY <1>2
  <2>3. /\ IdsIn(n) = IdsIn(t) \cup {e.id} /\ n \in Seq(AnyEntry)
        /\ Unique(n) <=> Unique(t) /\ e.id \notin IdsIn(t)
    BY IdsOfAppend, AppendProperties
  <2>4. Kept(n, T) = IF e \in T THEN Append(k, e) ELSE k
    BY KeptOfAppend
  <2> HIDE DEF k, n
  <2>5. /\ IdsIn(Append(k, e)) = IdsIn(k) \cup {e.id}
        /\ Unique(Append(k, e)) <=> Unique(k) /\ e.id \notin IdsIn(k)
    BY <2>1, IdsOfAppend
  <2>6. IdsIn(Kept(n, T)) \subseteq IdsIn(n) /\ (Unique(n) => Unique(Kept(n, T)))
    <3>1. CASE e \in T
      BY <2>2, <2>3, <2>4, <2>5, <3>1
    <3>2. CASE e \notin T
      BY <2>2, <2>3, <2>4, <3>2
    <3>3. QED
      BY <3>1, <3>2
  <2>7. QED
    BY <2>3, <2>6 DEF n
<1> HIDE DEF Good
<1>3. v \in Good
  BY <1>1, <1>2, Takes!SeqSetInduction
<1>4. QED
  BY <1>3 DEF Good

LEMMA StandingType ==
  ASSUME NEW v \in Seq(AnyEntry)
  PROVE  Kept(v, Resting) \in Seq(Resting)
<1>1. AnyEntry \cap Resting = Resting
  BY RestingIsEntry
<1>2. QED
  BY <1>1, KeptType

\* An update of an order in the line, seen by one who has less of the line.
LEMMA UpdateBelow ==
  ASSUME NEW v \in Seq(AnyEntry), NEW w \in Seq(Resting), Below(v, w), Unique(w),
         NEW u \in L3Messages, u.action # "ADD"
  PROVE  /\ Unique(Kept(v, Resting))
         /\ \E n \in Seq(AnyEntry) :
              Below(n, LevelAfter(w, u)) /\ LevelAfter(Kept(v, Resting), u) = Kept(n, Resting)
<1> DEFINE k == Kept(v, Resting)
           m == QtyAfter(u)
<1>1. w \in Seq(AnyEntry)
  BY RestingIsEntry
<1>2. IdsIn(v) = IdsIn(w) /\ Unique(v)
  BY <1>1, BelowIds
<1>3. k \in Seq(Resting) /\ Unique(k) /\ IdsIn(k) \subseteq IdsIn(w)
  BY <1>2, KeptIds, StandingType
<1>4. CASE u.id \notin IdsIn(w)
  <2>1. LevelAfter(k, u) = k /\ LevelAfter(w, u) = w
    BY <1>3, <1>4, LevelAfterAbsent
  <2>2. QED
    BY <1>3, <2>1
<1>5. CASE u.id \in IdsIn(w)
  <2>1. PICK i \in 1 .. Len(w) : w[i].id = u.id
    BY <1>5 DEF IdsIn
  <2> DEFINE e == w[i]
             x == v[i]
  <2>2. e \in Resting /\ x \in AnyEntry /\ e.id = u.id /\ x.id = u.id
    <3>1. i \in 1 .. Len(v)
      BY DEF Below
    <3>2. QED
      BY <2>1, <3>1, ElementOfSeq DEF Below
  <2>3. PICK va \in Seq(AnyEntry), vb \in Seq(AnyEntry), a \in Seq(Resting), b \in Seq(Resting) :
          /\ w = Amid(a, e, b) /\ v = Amid(va, x, vb)
          /\ Below(va, a) /\ Below(vb, b)
    BY BelowParts
  <2> HIDE DEF e, x
  <2> DEFINE ka == Kept(va, Resting)
             kb == Kept(vb, Resting)
             new == Entry(u.id, m)
             none == Entry(u.id, 0)
  <2>4. a \in Seq(AnyEntry) /\ b \in Seq(AnyEntry) /\ e \in AnyEntry
    BY <2>2, RestingIsEntry
  <2>5. /\ u.id \in Nat /\ m \in Nat /\ new \in AnyEntry /\ new.id = u.id /\ new.qty = m
        /\ m # 0 => new \in Resting
        /\ m = 0 => new \notin Resting
    <3>1. u.id \in Nat /\ m \in Nat
      BY DEF L3Messages, QtyAfter
    <3>2. QED
      BY <3>1, EntryOf DEF Resting, Entry
  <2> HIDE DEF m, new
  <2>6. ka \in Seq(Resting) /\ kb \in Seq(Resting)
    BY StandingType
  <2>7. LevelAfter(w, u) = AmidAfter(a, e, b, m)
    <3>1. Unique(Amid(a, e, b)) /\ u.id = e.id
      BY <2>2, <2>3
    <3>2. LevelAfter(Amid(a, e, b), u) = AmidAfter(a, e, b, m)
      BY SMTT(60), <2>2, <3>1, LevelAfterAmid DEF m
    <3>3. QED
      BY <2>3, <3>2
  <2>8. AmidAfter(a, e, b, m) = IF m = 0 THEN a \o b ELSE Amid(a, new, b)
    BY <2>2 DEF AmidAfter, new
  <2>9. /\ Kept(va \o vb, Resting) = ka \o kb
        /\ Kept(Amid(va, new, vb), Resting) = IF new \in Resting THEN Amid(ka, new, kb) ELSE ka \o kb
        /\ Kept(Amid(va, x, vb), Resting) = IF x \in Resting THEN Amid(ka, x, kb) ELSE ka \o kb
    <3>1. Kept(va \o vb, Resting) = ka \o kb
      BY KeptOfConcat
    <3>2. Kept(Amid(va, new, vb), Resting) = IF new \in Resting THEN Amid(ka, new, kb) ELSE ka \o kb
      BY SMTT(60), <2>5, KeptAmid
    <3>3. Kept(Amid(va, x, vb), Resting) = IF x \in Resting THEN Amid(ka, x, kb) ELSE ka \o kb
      BY SMTT(60), <2>2, KeptAmid
    <3>4. QED
      BY <3>1, <3>2, <3>3
  <2>10. /\ va \o vb \in Seq(AnyEntry) /\ Amid(va, new, vb) \in Seq(AnyEntry)
         /\ Below(va \o vb, a \o b)
         /\ m # 0 => Below(Amid(va, new, vb), Amid(a, new, b))
    <3>1. va \o vb \in Seq(AnyEntry) /\ Amid(va, new, vb) \in Seq(AnyEntry)
      BY <2>5, AmidType, ConcatProperties
    <3>2. Below(va \o vb, a \o b)
      BY <2>3, <2>4, BelowConcat
    <3>3. new.qty <= new.qty
      BY <2>5
    <3>4. Below(Amid(va, new, vb), Amid(a, new, b))
      BY <2>3, <2>4, <2>5, <3>3, BelowAmid
    <3>5. QED
      BY <3>1, <3>2, <3>4
  <2>11. CASE x \in Resting
    <3>1. k = Amid(ka, x, kb)
      BY <2>3, <2>9, <2>11
    <3>2. LevelAfter(k, u) = AmidAfter(ka, x, kb, m)
      <4>1. Unique(Amid(ka, x, kb)) /\ u.id = x.id
        BY <1>3, <2>2, <3>1
      <4> HIDE DEF ka, kb, k
      <4>2. LevelAfter(Amid(ka, x, kb), u) = AmidAfter(ka, x, kb, m)
        BY <2>6, <2>11, <4>1, LevelAfterAmid DEF m
      <4>3. QED
        BY <3>1, <4>2
    <3>3. AmidAfter(ka, x, kb, m) = IF m = 0 THEN ka \o kb ELSE Amid(ka, new, kb)
      BY <2>2 DEF AmidAfter, new
    <3> HIDE DEF ka, kb, k
    <3>4. CASE m = 0
      BY <1>3, <2>7, <2>8, <2>9, <2>10, <3>2, <3>3, <3>4 DEF k
    <3>5. CASE m # 0
      BY <1>3, <2>5, <2>7, <2>8, <2>9, <2>10, <3>2, <3>3, <3>5 DEF k
    <3>6. QED
      BY <3>4, <3>5
  <2>12. CASE x \notin Resting
    <3>1. k = ka \o kb
      BY <2>3, <2>9, <2>12
    <3>2. u.id \notin IdsIn(k)
      <4>1. Unique(Amid(va, x, vb))
        BY <1>2, <2>3
      <4>2. u.id \notin IdsIn(va) /\ u.id \notin IdsIn(vb)
        BY <2>2, <4>1, IdsAmid
      <4>3. IdsIn(ka) \subseteq IdsIn(va) /\ IdsIn(kb) \subseteq IdsIn(vb)
        BY KeptIds
      <4> HIDE DEF ka, kb, k
      <4>4. IdsIn(ka \o kb) = IdsIn(ka) \cup IdsIn(kb)
        BY <2>6, IdsOfConcat
      <4>5. QED
        BY <3>1, <4>2, <4>3, <4>4
    <3> HIDE DEF ka, kb, k
    <3>3. LevelAfter(k, u) = k
      BY <1>3, <3>2, LevelAfterAbsent
    <3>4. CASE m = 0
      BY <1>3, <2>7, <2>8, <2>9, <2>10, <3>1, <3>3, <3>4 DEF k
    <3>5. CASE m # 0
      <4>1. x.qty = 0
        BY <2>2, <2>12 DEF AnyEntry, Resting
      <4>2. x.qty <= new.qty /\ x.id = new.id
        BY <2>2, <2>5, <4>1
      <4>3. Below(Amid(va, x, vb), Amid(a, new, b))
        BY <2>2, <2>3, <2>4, <2>5, <4>2, BelowAmid
      <4>4. Below(v, LevelAfter(w, u))
        BY <2>3, <2>7, <2>8, <3>5, <4>3
      <4>5. QED
        BY <1>3, <3>3, <4>4 DEF k
    <3>6. QED
      BY <3>4, <3>5
  <2>13. QED
    BY <2>11, <2>12
<1>6. QED
  BY <1>4, <1>5

\* A trade takes from the list of the orders ahead: there is less in it then.
LEMMA TradeBelow ==
  ASSUME NEW v \in Seq(AnyEntry), NEW qty \in Nat
  PROVE  \E n \in Seq(AnyEntry) : Below(n, v) /\ Consumed(Kept(v, Resting), qty) = Kept(n, Resting)
<1> DEFINE Good == {t \in Seq(AnyEntry) :
                      /\ Run(Kept(t, Resting), qty).left \in Nat
                      /\ \E n \in Seq(AnyEntry) :
                           Below(n, t) /\ Run(Kept(t, Resting), qty).line = Kept(n, Resting)}
<1>1. <<>> \in Good
  <2>1. Run(Kept(<<>>, Resting), qty) = [left |-> qty, line |-> <<>>]
    BY KeptOfEmpty, RunOfEmpty DEF TakenFrom
  <2>2. Below(<<>>, <<>>) /\ <<>> \in Seq(AnyEntry) /\ Kept(<<>>, Resting) = <<>>
    BY EmptySeq, BelowItself, KeptOfEmpty
  <2> DEFINE none == <<>>
             r == Run(Kept(none, Resting), qty)
  <2>3. r.left = qty /\ r.line = none /\ Below(none, none) /\ none \in Seq(AnyEntry)
        /\ Kept(none, Resting) = none
    BY <2>1, <2>2
  <2> HIDE DEF none, r
  <2>4. r.left \in Nat /\ \E n \in Seq(AnyEntry) : Below(n, none) /\ r.line = Kept(n, Resting)
    BY <2>3
  <2>5. none \in Good
    BY <2>3, <2>4 DEF r
  <2>6. QED
    BY <2>5 DEF none
<1>2. ASSUME NEW t \in Seq(AnyEntry), NEW e \in AnyEntry, t \in Good PROVE Append(t, e) \in Good
  <2> DEFINE k == Kept(t, Resting)
             r == Run(k, qty)
             te == Append(t, e)
  <2>1. PICK n \in Seq(AnyEntry) : Below(n, t) /\ r.line = Kept(n, Resting)
    BY <1>2
  <2>2. r.left \in Nat /\ te \in Seq(AnyEntry) /\ k \in Seq(Resting)
    BY <1>2, AppendProperties, StandingType
  <2>3. Kept(te, Resting) = IF e \in Resting THEN Append(k, e) ELSE k
    BY KeptOfAppend
  <2>4. ASSUME NEW x \in AnyEntry, x.id = e.id, x.qty <= e.qty
        PROVE  /\ Append(n, x) \in Seq(AnyEntry) /\ Below(Append(n, x), te)
               /\ Kept(Append(n, x), Resting)
                    = IF x \in Resting THEN Append(Kept(n, Resting), x) ELSE Kept(n, Resting)
    <3> DEFINE o == <<x>>
               p == <<e>>
    <3>1. o \in Seq(AnyEntry) /\ p \in Seq(AnyEntry) /\ Below(o, p)
      BY <2>4, BelowOne
    <3>2. Append(n, x) = n \o o /\ te = t \o p
      BY AppendIsConcat
    <3> HIDE DEF o, p, te
    <3>3. Below(n \o o, t \o p)
      BY <2>1, <3>1, BelowConcat
    <3>4. Append(n, x) \in Seq(AnyEntry)
      BY AppendProperties
    <3>5. QED
      BY ZenonT(60), <3>2, <3>3, <3>4, KeptOfAppend
  <2>5. CASE e \notin Resting
    <3>1. Run(Kept(te, Resting), qty) = r
      BY <2>3, <2>5
    <3>2. e.qty <= e.qty
      BY DEF AnyEntry
    <3>3. /\ Append(n, e) \in Seq(AnyEntry) /\ Below(Append(n, e), te)
          /\ Kept(Append(n, e), Resting) = Kept(n, Resting)
      BY <2>4, <2>5, <3>2
    <3> HIDE DEF r, te
    <3>4. te \in Good
      BY <2>1, <2>2, <3>1, <3>3
    <3>5. QED
      BY <3>4 DEF te
  <2>6. CASE e \in Resting
    <3> DEFINE taken == Lesser(e.qty, r.left)
               x == Entry(e.id, e.qty - taken)
    <3>1. Run(Kept(te, Resting), qty) = TakeFrom(r, e)
      BY <2>2, <2>3, <2>6, RunOfAppend
    <3>2. TakeFrom(r, e) = [left |-> r.left - taken,
                            line |-> IF taken = e.qty THEN r.line ELSE Append(r.line, x)]
      BY DEF TakeFrom
    <3>3. e.id \in Nat /\ e.qty \in Nat \ {0} /\ r.left \in Nat
      BY <2>2, <2>6 DEF Resting
    <3> HIDE DEF r, te
    <3>4. /\ taken \in Nat /\ taken <= e.qty /\ taken <= r.left
          /\ r.left - taken \in Nat /\ e.qty - taken \in Nat
          /\ e.qty - taken <= e.qty
          /\ taken = e.qty <=> e.qty - taken = 0
      BY SMTT(60), <3>3 DEF Lesser
    <3> DEFINE rem == e.qty - taken
    <3> HIDE DEF taken
    <3>5. /\ x \in AnyEntry /\ x.id = e.id /\ x.qty = rem
          /\ rem # 0 => x \in Resting
          /\ rem = 0 => x \notin Resting
      <4>1. rem \in Nat
        BY <3>4
      <4> HIDE DEF rem
      <4>2. Entry(e.id, rem) \in AnyEntry /\ Entry(e.id, rem).id = e.id
            /\ Entry(e.id, rem).qty = rem
            /\ (rem # 0 => Entry(e.id, rem) \in Resting)
            /\ (rem = 0 => Entry(e.id, rem) \notin Resting)
        BY <3>3, <4>1, EntryOf DEF Resting, Entry
      <4>3. QED
        BY <4>2 DEF rem
    <3>6. x.qty <= e.qty
      BY <3>4, <3>5
    <3> HIDE DEF x
    <3>7. /\ Append(n, x) \in Seq(AnyEntry) /\ Below(Append(n, x), te)
          /\ Kept(Append(n, x), Resting)
               = IF x \in Resting THEN Append(Kept(n, Resting), x) ELSE Kept(n, Resting)
      BY <2>4, <3>5, <3>6
    <3>8. TakeFrom(r, e).line = Kept(Append(n, x), Resting)
      BY <2>1, <3>2, <3>4, <3>5, <3>7
    <3>9. TakeFrom(r, e).left \in Nat
      BY <3>2, <3>4
    <3>10. QED
      BY <2>2, <3>1, <3>7, <3>8, <3>9 DEF te
  <2>7. QED
    BY <2>5, <2>6
<1> HIDE DEF Good
<1>3. v \in Good
  BY <1>1, <1>2, Takes!SeqSetInduction
<1>4. \A s : Consumed(s, qty) = Run(s, qty).line
  BY DEF Consumed, Run, TakenFrom
<1>5. QED
  BY <1>3, <1>4 DEF Good

-----------------------------------------------------------------------------
(***************************************************************************)
(* The simulator, its feed and the venue, for any venue and any calls of   *)
(* the strategy.                                                           *)
(***************************************************************************)
SoundState ==
  /\ SoundSim(ex)
  /\ book_l3 \in L3Book
  /\ venue \in L3Book
  /\ truth \in Prices \cup {NoPrice}
  /\ next_id \in Nat
  /\ pending \in Seq(Messages)
  /\ Live(ex) \subseteq DOMAIN entered
  /\ \A k \in BucketKey : \A id : InBucket(ex, k, id) => id \in DOMAIN entered

LEMMA SoundInit == Init => SoundState
<1> SUFFICES ASSUME Init PROVE SoundState
  OBVIOUS
<1> DEFINE none == [k \in BucketKey |-> <<>>]
<1>1. ex = [model |-> "L3Exact", book |-> EmptyBook, orders |-> <<>>, buckets |-> none]
  BY DEF Init, NewExchange
<1>2. none \in [BucketKey -> Seq(OrderId)] /\ \A k \in BucketKey : none[k] = <<>>
  BY EmptySeq
<1> HIDE DEF none
<1>3. /\ ex = [model |-> ex.model, book |-> ex.book, orders |-> ex.orders, buckets |-> ex.buckets]
      /\ ex.orders = <<>> /\ ex.buckets = none
  BY <1>1
<1>4. Live(ex) = {} /\ ex.orders = [id \in Live(ex) |-> ex.orders[id]]
  BY <1>3 DEF Live
<1>5. \A k \in BucketKey : \A id : ~InBucket(ex, k, id)
  BY <1>2, <1>3 DEF InBucket
<1>6. SoundSim(ex)
  BY <1>2, <1>3, <1>4, <1>5 DEF SoundSim
<1>7. EmptyBookL3 \in L3Book
  BY EmptySeq DEF EmptyBookL3, L3Book
<1>8. pending \in Seq(Messages)
  BY EmptySeq DEF Init
<1>9. QED
  BY <1>4, <1>5, <1>6, <1>7, <1>8, L3Assumption DEF Init, SoundState

\* An event of the venue.
LEMMA SoundVenueStep ==
  ASSUME SoundState, UNCHANGED <<sim, past>>, venue' \in L3Book, next_id' \in Nat,
         pending' \in Seq(Messages)
  PROVE  SoundState'
  BY DEF SoundState, sim, past, Live, SoundSim, InBucket

LEMMA VenueAddsIs ==
  ASSUME SoundState, NEW key \in Keys, NEW qty \in VenueQtys, VenueAdds(key, qty)
  PROVE  LET m == Update(key, "ADD", next_id, qty)
         IN  /\ pending = <<>> /\ pending' = <<m>> /\ m \in L3Messages
             /\ Entry(next_id, qty) \in Resting
             /\ venue' = [venue EXCEPT ![key[1]][key[2]] = Append(Line(key), Entry(next_id, qty))]
             /\ next_id' = next_id + 1
             /\ SoundState'
<1> DEFINE line == Append(Line(key), Entry(next_id, qty))
           m    == Update(key, "ADD", next_id, qty)
<1>1. qty \in Nat \ {0} /\ next_id \in Nat /\ venue \in L3Book
  BY L3Assumption DEF SoundState
<1>2. Entry(next_id, qty) \in Resting
  BY <1>1, EntryOf
<1>3. line \in Seq(Resting)
  BY <1>1, <1>2, LineType, AppendProperties DEF Line
<1>4. m \in L3Messages
  BY <1>1, UpdateOf DEF L3Action
<1>5. venue' = [venue EXCEPT ![key[1]][key[2]] = line] /\ pending' = <<m>>
  BY DEF VenueAdds, VenueSets
<1> HIDE DEF line, m
<1>6. venue' \in L3Book
  BY <1>1, <1>3, <1>5, SetLine
<1>7. pending' \in Seq(Messages)
  BY <1>4, <1>5, KindsOfMessages
<1>8. SoundState'
  BY <1>1, <1>6, <1>7, SoundVenueStep DEF VenueAdds
<1>9. QED
  BY <1>2, <1>4, <1>5, <1>8 DEF VenueAdds, line, m

LEMMA VenueChangesIs ==
  ASSUME SoundState, NEW key \in Keys, NEW line \in Seq(Resting), NEW messages \in Seq(Messages),
         VenueChanges(key, line, messages)
  PROVE  SoundState'
<1>1. venue' = [venue EXCEPT ![key[1]][key[2]] = line] /\ pending' = messages
  BY DEF VenueChanges, VenueSets
<1>2. venue' \in L3Book
  BY <1>1, SetLine DEF SoundState
<1>3. QED
  BY <1>1, <1>2, SoundVenueStep DEF VenueChanges, SoundState

LEMMA VenueModifiesIs ==
  ASSUME SoundState, NEW key \in Keys, NEW i \in DOMAIN Line(key), NEW qty \in VenueQtys,
         VenueModifies(key, i, qty)
  PROVE  LET e == Entry(Line(key)[i].id, qty)
             m == Update(key, "MODIFY", Line(key)[i].id, qty)
         IN  /\ i \in 1 .. Len(Line(key)) /\ Line(key) \in Seq(Resting) /\ qty \in Nat \ {0}
             /\ VenueChanges(key, [Line(key) EXCEPT ![i] = e], <<m>>)
             /\ e \in Resting /\ m \in L3Messages
             /\ SoundState'
<1> DEFINE s == Line(key)
           e == Entry(s[i].id, qty)
           m == Update(key, "MODIFY", s[i].id, qty)
<1>1. s \in Seq(Resting) /\ qty \in Nat \ {0}
  BY L3Assumption, LineType DEF SoundState, Line
<1>2. i \in 1 .. Len(s) /\ s[i] \in Resting /\ DOMAIN s = 1 .. Len(s)
  BY <1>1, ElementOfSeq, LenProperties
<1> HIDE DEF s
<1>3. s[i].id \in Nat /\ s[i] = [id |-> s[i].id, qty |-> s[i].qty]
  BY <1>2, RestingOf
<1>4. e \in Resting
  BY <1>1, <1>3, EntryOf
<1>5. m \in L3Messages
  BY <1>1, <1>3, UpdateOf DEF L3Action
<1>6. [s[i] EXCEPT !.qty = qty] = e
  BY <1>3 DEF Entry
<1>7. [s EXCEPT ![i].qty = qty] = [s EXCEPT ![i] = e]
  BY <1>2, <1>6
<1>8. VenueChanges(key, [s EXCEPT ![i] = e], <<m>>)
  BY <1>7 DEF VenueModifies, s
<1> HIDE DEF e, m
<1>9. [s EXCEPT ![i] = e] \in Seq(Resting) /\ <<m>> \in Seq(Messages)
  BY <1>1, <1>2, <1>4, <1>5, ExceptSeq, KindsOfMessages
<1>10. SoundState'
  BY <1>8, <1>9, VenueChangesIs
<1>11. QED
  BY <1>1, <1>2, <1>4, <1>5, <1>8, <1>10 DEF s, e, m

LEMMA VenueDeletesIs ==
  ASSUME SoundState, NEW key \in Keys, NEW i \in DOMAIN Line(key),
         NEW action \in {"MODIFY", "DELETE"}, VenueDeletes(key, i, action)
  PROVE  LET m == Update(key, action, Line(key)[i].id, 0)
         IN  /\ i \in 1 .. Len(Line(key)) /\ Line(key) \in Seq(Resting)
             /\ Line(key)[i] \in Resting
             /\ VenueChanges(key, RemoveAt(Line(key), i), <<m>>)
             /\ m \in L3Messages
             /\ SoundState'
<1> DEFINE s == Line(key)
           m == Update(key, action, s[i].id, 0)
<1>1. s \in Seq(Resting)
  BY LineType DEF SoundState, Line
<1>2. i \in 1 .. Len(s) /\ s[i] \in Resting
  BY <1>1, ElementOfSeq, LenProperties
<1>3. VenueChanges(key, RemoveAt(s, i), <<m>>)
  BY DEF VenueDeletes
<1> HIDE DEF s
<1>4. s[i].id \in Nat
  BY <1>2, RestingOf
<1>5. m \in L3Messages
  BY <1>4, UpdateOf DEF L3Action
<1> HIDE DEF m
<1>6. RemoveAt(s, i) \in Seq(Resting)
  BY <1>1, <1>2, QtyAround, RestingIsEntry
<1>7. <<m>> \in Seq(Messages)
  BY <1>5, KindsOfMessages
<1>8. SoundState'
  BY <1>3, <1>6, <1>7, VenueChangesIs
<1>9. QED
  BY <1>1, <1>2, <1>3, <1>5, <1>8 DEF s, m

LEMMA VenueTradesIs ==
  ASSUME SoundState, NEW key \in Keys, NEW qty \in TradeQtys, VenueTrades(key, qty)
  PROVE  LET done  == Served(Line(key), qty)
             shown == Shown(key, done.served)
             tick  == <<Trade(key, qty)>>
         IN  /\ Line(key) \in Seq(Resting) /\ qty \in Nat \ {0}
             /\ VenueChanges(key, done.line, IF feed_order = "TradeFirst" THEN tick \o shown
                                             ELSE shown \o tick)
             /\ shown \in Seq(Messages) /\ tick \in Seq(Messages)
             /\ SoundState'
<1> DEFINE done  == Served(Line(key), qty)
           shown == Shown(key, done.served)
           tick  == <<Trade(key, qty)>>
<1>1. Line(key) \in Seq(Resting) /\ qty \in Nat \ {0}
  BY L3Assumption, LineType DEF SoundState, Line
<1>2. done.line \in Seq(Resting) /\ done.served \in Seq(AnyEntry)
  BY <1>1, ServedType
<1>3. shown \in Seq(Messages)
  <2>1. shown \in Seq(L3Messages)
    BY <1>2, ShownType
  <2>2. L3Messages \subseteq Messages
    BY DEF Messages
  <2>3. QED
    BY <2>1, <2>2, SeqMonotonic
<1>4. tick \in Seq(Messages)
  BY <1>1, TradeOf, KindsOfMessages
<1>5. VenueChanges(key, done.line, IF feed_order = "TradeFirst" THEN tick \o shown
                                   ELSE shown \o tick)
  BY DEF VenueTrades, Shown
<1> HIDE DEF done, shown, tick
<1>6. shown \o tick \in Seq(Messages) /\ tick \o shown \in Seq(Messages)
  BY <1>3, <1>4, ConcatProperties
<1>7. SoundState'
  BY <1>2, <1>5, <1>6, VenueChangesIs
<1>8. QED
  BY <1>1, <1>3, <1>4, <1>5, <1>7 DEF done, shown, tick

\* The head of what is pending, and the rest.
LEMMA HeadOfPending ==
  ASSUME SoundState, pending # <<>>
  PROVE  Head(pending) \in Messages /\ Tail(pending) \in Seq(Messages)
  BY HeadTailProperties DEF SoundState

LEMMA SoundOnL3Update ==
  ASSUME SoundState, OnL3Update
  PROVE  SoundState' /\ Head(pending) \in L3Messages
<1> DEFINE u == Head(pending)
<1>1. u \in Messages /\ u.kind = "L3Update" /\ Tail(pending) \in Seq(Messages)
  BY HeadOfPending DEF OnL3Update, Shows
<1>2. u \in L3Messages
  BY <1>1, KindsOfMessages
<1>3. ex' = ApplyL3ToOrders(ex, u) /\ book_l3' = ApplyL3(book_l3, u) /\ pending' = Tail(pending)
  BY DEF OnL3Update
<1> HIDE DEF u
<1>4. SoundSim(ex') /\ Live(ex') = Live(ex) /\ ex'.buckets = ex.buckets
  BY <1>2, <1>3, UpdateSim DEF SoundState
<1>5. book_l3' \in L3Book
  BY <1>2, <1>3, ApplyL3Type DEF SoundState
<1>6. \A k, id : InBucket(ex', k, id) <=> InBucket(ex, k, id)
  BY <1>4 DEF InBucket
<1>7. QED
  BY <1>1, <1>2, <1>3, <1>4, <1>5, <1>6 DEF SoundState, OnL3Update, u

LEMMA SoundOnTick ==
  ASSUME SoundState, OnTick
  PROVE  SoundState' /\ Head(pending) \in TradeMessages
<1> DEFINE u == Head(pending)
<1>1. u \in Messages /\ u.kind = "Tick" /\ Tail(pending) \in Seq(Messages)
  BY HeadOfPending DEF OnTick, Shows
<1>2. u \in TradeMessages /\ u.price \in Prices /\ u.qty \in Nat
  BY <1>1, KindsOfMessages
<1>3. ex' = OnTradeL3(ex, u) /\ truth' = u.price /\ pending' = Tail(pending)
  BY DEF OnTick
<1> HIDE DEF u
<1>4. SoundSim(ex') /\ Live(ex') = Live(ex) /\ ex'.buckets = ex.buckets
  BY <1>2, <1>3, TradeSim DEF SoundState
<1>5. \A k, id : InBucket(ex', k, id) <=> InBucket(ex, k, id)
  BY <1>4 DEF InBucket
<1>6. QED
  BY <1>1, <1>2, <1>3, <1>4, <1>5 DEF SoundState, OnTick, past, u

\* The calls of the strategy about an order it has sent.
Calls(id) ==
  OnLimitAck(id) \/ OnMarketAck(id) \/ OnCancel(id) \/ OnCancelAck(id) \/ OnTerminalReport(id)

LEMMA CallsKeep ==
  ASSUME SoundState, NEW id, Calls(id)
  PROVE  /\ SoundSim(ex') /\ Live(ex') \subseteq Live(ex) /\ Keeping(ex, ex')
         /\ \A k \in BucketKey : \A i : InBucket(ex', k, i) => InBucket(ex, k, i)
         /\ UNCHANGED entered /\ FeedWaits
<1>1. SoundSim(ex) /\ book_l3 \in L3Book
  BY DEF SoundState
<1>2. UNCHANGED entered /\ FeedWaits
  BY DEF Calls, OnLimitAck, OnMarketAck, OnCancel, OnCancelAck, OnTerminalReport
<1> DEFINE Same(y) == SoundSim(y) /\ Live(y) = Live(ex) /\ y.buckets = ex.buckets /\ Keeping(ex, y)
<1>3. Same(ex') => /\ SoundSim(ex') /\ Live(ex') \subseteq Live(ex) /\ Keeping(ex, ex')
                   /\ \A k \in BucketKey : \A i : InBucket(ex', k, i) => InBucket(ex, k, i)
  BY DEF InBucket
<1>4. ASSUME NEW s \in SentState \ {"Filled"}, id \in Live(ex), StateOf(ex, id) # "Filled",
             IsTerminal(StateOf(ex, id)) => IsTerminal(s), ex' = SetState(ex, id, s)
      PROVE  Same(ex')
  BY <1>1, <1>4, SetStateSim
<1> HIDE DEF Same
<1>5. CASE OnLimitAck(id)
  <2>1. /\ id \in Live(ex) /\ StateOf(ex, id) = "PendingNew" /\ ex' = SetState(ex, id, "Open")
        /\ "Open" \in SentState \ {"Filled"} /\ ~IsTerminal("PendingNew")
    BY <1>5 DEF OnLimitAck, CanAckNew, AckNew, SentState, OrderState, IsTerminal, Terminal
  <2>2. QED
    BY <1>2, <1>3, <1>4, <2>1
<1>6. CASE OnMarketAck(id)
  <2>1. /\ id \in Live(ex) /\ StateOf(ex, id) = "PendingNew" /\ ex.orders[id].type = "Market"
        /\ ex' = ExecuteMarketL3(ex, book_l3, id, truth)
    BY <1>6 DEF OnMarketAck, CanAckNew
  <2>2. Same(ex')
    BY <1>1, <2>1, ExecuteMarketSim DEF Same
  <2>3. QED
    BY <1>2, <1>3, <2>2
<1>7. CASE OnCancel(id)
  <2>1. /\ id \in Live(ex) /\ StateOf(ex, id) \in {"Open", "PartiallyFilled"}
        /\ ex' = SetState(ex, id, "PendingCancel")
        /\ "PendingCancel" \in SentState \ {"Filled"}
    BY <1>7 DEF OnCancel, CanCancelOrder, CanTransitionTo, LegalTransition, CancelOrder, SentState, OrderState
  <2>2. ~IsTerminal(StateOf(ex, id)) /\ StateOf(ex, id) # "Filled"
    BY <2>1 DEF IsTerminal, Terminal
  <2>3. QED
    BY <1>2, <1>3, <1>4, <2>1, <2>2
<1>8. CASE OnCancelAck(id)
  <2>1. /\ id \in Live(ex) /\ StateOf(ex, id) = "PendingCancel"
        /\ ex' = SetState(ex, id, "Cancelled")
        /\ "Cancelled" \in SentState \ {"Filled"} /\ ~IsTerminal("PendingCancel")
    BY <1>8 DEF OnCancelAck, CanAckCancel, AckCancel, SentState, OrderState, IsTerminal, Terminal
  <2>2. QED
    BY <1>2, <1>3, <1>4, <2>1
<1>9. CASE OnTerminalReport(id)
  <2>1. id \in Live(ex) /\ ex' = RemoveOrder(ex, id)
    BY <1>9 DEF OnTerminalReport
  <2>2. /\ SoundSim(ex') /\ Live(ex') = Live(ex) \ {id} /\ Keeping(ex, ex')
        /\ \A k \in BucketKey : \A i : InBucket(ex', k, i) => InBucket(ex, k, i)
    BY <1>1, <2>1, RemovedSim
  <2>3. QED
    BY <1>2, <2>2
<1>10. QED
  BY <1>5, <1>6, <1>7, <1>8, <1>9 DEF Calls

LEMMA SoundCalls ==
  ASSUME SoundState, NEW id, Calls(id)
  PROVE  SoundState'
  BY CallsKeep DEF SoundState, FeedWaits

\* A new order.
LEMMA OrderIs ==
  ASSUME SoundState, NEW id \in OrderIds, NEW o \in LimitOrders \cup MarketOrders, OnOrder(id, o)
  PROVE  /\ SoundSim(ex') /\ Live(ex') = Live(ex) \cup {id} /\ Keeping(ex, ex')
         /\ id \notin Live(ex) /\ id \notin DOMAIN entered
         /\ o.side \in BookSide /\ o.price \in Prices
         /\ ex'.orders[id].queue = RegisterL3(book_l3, id, o)
         /\ ex'.orders[id].side = o.side /\ ex'.orders[id].price = o.price
         /\ DOMAIN entered' = DOMAIN entered \cup {id}
         /\ entered'[id] = IdsAt(<<o.side, o.price>>)
         /\ \A i \in DOMAIN entered : entered'[i] = entered[i]
         /\ FeedWaits
         /\ SoundState'
<1>1. SoundSim(ex) /\ book_l3 \in L3Book /\ id \notin DOMAIN entered /\ id \notin Live(ex)
      /\ \A k \in BucketKey : ~InBucket(ex, k, id)
  BY DEF SoundState, OnOrder
<1>2. id \in OrderId
  BY L3Assumption
<1>3. o \in [side : BookSide, type : OrderType, price : Prices, qty : OrderQtys]
  BY L3Assumption DEF LimitOrders, MarketOrders, OrderType
<1>4. ex' = Submitted(ex, book_l3, id, o)
  BY DEF OnOrder, Submitted
<1>5. /\ SoundSim(ex') /\ Live(ex') = Live(ex) \cup {id} /\ Keeping(ex, ex')
      /\ ex'.orders[id].queue = RegisterL3(book_l3, id, o)
      /\ ex'.orders[id].side = o.side /\ ex'.orders[id].price = o.price
      /\ \A k \in BucketKey : \A i : InBucket(ex', k, i) => i = id \/ InBucket(ex, k, i)
  BY <1>1, <1>2, <1>3, <1>4, SubmittedSim
<1>6. /\ DOMAIN entered' = DOMAIN entered \cup {id}
      /\ entered'[id] = IdsAt(<<o.side, o.price>>)
      /\ \A i \in DOMAIN entered : entered'[i] = entered[i]
  BY <1>1 DEF OnOrder, Insert
<1>7. FeedWaits
  BY DEF OnOrder
<1>8. SoundState'
  BY <1>5, <1>6, <1>7 DEF SoundState, FeedWaits
<1>9. QED
  BY <1>1, <1>3, <1>5, <1>6, <1>7, <1>8

LEMMA SoundNext == SoundState /\ [Next]_vars => SoundState'
<1> SUFFICES ASSUME SoundState, [Next]_vars PROVE SoundState'
  OBVIOUS
<1>1. ASSUME NEW key \in Keys, NEW qty \in VenueQtys, VenueAdds(key, qty) PROVE SoundState'
  BY <1>1, VenueAddsIs
<1>2. ASSUME NEW key \in Keys, NEW i \in DOMAIN Line(key), NEW qty \in VenueQtys,
             VenueModifies(key, i, qty) PROVE SoundState'
  BY <1>2, VenueModifiesIs
<1>3. ASSUME NEW key \in Keys, NEW i \in DOMAIN Line(key), NEW action \in {"MODIFY", "DELETE"},
             VenueDeletes(key, i, action) PROVE SoundState'
  BY <1>3, VenueDeletesIs
<1>4. ASSUME NEW key \in Keys, NEW qty \in TradeQtys, VenueTrades(key, qty) PROVE SoundState'
  BY <1>4, VenueTradesIs
<1>5. CASE OnL3Update
  BY <1>5, SoundOnL3Update
<1>6. CASE OnTick
  BY <1>6, SoundOnTick
<1>7. ASSUME NEW id \in OrderIds, NEW o \in LimitOrders \cup MarketOrders, OnOrder(id, o)
      PROVE SoundState'
  BY <1>7, OrderIs
<1>8. ASSUME NEW id \in OrderIds, Calls(id) PROVE SoundState'
  BY <1>8, SoundCalls
<1>9. CASE UNCHANGED vars
  BY <1>9 DEF vars, sim, past, SoundState, Live, SoundSim, InBucket
<1>10. QED
  BY <1>1, <1>2, <1>3, <1>4, <1>5, <1>6, <1>7, <1>8, <1>9 DEF Next, Calls

(***************************************************************************)
(* In every reachable state the simulator is sound: its book and orders    *)
(* are well formed, what is still to be shown are messages of the feed,    *)
(* and every live order's counter is the sum of its own list (or the order *)
(* is first in line for good).                                             *)
(***************************************************************************)
THEOREM SimulatorSound == Spec => []SoundState
  BY SoundInit, SoundNext, PTL DEF Spec

(***************************************************************************)
(* Type correctness: in every reachable state every field keeps its type,  *)
(* filled and remaining quantity add up, and what on_l3_update subtracts   *)
(* from the total ahead never takes it below zero.                         *)
(***************************************************************************)
THEOREM L3TypeCorrect == Spec => []TypeOK
<1>1. SoundState => TypeOK
  <2> SUFFICES ASSUME SoundState PROVE TypeOK
    OBVIOUS
  <2>1. \A id \in Live(ex) : ex.orders[id] \in L3Order /\ Conserved(ex.orders[id])
    BY DEF SoundState, SoundSim, SoundOrder
  <2>2. QED
    BY <2>1 DEF TypeOK, SoundState, L3Order, L3Book, Resting, SentState
<1>2. QED
  BY <1>1, SimulatorSound, PTL

(***************************************************************************)
(* The total that decides about fills and the list that follows the feed   *)
(* never disagree.                                                         *)
(***************************************************************************)
THEOREM AheadAlwaysAddsUp == Spec => []AheadAddsUp
<1>1. SoundState => AheadAddsUp
  BY DEF SoundState, SoundSim, SoundOrder, SoundQueue, AheadAddsUp
<1>2. QED
  BY <1>1, SimulatorSound, PTL

(***************************************************************************)
(* A limit order that was filled in part is first in line for good.        *)
(***************************************************************************)
THEOREM FirstOnceFilledForGood == Spec => []FirstOnceFilled
<1>1. SoundState => FirstOnceFilled
  BY DEF SoundState, SoundSim, SoundOrder, FirstOnceFilled
<1>2. QED
  BY <1>1, SimulatorSound, PTL

-----------------------------------------------------------------------------
(***************************************************************************)
(* The book follows the venue: apart from what is pending, they are the    *)
(* same.  The ids tell the venue's orders apart, which is why an update    *)
(* finds the order it is about.                                            *)
(***************************************************************************)
\* Every order in the book has an id of its own, one the venue has given out.
Numbered(book, next) ==
  \A s \in BookSide, p \in Prices :
    /\ Unique(book[s][p])
    /\ \A id \in IdsIn(book[s][p]) : id \in Nat /\ FirstVenueId <= id /\ id < next

NoAdds(messages) ==
  \A j \in 1 .. Len(messages) : messages[j].kind = "L3Update" => messages[j].action # "ADD"

\* An order that the venue has and the simulator has not seen yet.
Unseen(id) ==
  /\ \A s \in BookSide, p \in Prices : id \notin IdsIn(book_l3[s][p])
  /\ \A i \in DOMAIN entered : id \notin entered[i]

AddsAlone ==
  NoAdds(pending) \/ \E u \in L3Messages : u.action = "ADD" /\ pending = <<u>> /\ Unseen(u.id)

(***************************************************************************)
(* Once all that is pending is applied, the simulator's book is the        *)
(* venue's.  For one step to preserve that, numbers must name one order    *)
(* each, and an addition must come alone, about an order not seen before.  *)
(***************************************************************************)
FollowInv ==
  /\ SoundState
  /\ Seen(book_l3, pending) = venue
  /\ Numbered(venue, next_id) /\ Numbered(book_l3, next_id)
  /\ FirstVenueId <= next_id
  /\ \A i \in DOMAIN entered : \A id \in entered[i] : id \in Nat /\ id < next_id
  /\ AddsAlone

LEMMA NumberedWithLine ==
  ASSUME NEW book \in L3Book, NEW next \in Nat, Numbered(book, next),
         NEW key \in Keys, NEW line \in Seq(Resting), Unique(line),
         IdsIn(line) \subseteq IdsIn(book[key[1]][key[2]])
  PROVE  Numbered(WithLine(book, key, line), next)
<1>1. key[1] \in BookSide /\ key[2] \in Prices
  BY LineType
<1>2. \A s \in BookSide, p \in Prices :
        WithLine(book, key, line)[s][p] = IF s = key[1] /\ p = key[2] THEN line ELSE book[s][p]
  BY ZenonT(60), SetLine DEF WithLine
<1> DEFINE y == WithLine(book, key, line)
<1> HIDE DEF y
<1>3. QED
  BY <1>1, <1>2 DEF Numbered, y

\* The line of a price after an update of an order that was in it.
LEMMA AfterUpdate ==
  ASSUME NEW book \in L3Book, NEW key \in Keys,
         NEW u \in L3Messages, u.side = key[1], u.price = key[2]
  PROVE  AfterMessage(book, u) = WithLine(book, key, LevelAfter(book[key[1]][key[2]], u))
<1>1. u.kind = "L3Update"
  BY KindsOfMessages
<1>2. QED
  BY <1>1 DEF AfterMessage, ApplyL3, WithLine

LEMMA UpToDateBook ==
  ASSUME FollowInv, pending = <<>>
  PROVE  book_l3 = venue
  BY SeenNone DEF FollowInv

LEMMA FollowInit == Init => FollowInv
<1> SUFFICES ASSUME Init PROVE FollowInv
  OBVIOUS
<1>1. SoundState
  BY SoundInit
<1>2. Seen(book_l3, pending) = venue
  BY SeenNone DEF Init
<1>3. Numbered(EmptyBookL3, next_id)
  BY IdsOfNone DEF Numbered, EmptyBookL3
<1>4. DOMAIN entered = {}
  BY DEF Init
<1>5. NoAdds(pending)
  BY EmptySeq DEF Init, NoAdds
<1>6. QED
  BY <1>1, <1>2, <1>3, <1>4, <1>5, L3Assumption DEF Init, FollowInv, AddsAlone

-----------------------------------------------------------------------------
LEMMA FollowVenueAdds ==
  ASSUME FollowInv, NEW key \in Keys, NEW qty \in VenueQtys, VenueAdds(key, qty)
  PROVE  FollowInv'
<1> DEFINE m == Update(key, "ADD", next_id, qty)
           e == Entry(next_id, qty)
           l == Line(key)
           y == WithLine(venue, key, Append(l, e))
<1>0. SoundState /\ venue \in L3Book /\ next_id \in Nat
  BY DEF FollowInv, SoundState
<1>1. /\ pending = <<>> /\ pending' = <<m>> /\ m \in L3Messages /\ e \in Resting
      /\ venue' = y /\ next_id' = next_id + 1 /\ SoundState'
  BY <1>0, VenueAddsIs DEF WithLine
<1>2. /\ qty \in Nat \ {0} /\ e.id = next_id
      /\ m.action = "ADD" /\ m.id = next_id /\ m.qty = qty /\ m.side = key[1] /\ m.price = key[2]
  <2>1. qty \in Nat \ {0}
    BY L3Assumption
  <2>2. "ADD" \in L3Action /\ qty \in Nat /\ qty > 0
    BY <2>1 DEF L3Action
  <2>3. e.id = next_id
    BY <1>0, <2>2, EntryOf
  <2>4. /\ m.side = key[1] /\ m.price = key[2]
        /\ m.action = "ADD" /\ m.id = next_id /\ m.qty = qty
    BY <1>0, <2>2, UpdateOf
  <2>5. QED
    BY <2>1, <2>3, <2>4
<1>3. l \in Seq(Resting) /\ l = venue[key[1]][key[2]]
  BY <1>0, LineType DEF Line
<1>4. UNCHANGED <<book_l3, entered>>
  BY DEF VenueAdds, sim, past
<1>5. book_l3 = venue
  BY <1>1, UpToDateBook
<1>6. LevelAfter(l, m) = Append(l, e)
  BY <1>2 DEF LevelAfter
<1> HIDE DEF m, e, l
<1>7. Seen(venue, <<m>>) = y
  BY ZenonT(60), <1>0, <1>1, <1>2, <1>3, <1>6, SeenOne, AfterUpdate
<1>8. /\ \A s \in BookSide, p \in Prices : y[s][p] = IF s = key[1] /\ p = key[2] THEN Append(l, e)
                                                    ELSE venue[s][p]
      /\ key[1] \in BookSide /\ key[2] \in Prices
  <2> DEFINE k == Append(l, e)
  <2>1. k \in Seq(Resting)
    BY <1>1, <1>3, AppendProperties
  <2> HIDE DEF k
  <2>2. \A s \in BookSide, p \in Prices :
          WithLine(venue, key, k)[s][p] = IF s = key[1] /\ p = key[2] THEN k ELSE venue[s][p]
    BY ZenonT(60), <1>0, <2>1, SetLine DEF WithLine
  <2>3. QED
    BY <1>0, <2>2, LineType DEF k
<1> HIDE DEF y
<1>9. Numbered(venue, next_id) /\ FirstVenueId <= next_id /\ FirstVenueId \in Nat
  BY L3Assumption DEF FollowInv
<1>10. Numbered(venue, next_id + 1) /\ FirstVenueId <= next_id + 1
  <2>1. \A x \in Nat : x < next_id => x < next_id + 1
    BY <1>0
  <2>2. QED
    BY <1>0, <1>9, <2>1 DEF Numbered
<1>11. Numbered(y, next_id + 1)
  <2>1. /\ Unique(l) /\ \A id \in IdsIn(l) : id \in Nat /\ id < next_id
    BY <1>3, <1>8, <1>9 DEF Numbered
  <2>2. next_id \notin IdsIn(l)
    BY <1>0, <2>1
  <2>3. /\ IdsIn(Append(l, e)) = IdsIn(l) \cup {next_id}
        /\ Unique(Append(l, e))
    BY <1>1, <1>2, <1>3, <2>1, <2>2, IdsOfAppend
  <2>4. next_id \in Nat /\ FirstVenueId <= next_id /\ next_id < next_id + 1
    BY <1>0, <1>9
  <2>5. \A id \in IdsIn(Append(l, e)) : id \in Nat /\ FirstVenueId <= id /\ id < next_id + 1
    BY <1>3, <1>8, <1>10, <2>3, <2>4 DEF Numbered
  <2>6. QED
    BY <1>8, <1>10, <2>3, <2>5 DEF Numbered
<1>12. Unseen(next_id)
  <2>1. \A s \in BookSide, p \in Prices : next_id \notin IdsIn(book_l3[s][p])
    BY <1>0, <1>5, <1>9 DEF Numbered
  <2>2. \A i \in DOMAIN entered : next_id \notin entered[i]
    BY <1>0 DEF FollowInv
  <2>3. QED
    BY <2>1, <2>2 DEF Unseen
<1>13. AddsAlone'
  BY <1>1, <1>2, <1>4, <1>12 DEF AddsAlone, Unseen
<1>14. \A i \in DOMAIN entered : \A id \in entered[i] : id \in Nat /\ id < next_id + 1
  <2>1. \A x \in Nat : x < next_id => x < next_id + 1
    BY <1>0
  <2>2. QED
    BY <2>1 DEF FollowInv
<1>15. QED
  BY <1>1, <1>4, <1>5, <1>7, <1>10, <1>11, <1>13, <1>14 DEF FollowInv

LEMMA FollowVenueChanges ==
  ASSUME FollowInv, SoundState', NEW key \in Keys, NEW line \in Seq(Resting),
         NEW messages \in Seq(Messages), VenueChanges(key, line, messages),
         Seen(venue, messages) = WithLine(venue, key, line), NoAdds(messages),
         Unique(line), IdsIn(line) \subseteq IdsIn(Line(key))
  PROVE  FollowInv'
<1>1. /\ pending = <<>> /\ pending' = messages /\ venue' = WithLine(venue, key, line)
      /\ UNCHANGED <<book_l3, entered, next_id>>
  BY DEF VenueChanges, VenueSets, WithLine, sim, past
<1>2. book_l3 = venue
  BY <1>1, UpToDateBook
<1>3. /\ venue \in L3Book /\ next_id \in Nat /\ Numbered(venue, next_id) /\ Numbered(book_l3, next_id)
      /\ FirstVenueId <= next_id
      /\ \A i \in DOMAIN entered : \A id \in entered[i] : id \in Nat /\ id < next_id
  BY DEF FollowInv, SoundState
<1> DEFINE y == WithLine(venue, key, line)
<1>4. Numbered(y, next_id)
  BY <1>3, NumberedWithLine DEF Line
<1> HIDE DEF y
<1>5. AddsAlone'
  BY <1>1 DEF AddsAlone
<1>6. Seen(venue, messages) = y /\ venue' = y
  BY <1>1 DEF y
<1>7. QED
  BY <1>1, <1>2, <1>3, <1>4, <1>5, <1>6 DEF FollowInv

\* One update of an order in the line.
LEMMA OneUpdate ==
  ASSUME NEW book \in L3Book, NEW key \in Keys, NEW u \in L3Messages, u.action # "ADD",
         u.side = key[1], u.price = key[2], Unique(book[key[1]][key[2]])
  PROVE  LET l == LevelAfter(book[key[1]][key[2]], u)
         IN  /\ l \in Seq(Resting)
             /\ Seen(book, <<u>>) = WithLine(book, key, l) /\ NoAdds(<<u>>)
             /\ Unique(l) /\ IdsIn(l) \subseteq IdsIn(book[key[1]][key[2]])
<1> DEFINE s == book[key[1]][key[2]]
           l == LevelAfter(s, u)
<1>1. s \in Seq(Resting)
  BY LineType
<1>2. Seen(book, <<u>>) = WithLine(book, key, l)
  BY SeenOne, AfterUpdate
<1>3. NoAdds(<<u>>)
  BY DEF NoAdds
<1>4. Unique(l) /\ IdsIn(l) \subseteq IdsIn(s)
  BY <1>1, LevelAfterUnique
<1>5. l \in Seq(Resting)
  BY <1>1, LevelAfterType
<1>6. QED
  BY <1>2, <1>3, <1>4, <1>5

LEMMA FollowVenueModifies ==
  ASSUME FollowInv, NEW key \in Keys, NEW i \in DOMAIN Line(key), NEW qty \in VenueQtys,
         VenueModifies(key, i, qty)
  PROVE  FollowInv'
<1> DEFINE s == Line(key)
           x == s[i]
           n == Entry(x.id, qty)
           u == Update(key, "MODIFY", x.id, qty)
           t == [s EXCEPT ![i] = n]
<1>0. SoundState /\ venue \in L3Book
  BY DEF FollowInv, SoundState
<1>1. /\ i \in 1 .. Len(s) /\ s \in Seq(Resting) /\ qty \in Nat \ {0}
      /\ VenueChanges(key, t, <<u>>) /\ n \in Resting /\ u \in L3Messages /\ SoundState'
  BY <1>0, VenueModifiesIs
<1>2. PICK a \in Seq(Resting), b \in Seq(Resting) :
        x \in Resting /\ s = Amid(a, x, b) /\ i = Len(a) + 1
  BY <1>1, PlaceIsAmid
<1>3. Unique(s) /\ s = venue[key[1]][key[2]]
  BY <1>0, LineType DEF FollowInv, Numbered, Line
<1>4. /\ u.action # "ADD" /\ u.id = x.id /\ QtyAfter(u) = qty
      /\ u.side = key[1] /\ u.price = key[2]
  <2>1. x.id \in Nat
    BY <1>2 DEF Resting
  <2>2. QED
    BY <1>1, <2>1, UpdateOf DEF L3Action, QtyAfter
<1> HIDE DEF s, x, u, n
<1>5. t = Amid(a, n, b)
  BY <1>1, <1>2, ChangeAmid
<1>6. LevelAfter(s, u) = AmidAfter(a, x, b, QtyAfter(u))
  <2>1. Unique(Amid(a, x, b)) /\ u \in L3Messages
    BY <1>1, <1>2, <1>3
  <2>2. LevelAfter(Amid(a, x, b), u) = AmidAfter(a, x, b, QtyAfter(u))
    BY <1>2, <1>4, <2>1, LevelAfterAmid
  <2>3. QED
    BY <1>2, <2>2
<1>7. LevelAfter(s, u) = t
  BY <1>1, <1>4, <1>5, <1>6 DEF AmidAfter, n
<1> HIDE DEF t
<1>8. /\ t \in Seq(Resting) /\ Seen(venue, <<u>>) = WithLine(venue, key, t) /\ NoAdds(<<u>>)
      /\ Unique(t) /\ IdsIn(t) \subseteq IdsIn(s)
  BY <1>0, <1>1, <1>3, <1>4, <1>7, OneUpdate
<1>9. <<u>> \in Seq(Messages)
  BY <1>1, KindsOfMessages
<1>10. QED
  BY <1>1, <1>8, <1>9, FollowVenueChanges DEF s

LEMMA FollowVenueDeletes ==
  ASSUME FollowInv, NEW key \in Keys, NEW i \in DOMAIN Line(key),
         NEW action \in {"MODIFY", "DELETE"}, VenueDeletes(key, i, action)
  PROVE  FollowInv'
<1> DEFINE s == Line(key)
           x == s[i]
           none == 0
           u == Update(key, action, x.id, 0)
           t == RemoveAt(s, i)
<1>0. SoundState /\ venue \in L3Book
  BY DEF FollowInv, SoundState
<1>1. /\ i \in 1 .. Len(s) /\ s \in Seq(Resting) /\ x \in Resting
      /\ VenueChanges(key, t, <<u>>) /\ u \in L3Messages /\ SoundState'
  BY <1>0, VenueDeletesIs
<1>2. PICK a \in Seq(Resting), b \in Seq(Resting) :
        x \in Resting /\ s = Amid(a, x, b) /\ i = Len(a) + 1
  BY <1>1, PlaceIsAmid
<1>3. Unique(s) /\ s = venue[key[1]][key[2]]
  BY <1>0, LineType DEF FollowInv, Numbered, Line
<1>4. /\ u.action # "ADD" /\ u.id = x.id /\ QtyAfter(u) = 0
      /\ u.side = key[1] /\ u.price = key[2]
  BY DEF Update, QtyAfter
<1> HIDE DEF s, x, u
<1>5. t = a \o b
  BY ZenonT(60), <1>1, <1>2, RemoveAmid
<1>6. LevelAfter(s, u) = AmidAfter(a, x, b, QtyAfter(u))
  BY ZenonT(60), <1>1, <1>2, <1>3, <1>4, LevelAfterAmid
<1>7. LevelAfter(s, u) = t
  BY <1>4, <1>5, <1>6 DEF AmidAfter
<1> HIDE DEF t
<1>8. /\ t \in Seq(Resting) /\ Seen(venue, <<u>>) = WithLine(venue, key, t) /\ NoAdds(<<u>>)
      /\ Unique(t) /\ IdsIn(t) \subseteq IdsIn(s)
  BY <1>0, <1>1, <1>3, <1>4, <1>7, OneUpdate
<1>9. <<u>> \in Seq(Messages)
  BY <1>1, KindsOfMessages
<1>10. QED
  BY <1>1, <1>8, <1>9, FollowVenueChanges DEF s

LEMMA NoAddsConcat ==
  ASSUME NEW E, NEW a \in Seq(E), NEW b \in Seq(E), NoAdds(a), NoAdds(b)
  PROVE  NoAdds(a \o b)
<1> DEFINE c == a \o b
<1>1. /\ Len(c) = Len(a) + Len(b)
      /\ \A j \in 1 .. Len(a) : c[j] = a[j]
      /\ \A j \in 1 .. Len(b) : c[Len(a) + j] = b[j]
      /\ \A j \in 1 .. Len(a) + Len(b) : j \in 1 .. Len(a) \/ \E i \in 1 .. Len(b) : j = Len(a) + i
  BY PlacesOfConcat
<1> HIDE DEF c
<1>2. QED
  BY <1>1 DEF NoAdds, c

LEMMA NoAddsShown ==
  ASSUME NEW key \in Keys, NEW v \in Seq(AnyEntry)
  PROVE  NoAdds(Shown(key, v))
<1>1. \A i \in 1 .. Len(v) : v[i] \in AnyEntry
  BY SMTT(60), ElementOfSeq
<1>2. QED
  BY <1>1, ShownType, ShowType DEF NoAdds

\* What the feed shows of a trade.
LEMMA VenueTradesShown ==
  ASSUME FollowInv, NEW key \in Keys, NEW qty \in TradeQtys, VenueTrades(key, qty)
  PROVE  LET done  == Served(Line(key), qty)
             shown == Shown(key, done.served)
             tick  == <<Trade(key, qty)>>
         IN  /\ Line(key) \in Seq(Resting) /\ Line(key) = book_l3[key[1]][key[2]]
             /\ qty \in Nat \ {0}
             /\ pending' = IF feed_order = "TradeFirst" THEN tick \o shown ELSE shown \o tick
             /\ venue' = WithLine(venue, key, done.line)
             /\ Seen(venue, shown) = WithLine(venue, key, done.line)
             /\ LeavesOf(done, Line(key)) /\ Unique(Line(key))
             /\ FollowInv'
<1> DEFINE s == Line(key)
           done  == Served(s, qty)
           shown == Shown(key, done.served)
           m == Trade(key, qty)
           tick  == <<m>>
           all == IF feed_order = "TradeFirst" THEN tick \o shown ELSE shown \o tick
<1>0. SoundState /\ venue \in L3Book
  BY DEF FollowInv, SoundState
<1>1. /\ s \in Seq(Resting) /\ qty \in Nat \ {0} /\ qty \in Nat
      /\ VenueChanges(key, done.line, all)
      /\ shown \in Seq(Messages) /\ tick \in Seq(Messages)
      /\ SoundState'
  BY <1>0, VenueTradesIs
<1>2. Unique(s) /\ s = venue[key[1]][key[2]]
  BY SMTT(60), <1>0, LineType DEF FollowInv, Numbered, Line
<1>3. Seen(venue, shown) = WithLine(venue, key, done.line) /\ LeavesOf(done, s)
  BY <1>0, <1>1, <1>2, TradeIsShown
<1>4. m.kind = "Tick"
  BY DEF Trade
<1> HIDE DEF s, m
<1>5. done.line \in Seq(Resting) /\ done.served \in Seq(AnyEntry)
  BY SMTT(60), <1>3 DEF LeavesOf, Serving
<1>6. Unique(done.line) /\ IdsIn(done.line) \subseteq IdsIn(s)
  BY <1>2, <1>3 DEF LeavesOf
<1> HIDE DEF done
<1>7. NoAdds(shown) /\ NoAdds(tick)
  BY <1>4, <1>5, NoAddsShown DEF NoAdds
<1>8. \A book : Seen(book, tick) = book
  BY <1>4, SeenOne DEF AfterMessage
<1> HIDE DEF tick, shown
<1>9. /\ Seen(venue, tick \o shown) = Seen(venue, shown)
      /\ Seen(venue, shown \o tick) = Seen(venue, shown)
  <2>1. Seen(venue, tick \o shown) = Seen(Seen(venue, tick), shown)
    BY <1>1, SeenConcat
  <2>2. Seen(venue, shown \o tick) = Seen(Seen(venue, shown), tick)
    BY <1>1, SeenConcat
  <2>3. QED
    BY <1>8, <2>1, <2>2
<1>10. NoAdds(tick \o shown) /\ NoAdds(shown \o tick)
  BY <1>1, <1>7, NoAddsConcat
<1>11. tick \o shown \in Seq(Messages) /\ shown \o tick \in Seq(Messages)
  BY <1>1, ConcatProperties
<1>12. all \in Seq(Messages) /\ Seen(venue, all) = WithLine(venue, key, done.line) /\ NoAdds(all)
  BY <1>3, <1>9, <1>10, <1>11
<1>13. FollowInv'
  <2> HIDE DEF all
  <2>1. QED
    BY <1>1, <1>5, <1>6, <1>12, FollowVenueChanges DEF s
<1>14. pending' = all /\ venue' = WithLine(venue, key, done.line) /\ pending = <<>>
  BY <1>1 DEF VenueChanges, VenueSets, WithLine
<1>15. book_l3 = venue
  BY <1>14, UpToDateBook
<1>16. QED
  BY ZenonT(60), <1>1, <1>2, <1>3, <1>13, <1>14, <1>15 DEF s, done, shown, tick, m

-----------------------------------------------------------------------------
LEMMA NoAddsTail ==
  ASSUME NEW E, NEW s \in Seq(E), s # <<>>, NoAdds(s)
  PROVE  NoAdds(Tail(s)) /\ (Head(s).kind = "L3Update" => Head(s).action # "ADD")
<1> DEFINE t == Tail(s)
<1>1. /\ Len(t) = Len(s) - 1 /\ Head(s) = s[1] /\ \A j \in 1 .. Len(t) : t[j] = s[j + 1]
      /\ Len(s) \in Nat /\ Len(s) # 0
  BY HeadTailProperties, LenProperties, EmptySeq
<1> HIDE DEF t
<1>2. 1 \in 1 .. Len(s) /\ \A j \in 1 .. Len(t) : j + 1 \in 1 .. Len(s)
  BY <1>1
<1>3. QED
  BY <1>1, <1>2 DEF NoAdds, t

LEMMA FollowOnL3Update ==
  ASSUME FollowInv, OnL3Update
  PROVE  /\ FollowInv'
         /\ Head(pending) \in L3Messages
         /\ (Head(pending).action = "ADD" =>
               pending = <<Head(pending)>> /\ Unseen(Head(pending).id) /\ book_l3' = venue)
<1> DEFINE u == Head(pending)
           rest == Tail(pending)
<1>0. SoundState /\ book_l3 \in L3Book /\ next_id \in Nat /\ pending \in Seq(Messages)
  BY DEF FollowInv, SoundState
<1>1. /\ pending # <<>> /\ u.kind = "L3Update" /\ pending' = rest
      /\ book_l3' = ApplyL3(book_l3, u) /\ UNCHANGED <<venue, next_id, entered>>
  BY DEF OnL3Update, Shows
<1>2. SoundState' /\ u \in L3Messages
  BY <1>0, SoundOnL3Update
<1>3. Seen(book_l3, pending) = Seen(AfterMessage(book_l3, u), rest)
  BY <1>0, <1>1, SeenHead
<1>4. AfterMessage(book_l3, u) = book_l3'
  BY <1>1 DEF AfterMessage
<1>5. Seen(book_l3', rest) = venue /\ Seen(book_l3, pending) = venue
  BY <1>3, <1>4 DEF FollowInv
<1>6. ASSUME NEW w \in L3Messages, w.action = "ADD", pending = <<w>>, Unseen(w.id)
      PROVE  /\ u = w /\ book_l3' = venue /\ Numbered(book_l3', next_id) /\ AddsAlone'
  <2>1. u = w /\ rest = <<>>
    BY <1>6
  <2>2. book_l3' = venue
    BY <1>5, <2>1, SeenNone
  <2>3. NoAdds(rest)
    BY <2>1 DEF NoAdds
  <2>4. QED
    BY <1>1, <2>1, <2>2, <2>3 DEF AddsAlone, FollowInv
<1>7. ASSUME NoAdds(pending)
      PROVE  u.action # "ADD" /\ Numbered(book_l3', next_id) /\ AddsAlone'
  <2>1. u.action # "ADD" /\ NoAdds(rest)
    BY <1>0, <1>1, <1>7, NoAddsTail
  <2> DEFINE key == <<u.side, u.price>>
             s == book_l3[u.side][u.price]
             l == LevelAfter(s, u)
  <2>2. u.side \in BookSide /\ u.price \in Prices
    BY <1>2 DEF L3Messages
  <2>3. s \in Seq(Resting)
    BY <1>0, <2>2 DEF L3Book
  <2>4. Unique(s)
    BY <2>2 DEF FollowInv, Numbered
  <2>5. l \in Seq(Resting) /\ Unique(l) /\ IdsIn(l) \subseteq IdsIn(s)
    BY <1>2, <2>1, <2>3, <2>4, LevelAfterType, LevelAfterUnique
  <2>6. \A a \in BookSide, p \in Prices :
          book_l3'[a][p] = IF a = u.side /\ p = u.price THEN l ELSE book_l3[a][p]
    BY <1>0, <1>1, <1>2, ApplyL3Type
  <2> HIDE DEF l, u
  <2>7. Numbered(book_l3, next_id)
    BY DEF FollowInv
  <2>8. Numbered(book_l3', next_id)
    BY <2>2, <2>5, <2>6, <2>7 DEF Numbered
  <2>9. QED
    BY <1>1, <2>1, <2>8 DEF AddsAlone
<1>8. Numbered(book_l3', next_id) /\ AddsAlone'
  BY <1>6, <1>7 DEF FollowInv, AddsAlone
<1>9. u.action = "ADD" => pending = <<u>> /\ Unseen(u.id) /\ book_l3' = venue
  BY <1>6, <1>7 DEF FollowInv, AddsAlone
<1>10. FollowInv'
  BY <1>1, <1>2, <1>5, <1>8 DEF FollowInv
<1>11. QED
  BY <1>2, <1>9, <1>10

LEMMA FollowOnTick ==
  ASSUME FollowInv, OnTick
  PROVE  FollowInv'
<1> DEFINE u == Head(pending)
           rest == Tail(pending)
<1>0. SoundState /\ pending \in Seq(Messages)
  BY DEF FollowInv, SoundState
<1>1. /\ pending # <<>> /\ u.kind = "Tick" /\ pending' = rest
      /\ UNCHANGED <<book_l3, venue, next_id, entered>>
  BY DEF OnTick, Shows, past
<1>2. SoundState'
  BY <1>0, SoundOnTick
<1>3. Seen(book_l3, pending) = Seen(AfterMessage(book_l3, u), rest)
  BY <1>0, <1>1, SeenHead
<1>4. Seen(book_l3, rest) = venue
  BY <1>1, <1>3 DEF AfterMessage, FollowInv
<1>5. NoAdds(pending)
  <2>1. ASSUME NEW w \in L3Messages, pending = <<w>> PROVE FALSE
    BY <1>1, <2>1, KindsOfMessages
  <2>2. QED
    BY <2>1 DEF FollowInv, AddsAlone
<1>6. AddsAlone'
  BY <1>0, <1>1, <1>5, NoAddsTail DEF AddsAlone
<1>7. QED
  BY <1>1, <1>2, <1>4, <1>6 DEF FollowInv

LEMMA IdsAtIs ==
  ASSUME book_l3 \in L3Book, NEW s \in BookSide, NEW p \in Prices
  PROVE  IdsAt(<<s, p>>) = IdsIn(book_l3[s][p])
<1> DEFINE level == book_l3[s][p]
<1>1. level \in Seq(Resting)
  BY DEF L3Book
<1>2. IdsAt(<<s, p>>) = {level[i].id : i \in DOMAIN level}
  BY DEF IdsAt
<1> HIDE DEF level
<1>3. DOMAIN level = 1 .. Len(level)
  BY <1>1, LenProperties
<1>4. QED
  BY <1>2, <1>3 DEF IdsIn, level

LEMMA FollowOnOrder ==
  ASSUME FollowInv, NEW id \in OrderIds, NEW o \in LimitOrders \cup MarketOrders, OnOrder(id, o)
  PROVE  FollowInv'
<1>0. SoundState /\ book_l3 \in L3Book
  BY DEF FollowInv, SoundState
<1>1. /\ o.side \in BookSide /\ o.price \in Prices
      /\ DOMAIN entered' = DOMAIN entered \cup {id}
      /\ entered'[id] = IdsAt(<<o.side, o.price>>)
      /\ \A i \in DOMAIN entered : entered'[i] = entered[i]
      /\ SoundState'
      /\ UNCHANGED <<book_l3, venue, next_id, pending>>
  BY <1>0, OrderIs DEF FeedWaits
<1> DEFINE l == book_l3[o.side][o.price]
<1>2. entered'[id] = IdsIn(l)
  BY <1>0, <1>1, IdsAtIs
<1>3. \A x \in IdsIn(l) : x \in Nat /\ x < next_id
  BY <1>1 DEF FollowInv, Numbered
<1>4. \A i \in DOMAIN entered' : \A x \in entered'[i] : x \in Nat /\ x < next_id
  BY <1>1, <1>2, <1>3 DEF FollowInv
<1>5. AddsAlone'
  <2>1. ASSUME NEW u \in L3Messages, Unseen(u.id) PROVE Unseen(u.id)'
    <3>1. u.id \notin IdsIn(l)
      BY <1>1, <2>1 DEF Unseen
    <3>2. \A i \in DOMAIN entered' : u.id \notin entered'[i]
      BY <1>1, <1>2, <2>1, <3>1 DEF Unseen
    <3>3. QED
      BY <1>1, <2>1, <3>2 DEF Unseen
  <2>2. QED
    BY <1>1, <2>1 DEF AddsAlone, FollowInv
<1>6. QED
  BY <1>1, <1>4, <1>5 DEF FollowInv

LEMMA FollowCalls ==
  ASSUME FollowInv, NEW id, Calls(id)
  PROVE  FollowInv'
<1>1. SoundState
  BY DEF FollowInv
<1>2. SoundState' /\ UNCHANGED entered /\ FeedWaits
  BY <1>1, SoundCalls, CallsKeep
<1>3. QED
  BY <1>2 DEF FollowInv, FeedWaits, AddsAlone, Unseen

LEMMA FollowNext == FollowInv /\ [Next]_vars => FollowInv'
<1> SUFFICES ASSUME FollowInv, [Next]_vars PROVE FollowInv'
  OBVIOUS
<1>1. ASSUME NEW key \in Keys, NEW qty \in VenueQtys, VenueAdds(key, qty) PROVE FollowInv'
  BY <1>1, FollowVenueAdds
<1>2. ASSUME NEW key \in Keys, NEW i \in DOMAIN Line(key), NEW qty \in VenueQtys,
             VenueModifies(key, i, qty) PROVE FollowInv'
  BY <1>2, FollowVenueModifies
<1>3. ASSUME NEW key \in Keys, NEW i \in DOMAIN Line(key), NEW action \in {"MODIFY", "DELETE"},
             VenueDeletes(key, i, action) PROVE FollowInv'
  BY <1>3, FollowVenueDeletes
<1>4. ASSUME NEW key \in Keys, NEW qty \in TradeQtys, VenueTrades(key, qty) PROVE FollowInv'
  BY <1>4, VenueTradesShown
<1>5. CASE OnL3Update
  BY <1>5, FollowOnL3Update
<1>6. CASE OnTick
  BY <1>6, FollowOnTick
<1>7. ASSUME NEW id \in OrderIds, NEW o \in LimitOrders \cup MarketOrders, OnOrder(id, o)
      PROVE FollowInv'
  BY <1>7, FollowOnOrder
<1>8. ASSUME NEW id \in OrderIds, Calls(id) PROVE FollowInv'
  BY <1>8, FollowCalls
<1>9. CASE UNCHANGED vars
  <2>1. SoundState'
    BY <1>9, SoundNext DEF FollowInv
  <2>2. QED
    BY <1>9, <2>1 DEF vars, sim, past, FollowInv, AddsAlone, Unseen
<1>10. QED
  BY <1>1, <1>2, <1>3, <1>4, <1>5, <1>6, <1>7, <1>8, <1>9 DEF Next, Calls

(***************************************************************************)
(* In every reachable state the book that apply_l3 builds, followed by     *)
(* what the feed still carries, is the venue's book, and in both no number *)
(* stands in two places.                                                   *)
(***************************************************************************)
THEOREM FollowsAlways == Spec => []FollowInv
  BY FollowInit, FollowNext, PTL DEF Spec

(***************************************************************************)
(* The book that apply_l3 builds is the venue's, apart from the updates    *)
(* still to be shown: the same orders with the same quantities in the same *)
(* order of priority, over any additions, changes, deletions and trades.   *)
(***************************************************************************)
THEOREM BookAlwaysFollows == Spec => []BookFollowsVenue
<1>1. FollowInv => BookFollowsVenue
  BY DEF FollowInv, BookFollowsVenue, Seen
<1>2. QED
  BY <1>1, FollowsAlways, PTL

-----------------------------------------------------------------------------
(***************************************************************************)
(* What the messages do to the lists of all orders                         *)
(***************************************************************************)
LineOf(book, o) == book[o.side][o.price]

LEMMA SentOrder ==
  ASSUME SoundState, NEW id \in Live(ex)
  PROVE  /\ SoundOrder(ex.orders[id]) /\ ex.orders[id].queue.ahead \in Seq(Resting)
         /\ ex.orders[id].queue.qty_ahead = QtyOf(ex.orders[id].queue.ahead)
         /\ ex.orders[id].side \in BookSide /\ ex.orders[id].price \in Prices
         /\ ex.orders[id].state \in SentState
         /\ LineOf(book_l3, ex.orders[id]) \in Seq(Resting)
         /\ LineOf(venue, ex.orders[id]) \in Seq(Resting)
         /\ id \in DOMAIN entered
<1> DEFINE o == ex.orders[id]
<1>1. SoundOrder(o) /\ book_l3 \in L3Book /\ venue \in L3Book /\ id \in DOMAIN entered
  BY DEF SoundState, SoundSim
<1> HIDE DEF o
<1>2. /\ o.side \in BookSide /\ o.price \in Prices /\ o.state \in SentState
      /\ o.queue.ahead \in Seq(Resting) /\ o.queue.qty_ahead = QtyOf(o.queue.ahead)
  BY <1>1, L3OrderOf DEF SoundOrder, SoundQueue
<1>3. LineOf(book_l3, o) \in Seq(Resting) /\ LineOf(venue, o) \in Seq(Resting)
  BY <1>1, <1>2 DEF LineOf, L3Book
<1>4. QED
  BY <1>1, <1>2, <1>3 DEF o

\* An order that no update was kept from, also one that is not following.
LEMMA AheadOnL3Update ==
  ASSUME SoundState, OnL3Update
  PROVE  LET u == Head(pending)
         IN  /\ u \in L3Messages /\ Live(ex') = Live(ex) /\ missed \subseteq missed'
             /\ \A id \in Live(ex) \ missed' :
                  LET o == ex.orders[id]
                      n == ex'.orders[id]
                  IN  /\ n.side = o.side /\ n.price = o.price
                      /\ u.action = "ADD" => n.queue.ahead = o.queue.ahead
                      /\ u.action # "ADD" /\ Unique(o.queue.ahead) =>
                           n.queue.ahead = IF <<u.side, u.price>> = <<o.side, o.price>>
                                           THEN LevelAfter(o.queue.ahead, u)
                                           ELSE o.queue.ahead
             /\ \A s \in BookSide, p \in Prices :
                  book_l3'[s][p] = IF s = u.side /\ p = u.price
                                   THEN LevelAfter(book_l3[s][p], u) ELSE book_l3[s][p]
<1> DEFINE u == Head(pending)
<1>1. /\ SoundSim(ex) /\ book_l3 \in L3Book
      /\ ex' = ApplyL3ToOrders(ex, u) /\ book_l3' = ApplyL3(book_l3, u)
      /\ missed' = missed \cup KeptFrom(u)
  BY DEF OnL3Update, SoundState
<1>2. u \in L3Messages
  BY SoundOnL3Update
<1> HIDE DEF u
<1>3. /\ Live(ex') = Live(ex)
      /\ \A id \in Live(ex) :
           /\ ex'.orders[id].side = ex.orders[id].side
           /\ ex'.orders[id].price = ex.orders[id].price
           /\ ex'.orders[id].queue = IF StateOf(ex, id) \in Following
                                     THEN AfterL3Update(ex.orders[id], u)
                                     ELSE ex.orders[id].queue
  BY <1>1, <1>2, UpdateSim
<1>4. ASSUME NEW id \in Live(ex) \ missed'
      PROVE  ex'.orders[id].queue = AfterL3Update(ex.orders[id], u)
  <2>1. StateOf(ex, id) \in SentState
    BY SentOrder DEF StateOf
  <2>2. CASE StateOf(ex, id) \in Following
    BY <1>3, <2>2
  <2>3. CASE StateOf(ex, id) \notin Following
    <3>1. StateOf(ex, id) \in {"PendingCancel"} \cup Terminal
      BY <2>1, <2>3 DEF SentState, OrderState, Following, Terminal
    <3>2. id \notin KeptFrom(u)
      BY <1>1
    <3>3. AfterL3Update(ex.orders[id], u) = ex.orders[id].queue
      BY <3>1, <3>2 DEF KeptFrom
    <3>4. QED
      BY <1>3, <2>3, <3>3
  <2>4. QED
    BY <2>2, <2>3
<1>5. ASSUME NEW id \in Live(ex) \ missed', u.action = "ADD"
      PROVE  ex'.orders[id].queue.ahead = ex.orders[id].queue.ahead
  BY <1>4, <1>5 DEF AfterL3Update
<1>6. ASSUME NEW id \in Live(ex) \ missed', u.action # "ADD", Unique(ex.orders[id].queue.ahead)
      PROVE  ex'.orders[id].queue.ahead
               = IF <<u.side, u.price>> = <<ex.orders[id].side, ex.orders[id].price>>
                 THEN LevelAfter(ex.orders[id].queue.ahead, u) ELSE ex.orders[id].queue.ahead
  <2> DEFINE o == ex.orders[id]
  <2>1. o.queue.ahead \in Seq(Resting) /\ Unique(o.queue.ahead)
    BY <1>6, SentOrder
  <2>2. ex'.orders[id].queue = AfterL3Update(o, u)
    BY <1>4
  <2> HIDE DEF o
  <2>3. AfterL3Update(o, u).ahead
          = IF <<u.side, u.price>> = <<o.side, o.price>> THEN LevelAfter(o.queue.ahead, u)
            ELSE o.queue.ahead
    BY <1>2, <1>6, <2>1, AheadFollows
  <2>4. QED
    BY <2>2, <2>3 DEF o
<1>7. \A s \in BookSide, p \in Prices :
        book_l3'[s][p] = IF s = u.side /\ p = u.price
                         THEN LevelAfter(book_l3[s][p], u) ELSE book_l3[s][p]
  BY <1>1, <1>2, ApplyL3Type
<1>8. missed \subseteq missed'
  BY <1>1
<1>9. QED
  BY <1>2, <1>3, <1>5, <1>6, <1>7, <1>8 DEF u

\* A trade asks the orders at its price, on the side of the makers.
LEMMA AheadOnTick ==
  ASSUME SoundState, OnTick
  PROVE  LET u == Head(pending)
         IN  /\ u \in TradeMessages /\ Live(ex') = Live(ex)
             /\ \A id \in Live(ex) :
                  LET o == ex.orders[id]
                      n == ex'.orders[id]
                  IN  /\ n.side = o.side /\ n.price = o.price
                      /\ \/ n.queue.ahead = o.queue.ahead
                         \/ /\ o.price = u.price /\ o.side = MakerSide(u.side)
                            /\ n.queue.ahead = Consumed(o.queue.ahead, u.qty)
<1> DEFINE u == Head(pending)
<1>1. SoundSim(ex) /\ ex' = OnTradeL3(ex, u)
  BY DEF OnTick, SoundState
<1>2. u \in TradeMessages /\ u.qty \in Nat /\ u.price \in Prices /\ u.side \in BookSide
  BY SoundOnTick DEF TradeMessages
<1> HIDE DEF u
<1>3. /\ Live(ex') = Live(ex)
      /\ \A id \in Live(ex) :
           /\ ex'.orders[id].side = ex.orders[id].side
           /\ ex'.orders[id].price = ex.orders[id].price
           /\ ex'.orders[id].queue
                = IF id \in Asked(ex, u)
                  THEN L3Fill(ex.orders[id].queue, ex.orders[id].remaining, u.qty).queue
                  ELSE ex.orders[id].queue
  BY <1>1, <1>2, TradeSim
<1>4. ASSUME NEW id \in Live(ex), id \in Asked(ex, u)
      PROVE  /\ ex.orders[id].price = u.price /\ ex.orders[id].side = MakerSide(u.side)
             /\ ex'.orders[id].queue.ahead = Consumed(ex.orders[id].queue.ahead, u.qty)
  <2> DEFINE k == <<u.price, MakerSide(u.side)>>
             o == ex.orders[id]
  <2>1. k \in BucketKey
    BY <1>2 DEF BucketKey, BookSide, Side, MakerSide
  <2>2. InBucket(ex, k, id)
    BY <1>4 DEF Asked
  <2>3. BucketOf(o) = k
    BY <1>1, <2>1, <2>2 DEF SoundSim
  <2>4. SoundQueue(o.queue)
    BY SentOrder DEF SoundOrder
  <2>5. ex'.orders[id].queue = L3Fill(o.queue, o.remaining, u.qty).queue
    BY <1>3, <1>4
  <2> HIDE DEF o
  <2>6. L3Fill(o.queue, o.remaining, u.qty).queue.ahead = Consumed(o.queue.ahead, u.qty)
    BY <1>2, <2>4, FilledAhead
  <2>7. QED
    BY <2>3, <2>5, <2>6 DEF BucketOf, o
<1>5. QED
  BY <1>2, <1>3, <1>4 DEF u

-----------------------------------------------------------------------------
(***************************************************************************)
(* The list of the orders ahead is the front of the line: of the book's,   *)
(* or, once the trade was taken off, of the venue's, and then the updates  *)
(* of the trade, which are still to come, take nothing off again.          *)
(***************************************************************************)
ExactAt(ahead, line, goal, ent, msgs) ==
  \/ IsFront(ahead, line, ent)
  \/ IsFront(ahead, goal, ent) /\ \A j \in 1 .. Len(msgs) : Settled(ahead, msgs[j])

Exact(id) ==
  LET o == ex.orders[id]
  IN  ExactAt(o.queue.ahead, LineOf(book_l3, o), LineOf(venue, o), entered[id], pending)

\* A trade that is pending is the first of its messages.
TickFirst ==
  \/ \A j \in 1 .. Len(pending) : pending[j].kind = "L3Update"
  \/ \E key \in Keys, qty \in Nat \ {0} :
       pending = <<Trade(key, qty)>>
                   \o Shown(key, Served(book_l3[key[1]][key[2]], qty).served)

(***************************************************************************)
(* With trades shown before their updates, every order's list is the front *)
(* of the line that the pending messages leave; see Exact for the case     *)
(* of a trade that is pending itself.                                      *)
(***************************************************************************)
ExactInv ==
  /\ FollowInv
  /\ feed_order = "TradeFirst" => TickFirst /\ \A id \in Live(ex) \ missed : Exact(id)

LEMMA ExactInit == Init => ExactInv
<1> SUFFICES ASSUME Init PROVE ExactInv
  OBVIOUS
<1>1. FollowInv
  BY FollowInit
<1>2. Live(ex) = {}
  BY DEF Init, NewExchange, Live
<1>3. Len(pending) = 0
  BY EmptySeq DEF Init
<1>4. TickFirst
  BY <1>3 DEF TickFirst
<1>5. QED
  BY <1>1, <1>2, <1>4 DEF ExactInv

\* What the venue does when all was seen leaves the lists and the book alone.
LEMMA ExactVenueStep ==
  ASSUME ExactInv, pending = <<>>, UNCHANGED <<sim, past, feed_order>>, FollowInv',
         feed_order = "TradeFirst" => TickFirst'
  PROVE  ExactInv'
<1>1. FollowInv /\ book_l3 = venue
  BY UpToDateBook DEF ExactInv
<1>2. UNCHANGED <<ex, book_l3, entered, missed>>
  BY DEF sim, past
<1>3. ASSUME NEW id \in Live(ex) \ missed, Exact(id) PROVE Exact(id)'
  BY <1>1, <1>2, <1>3 DEF Exact, ExactAt, LineOf
<1>4. Live(ex') = Live(ex)
  BY <1>2
<1>5. QED
  BY <1>2, <1>3, <1>4 DEF ExactInv

\* One update, or the trade and its updates.
LEMMA OneIsTickFirst ==
  ASSUME NEW m, m.kind = "L3Update", pending' = <<m>>
  PROVE  TickFirst'
<1> DEFINE s == <<m>>
<1>1. Len(s) = 1 /\ s[1] = m
  OBVIOUS
<1>2. pending' = s
  OBVIOUS
<1> HIDE DEF s
<1>3. \A j \in 1 .. Len(s) : s[j].kind = "L3Update"
  BY <1>1
<1>4. QED
  BY <1>2, <1>3 DEF TickFirst

LEMMA ExactVenueAdds ==
  ASSUME ExactInv, NEW key \in Keys, NEW qty \in VenueQtys, VenueAdds(key, qty)
  PROVE  ExactInv'
<1> DEFINE m == Update(key, "ADD", next_id, qty)
<1>1. pending = <<>> /\ UNCHANGED <<sim, past, feed_order>> /\ pending' = <<m>>
  BY DEF VenueAdds
<1>2. m.kind = "L3Update"
  BY DEF Update
<1> HIDE DEF m
<1>3. TickFirst'
  BY <1>1, <1>2, OneIsTickFirst
<1>4. FollowInv'
  BY FollowVenueAdds DEF ExactInv
<1>5. QED
  BY <1>1, <1>3, <1>4, ExactVenueStep

LEMMA ExactVenueModifies ==
  ASSUME ExactInv, NEW key \in Keys, NEW i \in DOMAIN Line(key), NEW qty \in VenueQtys,
         VenueModifies(key, i, qty)
  PROVE  ExactInv'
<1> DEFINE m == Update(key, "MODIFY", Line(key)[i].id, qty)
<1>1. pending = <<>> /\ UNCHANGED <<sim, past, feed_order>> /\ pending' = <<m>>
  BY DEF VenueModifies, VenueChanges
<1>2. m.kind = "L3Update"
  BY DEF Update
<1> HIDE DEF m
<1>3. TickFirst'
  BY <1>1, <1>2, OneIsTickFirst
<1>4. FollowInv'
  BY FollowVenueModifies DEF ExactInv
<1>5. QED
  BY <1>1, <1>3, <1>4, ExactVenueStep

LEMMA ExactVenueDeletes ==
  ASSUME ExactInv, NEW key \in Keys, NEW i \in DOMAIN Line(key),
         NEW action \in {"MODIFY", "DELETE"}, VenueDeletes(key, i, action)
  PROVE  ExactInv'
<1> DEFINE m == Update(key, action, Line(key)[i].id, 0)
<1>1. pending = <<>> /\ UNCHANGED <<sim, past, feed_order>> /\ pending' = <<m>>
  BY DEF VenueDeletes, VenueChanges
<1>2. m.kind = "L3Update"
  BY DEF Update
<1> HIDE DEF m
<1>3. TickFirst'
  BY <1>1, <1>2, OneIsTickFirst
<1>4. FollowInv'
  BY SMTT(60), FollowVenueDeletes DEF ExactInv
<1>5. QED
  BY <1>1, <1>3, <1>4, ExactVenueStep

LEMMA ExactVenueTrades ==
  ASSUME ExactInv, NEW key \in Keys, NEW qty \in TradeQtys, VenueTrades(key, qty)
  PROVE  ExactInv'
<1> DEFINE shown == Shown(key, Served(Line(key), qty).served)
           tick == <<Trade(key, qty)>>
<1>1. /\ Line(key) = book_l3[key[1]][key[2]] /\ qty \in Nat \ {0} /\ FollowInv'
      /\ pending' = IF feed_order = "TradeFirst" THEN tick \o shown ELSE shown \o tick
  BY VenueTradesShown DEF ExactInv
<1>2. pending = <<>> /\ UNCHANGED <<sim, past, feed_order>> /\ book_l3' = book_l3
  BY SMTT(60) DEF VenueTrades, VenueChanges, sim
<1>3. feed_order = "TradeFirst" => TickFirst'
  BY ZenonT(60), <1>1, <1>2 DEF TickFirst
<1>4. QED
  BY <1>1, <1>2, <1>3, ExactVenueStep

\* An update: of the venue's last event, or of a trade that was taken off.
LEMMA ExactOnL3Update ==
  ASSUME ExactInv, OnL3Update
  PROVE  ExactInv'
<1> DEFINE u == Head(pending)
           rest == Tail(pending)
<1>0. FollowInv /\ SoundState /\ pending \in Seq(Messages)
  BY DEF ExactInv, FollowInv, SoundState
<1>1. /\ pending # <<>> /\ u.kind = "L3Update" /\ pending' = rest
      /\ UNCHANGED <<venue, feed_order, entered>>
  BY DEF OnL3Update, Shows
<1>2. /\ FollowInv' /\ u \in L3Messages
      /\ u.action = "ADD" => Unseen(u.id)
  BY <1>0, FollowOnL3Update
<1>3. /\ Live(ex') = Live(ex) /\ missed \subseteq missed'
      /\ \A id \in Live(ex) \ missed' :
           LET o == ex.orders[id]
               n == ex'.orders[id]
           IN  /\ n.side = o.side /\ n.price = o.price
               /\ u.action = "ADD" => n.queue.ahead = o.queue.ahead
               /\ u.action # "ADD" /\ Unique(o.queue.ahead) =>
                    n.queue.ahead = IF <<u.side, u.price>> = <<o.side, o.price>>
                                    THEN LevelAfter(o.queue.ahead, u)
                                    ELSE o.queue.ahead
      /\ \A s \in BookSide, p \in Prices :
           book_l3'[s][p] = IF s = u.side /\ p = u.price
                            THEN LevelAfter(book_l3[s][p], u) ELSE book_l3[s][p]
  BY <1>0, AheadOnL3Update
<1>4. /\ u = pending[1] /\ 1 \in 1 .. Len(pending)
      /\ \A j \in 1 .. Len(rest) : j + 1 \in 1 .. Len(pending) /\ rest[j] = pending[j + 1]
  <2>1. /\ Len(rest) = Len(pending) - 1 /\ u = pending[1]
        /\ \A j \in 1 .. Len(rest) : rest[j] = pending[j + 1]
        /\ Len(pending) \in Nat /\ Len(pending) # 0
    BY SMTT(60), <1>0, <1>1, HeadTailProperties, LenProperties, EmptySeq
  <2> HIDE DEF rest, u
  <2>2. QED
    BY <2>1
<1> HIDE DEF u, rest
<1>5. ASSUME TickFirst PROVE TickFirst'
  <2>1. ASSUME NEW key \in Keys, NEW qty \in Nat \ {0}, NEW shown \in Seq(L3Messages),
               pending = <<Trade(key, qty)>> \o shown
        PROVE  FALSE
    <3> DEFINE t == Trade(key, qty)
               one == <<t>>
    <3>1. t.kind = "Tick"
      BY DEF Trade
    <3>2. t \in Messages /\ one \in Seq(Messages) /\ Len(one) = 1 /\ one[1] = t
      BY TradeOf, KindsOfMessages
    <3> HIDE DEF t, one
    <3>3. shown \in Seq(Messages)
      <4>1. L3Messages \subseteq Messages
        BY DEF Messages
      <4>2. QED
        BY <4>1, SeqMonotonic
    <3>4. 1 \in 1 .. Len(one) /\ pending = one \o shown
      BY <2>1, <3>2 DEF t, one
    <3>5. (one \o shown)[1] = one[1]
      BY SMTT(60), <3>2, <3>3, <3>4, PlacesOfConcat
    <3>6. QED
      BY <1>1, <1>4, <3>1, <3>2, <3>4, <3>5
  <2>2. ASSUME NEW key \in Keys, NEW qty \in Nat \ {0},
               pending = <<Trade(key, qty)>>
                   \o Shown(key, Served(book_l3[key[1]][key[2]], qty).served)
        PROVE  FALSE
    <3>1. book_l3[key[1]][key[2]] \in Seq(Resting)
      BY <1>0, LineType DEF SoundState
    <3>2. Served(book_l3[key[1]][key[2]], qty).served \in Seq(AnyEntry)
      BY <3>1, ServedType
    <3>3. Shown(key, Served(book_l3[key[1]][key[2]], qty).served) \in Seq(L3Messages)
      BY SMTT(60), <3>2, ShownType
    <3>4. QED
      BY <2>1, <2>2, <3>3
  <2>3. \A j \in 1 .. Len(pending) : pending[j].kind = "L3Update"
    BY ZenonT(60), <1>5, <2>2 DEF TickFirst
  <2>4. \A j \in 1 .. Len(rest) : rest[j].kind = "L3Update"
    BY <1>4, <2>3
  <2>5. QED
    BY <1>1, <2>4 DEF TickFirst
<1>6. ASSUME NEW id \in Live(ex) \ missed', Exact(id) PROVE Exact(id)'
  <2> DEFINE o == ex.orders[id]
             n == ex'.orders[id]
             a == o.queue.ahead
             l == LineOf(book_l3, o)
             g == LineOf(venue, o)
             e == entered[id]
             here == <<u.side, u.price>> = <<o.side, o.price>>
  <2>1. /\ n.side = o.side /\ n.price = o.price
        /\ u.action = "ADD" => n.queue.ahead = a
        /\ u.action # "ADD" /\ Unique(a) =>
             n.queue.ahead = IF here THEN LevelAfter(a, u) ELSE a
    BY <1>3
  <2>2. /\ a \in Seq(Resting) /\ o.side \in BookSide /\ o.price \in Prices
        /\ l \in Seq(Resting) /\ g \in Seq(Resting) /\ id \in DOMAIN entered
    BY <1>0, SentOrder
  <2>3. /\ LineOf(book_l3', n) = IF here THEN LevelAfter(l, u) ELSE l
        /\ LineOf(venue', n) = g
    BY <1>1, <1>3, <2>1, <2>2 DEF LineOf
  <2>4. Unique(l) /\ Unique(g)
    BY <1>0, <2>2 DEF LineOf, FollowInv, Numbered
  <2>5. Exact(id)' <=> ExactAt(n.queue.ahead, LineOf(book_l3', n), g, e, rest)
    BY <1>1, <2>3 DEF Exact
  <2>6. ExactAt(a, l, g, e, pending)
    BY <1>6 DEF Exact
  <2>7. u.action = "ADD" => u.id \notin e
    BY <1>2, <2>2 DEF Unseen
  <2> HIDE DEF o, n, a, l, g, e
  <2>8. CASE IsFront(a, l, e)
    <3>1. CASE u.action = "ADD"
      <4>1. IsFront(a, LevelAfter(l, u), e)
        BY <1>2, <2>2, <2>7, <2>8, <3>1, FrontAfterAdd
      <4>2. IsFront(n.queue.ahead, LineOf(book_l3', n), e)
        BY <2>1, <2>3, <2>8, <3>1, <4>1
      <4>3. QED
        BY <2>5, <4>2 DEF ExactAt
    <3>2. CASE u.action # "ADD"
      <4>1. IsFront(LevelAfter(a, u), LevelAfter(l, u), e) /\ Unique(a)
        BY <1>2, <2>2, <2>4, <2>8, <3>2, FrontAfterUpdate
      <4>2. IsFront(n.queue.ahead, LineOf(book_l3', n), e)
        BY <2>1, <2>3, <2>8, <3>2, <4>1
      <4>3. QED
        BY <2>5, <4>2 DEF ExactAt
    <3>3. QED
      BY <3>1, <3>2
  <2>9. CASE IsFront(a, g, e) /\ \A j \in 1 .. Len(pending) : Settled(a, pending[j])
    <3>1. Settled(a, u) /\ \A j \in 1 .. Len(rest) : Settled(a, rest[j])
      BY <1>4, <2>9
    <3>2. Unique(a)
      <4>1. PICK w \in Seq(Resting) : g = a \o w
        BY <2>9 DEF IsFront
      <4>2. QED
        BY <2>2, <2>4, <4>1, IdsOfConcat
    <3>3. LevelAfter(a, u) = a
      BY <1>2, <2>2, <3>1, <3>2, SettledKeeps
    <3>4. u.action # "ADD"
      BY <3>1 DEF Settled
    <3>5. n.queue.ahead = a
      BY <2>1, <3>2, <3>3, <3>4
    <3>6. QED
      BY <2>5, <2>9, <3>1, <3>5 DEF ExactAt
  <2>10. QED
    BY <2>6, <2>8, <2>9 DEF ExactAt
<1>7. QED
  BY <1>1, <1>2, <1>3, <1>5, <1>6 DEF ExactInv

LEMMA TailOfOne ==
  ASSUME NEW E, NEW x \in E, NEW s \in Seq(E)
  PROVE  LET t == <<x>> \o s
         IN  t # <<>> /\ Head(t) = x /\ Tail(t) = s
<1> DEFINE one == <<x>>
           t == one \o s
<1>1. one \in Seq(E) /\ Len(one) = 1 /\ one[1] = x
  OBVIOUS
<1> HIDE DEF one
<1>2. /\ t \in Seq(E) /\ Len(t) = 1 + Len(s) /\ Len(s) \in Nat
      /\ \A i \in 1 .. Len(t) : t[i] = IF i <= 1 THEN one[i] ELSE s[i - 1]
  BY <1>1, ConcatProperties, LenProperties
<1> HIDE DEF t
<1>3. t # <<>>
  BY <1>2, EmptySeq
<1>4. Head(t) = t[1] /\ Tail(t) \in Seq(E) /\ Len(Tail(t)) = Len(t) - 1
      /\ \A i \in 1 .. Len(Tail(t)) : Tail(t)[i] = t[i + 1]
  BY <1>2, <1>3, HeadTailProperties
<1>5. 1 \in 1 .. Len(t) /\ \A i \in 1 .. Len(s) : i + 1 \in 1 .. Len(t) /\ ~(i + 1 <= 1) /\ (i + 1) - 1 = i
  BY <1>2
<1>6. Head(t) = x
  <2>1. t[1] = one[1]
    BY <1>2, <1>5
  <2>2. QED
    BY <1>1, <1>4, <2>1
<1>7. Len(Tail(t)) = Len(s)
  BY <1>2, <1>4
<1>8. \A i \in 1 .. Len(s) : Tail(t)[i] = s[i]
  <2>1. ASSUME NEW i \in 1 .. Len(s) PROVE Tail(t)[i] = s[i]
    <3>1. Tail(t)[i] = t[i + 1]
      BY <1>4, <1>7
    <3>2. t[i + 1] = s[(i + 1) - 1]
      BY <1>2, <1>5
    <3>3. (i + 1) - 1 = i
      BY <1>5
    <3>4. QED
      BY <3>1, <3>2, <3>3
  <2>2. QED
    BY <2>1
<1>9. Tail(t) = s
  BY SMTT(60), <1>4, <1>7, <1>8, SeqEqual
<1>10. QED
  BY <1>3, <1>6, <1>9 DEF t, one

\* The venue's line at the price of a trade whose updates are still to come.
LEMMA LineAfterTrade ==
  ASSUME FollowInv, TickFirst, OnTick
  PROVE  \E key \in Keys, qty \in Nat \ {0} :
           LET line == book_l3[key[1]][key[2]]
               done == Served(line, qty)
           IN  /\ Head(pending) = Trade(key, qty)
               /\ Tail(pending) = Shown(key, done.served)
               /\ line \in Seq(Resting) /\ Unique(line) /\ LeavesOf(done, line)
               /\ venue[key[1]][key[2]] = done.line
<1>0. SoundState /\ pending \in Seq(Messages) /\ book_l3 \in L3Book
  BY DEF FollowInv, SoundState
<1>1. pending # <<>> /\ Head(pending).kind = "Tick"
  BY SMTT(60) DEF OnTick, Shows
<1>2. PICK key \in Keys, qty \in Nat \ {0} :
        pending = <<Trade(key, qty)>>
                   \o Shown(key, Served(book_l3[key[1]][key[2]], qty).served)
  <2>1. pending[1].kind = "Tick" /\ 1 \in 1 .. Len(pending)
    <3>1. Len(pending) \in Nat /\ Len(pending) # 0 /\ Head(pending) = pending[1]
      BY <1>0, <1>1, HeadTailProperties, LenProperties, EmptySeq
    <3>2. 1 \in 1 .. Len(pending)
      BY <3>1
    <3>3. QED
      BY <1>1, <3>1, <3>2
  <2>2. QED
    BY ZenonT(60), <2>1 DEF TickFirst
<1> DEFINE line == book_l3[key[1]][key[2]]
           done == Served(line, qty)
           m == Trade(key, qty)
           shown == Shown(key, done.served)
<1>3. line \in Seq(Resting) /\ key[1] \in BookSide /\ key[2] \in Prices /\ Unique(line)
  BY <1>0, LineType DEF FollowInv, Numbered
<1>4. Seen(book_l3, shown) = WithLine(book_l3, key, done.line) /\ LeavesOf(done, line)
  BY <1>0, <1>3, TradeIsShown
<1>5. shown \in Seq(Messages) /\ m \in Messages /\ m.kind = "Tick"
  <2>1. done.served \in Seq(AnyEntry)
    BY <1>4 DEF LeavesOf, Serving
  <2>2. shown \in Seq(L3Messages)
    BY <2>1, ShownType
  <2>3. L3Messages \subseteq Messages
    BY SMTT(60) DEF Messages
  <2>4. QED
    BY SMTT(60), <2>2, <2>3, SeqMonotonic, TradeOf, KindsOfMessages
<1>6. pending = <<m>> \o shown
  BY <1>2
<1> HIDE DEF line, done, m, shown
<1>7. Head(pending) = m /\ Tail(pending) = shown
  BY <1>5, <1>6, TailOfOne
<1>8. venue = Seen(AfterMessage(book_l3, m), shown)
  BY <1>0, <1>1, <1>7, SeenHead DEF FollowInv
<1>9. venue = WithLine(book_l3, key, done.line)
  BY <1>4, <1>5, <1>8 DEF AfterMessage
<1>10. done.line \in Seq(Resting)
  BY <1>4 DEF LeavesOf, Serving
<1>11. venue[key[1]][key[2]] = done.line
  BY <1>0, <1>3, <1>9, <1>10, SetLine DEF WithLine
<1>12. QED
  BY <1>3, <1>4, <1>7, <1>11 DEF line, done, m, shown

\* The trade is taken off the lists as it was off the line; its updates follow.
LEMMA ExactOnTick ==
  ASSUME ExactInv, OnTick
  PROVE  ExactInv'
<1> DEFINE u == Head(pending)
           rest == Tail(pending)
<1>0. FollowInv /\ SoundState /\ pending \in Seq(Messages)
  BY DEF ExactInv, FollowInv, SoundState
<1>1. /\ pending # <<>> /\ pending' = rest
      /\ UNCHANGED <<book_l3, venue, feed_order, entered, missed>>
  BY DEF OnTick, Shows, past
<1>2. FollowInv'
  BY <1>0, FollowOnTick
<1>3. SUFFICES ASSUME feed_order = "TradeFirst"
               PROVE  TickFirst' /\ \A id \in Live(ex') \ missed : Exact(id)'
  BY <1>1, <1>2 DEF ExactInv
<1>4. TickFirst /\ \A id \in Live(ex) \ missed : Exact(id)
  BY <1>3 DEF ExactInv
<1>5. PICK key \in Keys, qty \in Nat \ {0} :
           LET line == book_l3[key[1]][key[2]]
               done == Served(line, qty)
           IN  /\ u = Trade(key, qty)
               /\ rest = Shown(key, done.served)
               /\ line \in Seq(Resting) /\ Unique(line) /\ LeavesOf(done, line)
               /\ venue[key[1]][key[2]] = done.line
  BY <1>0, <1>4, LineAfterTrade
<1> DEFINE line == book_l3[key[1]][key[2]]
           done == Served(line, qty)
<1>6. /\ u.kind = "Tick" /\ MakerSide(u.side) = key[1] /\ u.price = key[2] /\ u.qty = qty
  BY SMTT(60), <1>5, TradeOf
<1>7. /\ line \in Seq(Resting) /\ Unique(line) /\ LeavesOf(done, line)
      /\ done.line \in Seq(Resting) /\ done.served \in Seq(AnyEntry)
      /\ rest = Shown(key, done.served) /\ venue[key[1]][key[2]] = done.line
  BY <1>5 DEF LeavesOf, Serving
<1>8. /\ Live(ex') = Live(ex)
      /\ \A id \in Live(ex) :
           LET o == ex.orders[id]
               n == ex'.orders[id]
           IN  /\ n.side = o.side /\ n.price = o.price
               /\ \/ n.queue.ahead = o.queue.ahead
                  \/ /\ o.price = u.price /\ o.side = MakerSide(u.side)
                     /\ n.queue.ahead = Consumed(o.queue.ahead, u.qty)
  BY <1>0, AheadOnTick
<1>9. TickFirst'
  <2>1. Shown(key, done.served) \in Seq(L3Messages)
    BY <1>7, ShownType
  <2> HIDE DEF rest, done
  <2>2. rest \in Seq(L3Messages)
    BY <1>7, <2>1
  <2>3. \A j \in 1 .. Len(rest) : rest[j].kind = "L3Update"
    BY <2>2, ElementOfSeq, KindsOfMessages
  <2>4. QED
    BY <1>1, <2>3 DEF TickFirst
<1>10. 1 \in 1 .. Len(pending) /\ pending[1] = u
  <2>1. Len(pending) \in Nat /\ Len(pending) # 0 /\ u = pending[1]
    BY <1>0, <1>1, HeadTailProperties, LenProperties, EmptySeq
  <2> HIDE DEF u
  <2>2. QED
    BY <2>1
<1> HIDE DEF u, rest, done, line
<1>11. ASSUME NEW id \in Live(ex) \ missed PROVE Exact(id)'
  <2> DEFINE o == ex.orders[id]
             n == ex'.orders[id]
             a == o.queue.ahead
             l == LineOf(book_l3, o)
             g == LineOf(venue, o)
             e == entered[id]
  <2>1. /\ n.side = o.side /\ n.price = o.price
        /\ \/ n.queue.ahead = a
           \/ /\ o.price = u.price /\ o.side = MakerSide(u.side)
              /\ n.queue.ahead = Consumed(a, u.qty)
    BY <1>8
  <2>2. a \in Seq(Resting)
    BY <1>0, SentOrder
  <2>3. Exact(id)' <=> ExactAt(n.queue.ahead, l, g, e, rest)
    BY <1>1, <2>1 DEF Exact, LineOf
  <2>4. ExactAt(a, l, g, e, pending)
    BY <1>4 DEF Exact
  <2>5. o.price = u.price /\ o.side = MakerSide(u.side) => l = line /\ g = done.line
    BY <1>6, <1>7 DEF LineOf, line
  <2> HIDE DEF o, n, a, l, g, e
  <2>6. IsFront(a, l, e)
    <3>1. ~Settled(a, pending[1])
      BY <1>6, <1>10 DEF Settled
    <3>2. QED
      BY <1>10, <2>4, <3>1 DEF ExactAt
  <2>7. CASE n.queue.ahead = a
    BY <2>3, <2>6, <2>7 DEF ExactAt
  <2>8. CASE /\ o.price = u.price /\ o.side = MakerSide(u.side)
             /\ n.queue.ahead = Consumed(a, u.qty)
    <3> DEFINE c == Consumed(a, qty)
    <3>1. n.queue.ahead = c /\ l = line /\ g = done.line
      BY SMTT(60), <1>6, <2>5, <2>8
    <3>2. IsFront(a, line, e)
      BY <2>6, <3>1
    <3>3. IsFront(c, done.line, e)
      BY <1>7, <2>2, <3>2, FrontAfterTrade DEF done
    <3>4. c \in Seq(Resting)
      BY <2>2, ConsumedIsServed, ServeRunLeaves DEF LeavesOf, Serving
    <3> HIDE DEF c
    <3>5. \A j \in 1 .. Len(rest) : Settled(c, rest[j])
      BY <1>7, <3>3, <3>4, SettledByTrade
    <3>6. QED
      BY <2>3, <3>1, <3>3, <3>5 DEF ExactAt
  <2>9. QED
    BY <2>1, <2>7, <2>8
<1>12. QED
  BY <1>8, <1>9, <1>11

(***************************************************************************)
(* The strategy's orders and the venue's do not share their numbers, so    *)
(* that the snapshot at entry is the full level.                           *)
(***************************************************************************)
NumbersApart == \A id \in OrderIds : id < FirstVenueId

LEMMA SnapshotIsWhole ==
  ASSUME NumbersApart, FollowInv, NEW id \in OrderIds, NEW o,
         o.side \in BookSide, o.price \in Prices
  PROVE  RegisterL3(book_l3, id, o).ahead = LineOf(book_l3, o)
<1> DEFINE level == book_l3[o.side][o.price]
           here  == {i \in DOMAIN level : level[i].id = id}
<1>1. level \in Seq(Resting) /\ \A x \in IdsIn(level) : x \in Nat /\ FirstVenueId <= x
  BY DEF FollowInv, SoundState, L3Book, Numbered
<1>2. RegisterL3(book_l3, id, o).ahead
        = IF here = {} THEN level ELSE SubSeq(level, 1, Min(here) - 1)
  BY DEF RegisterL3, OrdersAhead
<1>3. id \in Nat /\ id < FirstVenueId /\ FirstVenueId \in Nat
  BY L3Assumption DEF NumbersApart, OrderId
<1> HIDE DEF level
<1>4. DOMAIN level = 1 .. Len(level)
  BY <1>1, LenProperties
<1>5. id \notin IdsIn(level)
  BY <1>1, <1>3
<1>6. here = {}
  BY <1>4, <1>5 DEF IdsIn
<1>7. QED
  BY <1>2, <1>6 DEF LineOf, level

LEMMA WholeIsFront ==
  ASSUME NEW line \in Seq(Resting)
  PROVE  IsFront(line, line, IdsIn(line))
<1>1. line = line \o <<>> /\ <<>> \in Seq(Resting)
  BY ConcatEmptySeq, EmptySeq
<1>2. IdsIn(<<>>) \cap IdsIn(line) = {}
  BY IdsOfNone
<1>3. QED
  BY <1>1, <1>2 DEF IsFront

\* A new order has the whole level ahead; the others stay where they are.
LEMMA ExactOnOrder ==
  ASSUME NumbersApart, ExactInv,
         NEW id \in OrderIds, NEW o \in LimitOrders \cup MarketOrders, OnOrder(id, o)
  PROVE  ExactInv'
<1>0. FollowInv /\ SoundState /\ book_l3 \in L3Book
  BY DEF ExactInv, FollowInv, SoundState
<1>1. /\ Live(ex') = Live(ex) \cup {id} /\ Keeping(ex, ex')
      /\ id \notin Live(ex) /\ id \notin DOMAIN entered
      /\ o.side \in BookSide /\ o.price \in Prices
      /\ ex'.orders[id].queue = RegisterL3(book_l3, id, o)
      /\ ex'.orders[id].side = o.side /\ ex'.orders[id].price = o.price
      /\ entered'[id] = IdsAt(<<o.side, o.price>>)
      /\ \A i \in DOMAIN entered : entered'[i] = entered[i]
      /\ UNCHANGED <<book_l3, venue, pending, feed_order, missed>>
  BY <1>0, OrderIs DEF FeedWaits
<1>2. FollowInv'
  BY <1>0, FollowOnOrder
<1>3. TickFirst => TickFirst'
  BY ZenonT(60), <1>1 DEF TickFirst
<1>4. Exact(id)'
  <2> DEFINE l == LineOf(book_l3, o)
  <2>1. ex'.orders[id].queue.ahead = l
    BY <1>0, <1>1, SnapshotIsWhole
  <2>2. entered'[id] = IdsIn(l)
    BY <1>0, <1>1, IdsAtIs DEF LineOf
  <2>3. LineOf(book_l3', ex'.orders[id]) = l /\ l \in Seq(Resting)
    BY <1>0, <1>1 DEF LineOf, L3Book
  <2> HIDE DEF l
  <2>4. IsFront(l, l, IdsIn(l))
    BY SMTT(60), <2>3, WholeIsFront
  <2>5. QED
    BY <2>1, <2>2, <2>3, <2>4 DEF Exact, ExactAt
<1>5. ASSUME NEW i \in Live(ex) \ missed, Exact(i) PROVE Exact(i)'
  <2>1. i \in Live(ex) \cap Live(ex') /\ i \in DOMAIN entered
    BY <1>0, <1>1 DEF SoundState
  <2>2. Stays(ex.orders[i], ex'.orders[i])
    BY <1>1, <2>1 DEF Keeping
  <2>3. QED
    BY <1>1, <1>5, <2>1, <2>2 DEF Stays, Exact, LineOf
<1>6. QED
  BY <1>1, <1>2, <1>3, <1>4, <1>5 DEF ExactInv

LEMMA ExactCalls ==
  ASSUME ExactInv, NEW id, Calls(id)
  PROVE  ExactInv'
<1>1. FollowInv /\ SoundState
  BY DEF ExactInv, FollowInv
<1>2. /\ Live(ex') \subseteq Live(ex) /\ Keeping(ex, ex')
      /\ UNCHANGED <<entered, book_l3, venue, pending, feed_order, missed>>
  BY <1>1, CallsKeep DEF FeedWaits
<1>3. FollowInv'
  BY SMTT(60), <1>1, FollowCalls
<1>4. ASSUME NEW i \in Live(ex') \ missed, Exact(i) PROVE Exact(i)'
  <2>1. Stays(ex.orders[i], ex'.orders[i])
    BY SMTT(60), <1>2 DEF Keeping
  <2>2. QED
    BY <1>2, <1>4, <2>1 DEF Stays, Exact, LineOf
<1>5. TickFirst => TickFirst'
  BY ZenonT(60), <1>2 DEF TickFirst
<1>6. QED
  BY <1>2, <1>3, <1>4, <1>5 DEF ExactInv

LEMMA ExactNext ==
  ASSUME NumbersApart, ExactInv, [Next]_vars
  PROVE  ExactInv'
<1>1. ASSUME NEW key \in Keys, NEW qty \in VenueQtys, VenueAdds(key, qty) PROVE ExactInv'
  BY <1>1, ExactVenueAdds
<1>2. ASSUME NEW key \in Keys, NEW i \in DOMAIN Line(key), NEW qty \in VenueQtys,
             VenueModifies(key, i, qty) PROVE ExactInv'
  BY <1>2, ExactVenueModifies
<1>3. ASSUME NEW key \in Keys, NEW i \in DOMAIN Line(key), NEW action \in {"MODIFY", "DELETE"},
             VenueDeletes(key, i, action) PROVE ExactInv'
  BY <1>3, ExactVenueDeletes
<1>4. ASSUME NEW key \in Keys, NEW qty \in TradeQtys, VenueTrades(key, qty) PROVE ExactInv'
  BY <1>4, ExactVenueTrades
<1>5. CASE OnL3Update
  BY <1>5, ExactOnL3Update
<1>6. CASE OnTick
  BY <1>6, ExactOnTick
<1>7. ASSUME NEW id \in OrderIds, NEW o \in LimitOrders \cup MarketOrders, OnOrder(id, o)
      PROVE ExactInv'
  BY <1>7, ExactOnOrder
<1>8. ASSUME NEW id \in OrderIds, Calls(id) PROVE ExactInv'
  BY <1>8, ExactCalls
<1>9. CASE UNCHANGED vars
  <2>1. FollowInv'
    BY <1>9, FollowNext DEF ExactInv
  <2>2. \A id \in Live(ex) : Exact(id) => Exact(id)'
    BY SMTT(60), <1>9 DEF vars, sim, past, Exact, LineOf
  <2>3. Live(ex') = Live(ex) /\ (TickFirst => TickFirst') /\ UNCHANGED <<feed_order, missed>>
    BY <1>9 DEF vars, sim, past, TickFirst
  <2>4. QED
    BY <2>1, <2>2, <2>3 DEF ExactInv
<1>10. QED
  BY <1>1, <1>2, <1>3, <1>4, <1>5, <1>6, <1>7, <1>8, <1>9 DEF Next, Calls

(***************************************************************************)
(* L3Exact tracks the queue position exactly: when trades are shown before *)
(* their updates, the list of an order that no update was kept from is,    *)
(* once all was seen, the venue's orders that were in line when the order  *)
(* came and still are, with what they have left, in their order - for any  *)
(* number of orders, prices, quantities and calls.  It takes that the      *)
(* venue's orders and the strategy's do not share their numbers.           *)
(***************************************************************************)
THEOREM QueueAlwaysExact ==
  ASSUME NumbersApart
  PROVE  Spec => []QueueExact
<1>1. ExactInv => QueueExact
  <2> SUFFICES ASSUME ExactInv, feed_order = "TradeFirst", UpToDate, NEW id \in Tracked
               PROVE  ex.orders[id].queue.ahead = AheadOf(id)
    BY DEF QueueExact
  <2> DEFINE o == ex.orders[id]
             a == o.queue.ahead
             l == LineOf(venue, o)
  <2>1. FollowInv /\ SoundState /\ pending = <<>> /\ id \in Live(ex) \ missed
    BY DEF ExactInv, FollowInv, UpToDate, Tracked
  <2>2. a \in Seq(Resting) /\ l \in Seq(Resting)
    BY <2>1, SentOrder
  <2>3. book_l3 = venue
    BY <2>1, UpToDateBook
  <2>4. ExactAt(a, LineOf(book_l3, o), l, entered[id], pending)
    BY <2>1 DEF ExactInv, Exact
  <2>5. AheadOf(id) = Kept(l, {e \in ToSet(l) : e.id \in entered[id]})
    BY DEF AheadOf, Line, LineOf
  <2> HIDE DEF a, l
  <2>6. IsFront(a, l, entered[id])
    BY <2>3, <2>4 DEF ExactAt, l
  <2>7. Kept(l, {e \in ToSet(l) : e.id \in entered[id]}) = a
    BY <2>2, <2>6, FrontIsKept
  <2>8. QED
    BY <2>5, <2>7 DEF a
<1>2. ExactInv /\ [Next]_vars => ExactInv'
  BY ExactNext
<1>3. QED
  BY <1>1, <1>2, ExactInit, PTL DEF Spec

LEMMA Spent ==
  ASSUME NEW t \in Seq(Resting)
  PROVE  \E z \in Seq(AnyEntry) : Below(z, t) /\ Kept(z, Resting) = <<>>
<1> DEFINE n == Len(t)
           f(j) == Entry(t[j].id, 0)
           z == [j \in 1 .. n |-> f(j)]
<1>1. n \in Nat /\ \A j \in 1 .. n : t[j] \in Resting
  BY LenProperties, ElementOfSeq
<1>2. \A e \in Resting : /\ Entry(e.id, 0) \in AnyEntry /\ Entry(e.id, 0).id = e.id
                         /\ Entry(e.id, 0).qty <= e.qty /\ Entry(e.id, 0) \notin Resting
  BY DEF Resting, AnyEntry, Entry
<1>3. \A j \in 1 .. n : /\ f(j) \in AnyEntry /\ f(j).id = t[j].id
                        /\ f(j).qty <= t[j].qty /\ f(j) \notin Resting
  BY <1>1, <1>2
<1>4. \A j \in 1 .. n : z[j] = f(j)
  OBVIOUS
<1> HIDE DEF f
<1>5. z \in Seq(AnyEntry) /\ Len(z) = n
  BY <1>1, <1>3, IsASeq
<1> HIDE DEF z
<1>6. Below(z, t)
  BY <1>3, <1>4, <1>5 DEF Below
<1>7. \A j \in 1 .. Len(z) : z[j] \notin Resting
  BY <1>3, <1>4, <1>5
<1>8. Kept(z, Resting) = <<>>
  BY <1>5, <1>7, KeptAll
<1>9. QED
  BY <1>5, <1>6, <1>8

(***************************************************************************)
(* The list of the orders ahead has less in it than the front of the line: *)
(* at most the orders that were there at entry, with at most what they     *)
(* have left.                                                              *)
(***************************************************************************)
Under(a, line, ent) ==
  \E w \in Seq(Resting), v \in Seq(AnyEntry) :
    IsFront(w, line, ent) /\ Below(v, w) /\ a = Kept(v, Resting)

LEMMA UnderAfterUpdate ==
  ASSUME NEW a \in Seq(Resting), NEW line \in Seq(Resting), NEW ent, Under(a, line, ent),
         Unique(line), NEW u \in L3Messages, u.action # "ADD"
  PROVE  Unique(a) /\ Under(LevelAfter(a, u), LevelAfter(line, u), ent)
<1>1. PICK w \in Seq(Resting), v \in Seq(AnyEntry) :
        IsFront(w, line, ent) /\ Below(v, w) /\ a = Kept(v, Resting)
  BY DEF Under
<1>2. IsFront(LevelAfter(w, u), LevelAfter(line, u), ent) /\ Unique(w)
  BY <1>1, FrontAfterUpdate
<1>3. Unique(Kept(v, Resting))
  BY <1>1, <1>2, UpdateBelow
<1>4. PICK n \in Seq(AnyEntry) :
        Below(n, LevelAfter(w, u)) /\ LevelAfter(Kept(v, Resting), u) = Kept(n, Resting)
  BY <1>1, <1>2, UpdateBelow
<1>5. LevelAfter(w, u) \in Seq(Resting)
  BY LevelAfterType
<1>6. QED
  BY <1>1, <1>2, <1>3, <1>4, <1>5 DEF Under

LEMMA UnderAfterAdd ==
  ASSUME NEW a \in Seq(Resting), NEW line \in Seq(Resting), NEW ent, Under(a, line, ent),
         NEW u \in L3Messages, u.action = "ADD", u.id \notin ent
  PROVE  Under(a, LevelAfter(line, u), ent)
<1>1. PICK w \in Seq(Resting), v \in Seq(AnyEntry) :
        IsFront(w, line, ent) /\ Below(v, w) /\ a = Kept(v, Resting)
  BY DEF Under
<1>2. IsFront(w, LevelAfter(line, u), ent)
  BY <1>1, FrontAfterAdd
<1>3. QED
  BY <1>1, <1>2 DEF Under

LEMMA UnderAfterTrade ==
  ASSUME NEW a \in Seq(Resting), NEW line \in Seq(Resting), NEW ent, Under(a, line, ent),
         NEW qty \in Nat
  PROVE  Under(Consumed(a, qty), line, ent)
<1>1. PICK w \in Seq(Resting), v \in Seq(AnyEntry) :
        IsFront(w, line, ent) /\ Below(v, w) /\ a = Kept(v, Resting)
  BY DEF Under
<1>2. PICK n \in Seq(AnyEntry) : Below(n, v) /\ Consumed(Kept(v, Resting), qty) = Kept(n, Resting)
  BY TradeBelow
<1>3. w \in Seq(AnyEntry)
  BY RestingIsEntry
<1>4. Below(n, w)
  BY <1>1, <1>2, <1>3, BelowBelow
<1>5. QED
  BY <1>1, <1>2, <1>4 DEF Under

\* What is before one of the line, or all of it.
LEMMA SnapshotUnder ==
  ASSUME book_l3 \in L3Book, NEW id, NEW o, o.side \in BookSide, o.price \in Prices
  PROVE  LET line == LineOf(book_l3, o)
         IN  Under(RegisterL3(book_l3, id, o).ahead, line, IdsIn(line))
<1> DEFINE level == book_l3[o.side][o.price]
           here  == {i \in DOMAIN level : level[i].id = id}
           a     == RegisterL3(book_l3, id, o).ahead
<1>1. level \in Seq(Resting)
  BY DEF L3Book
<1>2. a = IF here = {} THEN level ELSE SubSeq(level, 1, Min(here) - 1)
  BY DEF RegisterL3, OrdersAhead
<1>3. LineOf(book_l3, o) = level
  BY DEF LineOf
<1> HIDE DEF level, a
<1>4. level \in Seq(AnyEntry)
  BY <1>1, RestingIsEntry
<1>5. IsFront(level, level, IdsIn(level))
  BY <1>1, WholeIsFront
<1>6. CASE here = {}
  <2>1. Below(level, level) /\ a = Kept(level, Resting)
    BY <1>1, <1>2, <1>4, <1>6, BelowItself, KeptResting
  <2>2. QED
    BY <1>1, <1>3, <1>4, <1>5, <2>1 DEF Under, a
<1>7. CASE here # {}
  <2> DEFINE i == Min(here)
             e == level[i]
             b == SubSeq(level, i + 1, Len(level))
             f == SubSeq(level, 1, i - 1)
             rest == <<e>> \o b
  <2>1. i \in 1 .. Len(level)
    <3>1. here \in SUBSET Nat /\ here \subseteq 1 .. Len(level)
      BY <1>1, LenProperties
    <3> HIDE DEF here
    <3>2. QED
      BY <1>7, <3>1, LeastOf
  <2> HIDE DEF i
  <2>2. e \in Resting /\ f \in Seq(Resting) /\ b \in Seq(Resting) /\ level = (f \o <<e>>) \o b
    BY <1>1, <2>1, Around, ElementOfSeq
  <2>3. a = f
    BY <1>2, <1>7 DEF i
  <2> HIDE DEF f, b, e
  <2>4. rest \in Seq(Resting) /\ level = f \o rest
    <3> DEFINE one == <<e>>
    <3>1. one \in Seq(Resting) /\ level = (f \o one) \o b
      BY <2>2
    <3> HIDE DEF one
    <3>2. (f \o one) \o b = f \o (one \o b) /\ one \o b \in Seq(Resting)
      BY <2>2, <3>1, ConcatAssociative, ConcatProperties
    <3>3. QED
      BY <3>1, <3>2 DEF one
  <2> HIDE DEF rest
  <2>5. PICK z \in Seq(AnyEntry) : Below(z, rest) /\ Kept(z, Resting) = <<>>
    BY <2>4, Spent
  <2>6. f \in Seq(AnyEntry) /\ rest \in Seq(AnyEntry)
    BY <2>2, <2>4, RestingIsEntry
  <2>7. Below(f, f)
    BY <2>6, BelowItself
  <2>8. Below(f \o z, f \o rest) /\ f \o z \in Seq(AnyEntry)
    BY <2>5, <2>6, <2>7, BelowConcat, ConcatProperties
  <2>9. Kept(f \o z, Resting) = f
    <3>1. Kept(f \o z, Resting) = Kept(f, Resting) \o Kept(z, Resting)
      BY <2>6, KeptOfConcat
    <3>2. Kept(f, Resting) = f
      BY <2>2, KeptResting
    <3>3. f \o <<>> = f
      BY <2>2, ConcatEmptySeq
    <3>4. QED
      BY <2>5, <3>1, <3>2, <3>3
  <2>10. QED
    BY <1>1, <1>3, <1>5, <2>3, <2>4, <2>8, <2>9 DEF Under, a
<1>8. QED
  BY <1>6, <1>7

UnderFront(id) ==
  Under(ex.orders[id].queue.ahead, LineOf(book_l3, ex.orders[id]), entered[id])

UnderInv == FollowInv /\ \A id \in Live(ex) \ missed : UnderFront(id)

LEMMA UnderInit == Init => UnderInv
<1> SUFFICES ASSUME Init PROVE UnderInv
  OBVIOUS
<1>1. Live(ex) = {}
  BY DEF Init, NewExchange, Live
<1>2. QED
  BY <1>1, FollowInit DEF UnderInv

LEMMA UnderOnL3Update ==
  ASSUME UnderInv, OnL3Update
  PROVE  UnderInv'
<1> DEFINE u == Head(pending)
<1>0. FollowInv /\ SoundState
  BY DEF UnderInv, FollowInv
<1>1. UNCHANGED entered
  BY DEF OnL3Update
<1>2. /\ FollowInv' /\ u \in L3Messages
      /\ u.action = "ADD" => Unseen(u.id)
  BY <1>0, FollowOnL3Update
<1>3. /\ Live(ex') = Live(ex) /\ missed \subseteq missed'
      /\ \A id \in Live(ex) \ missed' :
           LET o == ex.orders[id]
               n == ex'.orders[id]
           IN  /\ n.side = o.side /\ n.price = o.price
               /\ u.action = "ADD" => n.queue.ahead = o.queue.ahead
               /\ u.action # "ADD" /\ Unique(o.queue.ahead) =>
                    n.queue.ahead = IF <<u.side, u.price>> = <<o.side, o.price>>
                                    THEN LevelAfter(o.queue.ahead, u)
                                    ELSE o.queue.ahead
      /\ \A s \in BookSide, p \in Prices :
           book_l3'[s][p] = IF s = u.side /\ p = u.price
                            THEN LevelAfter(book_l3[s][p], u) ELSE book_l3[s][p]
  BY <1>0, AheadOnL3Update
<1> HIDE DEF u
<1>4. ASSUME NEW id \in Live(ex) \ missed', UnderFront(id) PROVE UnderFront(id)'
  <2> DEFINE o == ex.orders[id]
             n == ex'.orders[id]
             a == o.queue.ahead
             l == LineOf(book_l3, o)
             e == entered[id]
             here == <<u.side, u.price>> = <<o.side, o.price>>
  <2>1. /\ n.side = o.side /\ n.price = o.price
        /\ u.action = "ADD" => n.queue.ahead = a
        /\ u.action # "ADD" /\ Unique(a) =>
             n.queue.ahead = IF here THEN LevelAfter(a, u) ELSE a
    BY <1>3
  <2>2. /\ a \in Seq(Resting) /\ o.side \in BookSide /\ o.price \in Prices
        /\ l \in Seq(Resting) /\ id \in DOMAIN entered
    BY <1>0, SentOrder
  <2>3. LineOf(book_l3', n) = IF here THEN LevelAfter(l, u) ELSE l
    BY <1>3, <2>1, <2>2 DEF LineOf
  <2>4. Unique(l)
    BY <1>0, <2>2 DEF LineOf, FollowInv, Numbered
  <2>5. UnderFront(id)' <=> Under(n.queue.ahead, LineOf(book_l3', n), e)
    BY <1>1 DEF UnderFront
  <2>6. Under(a, l, e)
    BY <1>4 DEF UnderFront
  <2>7. u.action = "ADD" => u.id \notin e
    BY <1>2, <2>2 DEF Unseen
  <2> HIDE DEF o, n, a, l, e
  <2>8. CASE u.action = "ADD"
    <3>1. Under(a, LevelAfter(l, u), e)
      BY <1>2, <2>2, <2>6, <2>7, <2>8, UnderAfterAdd
    <3>2. QED
      BY <2>1, <2>3, <2>5, <2>6, <2>8, <3>1
  <2>9. CASE u.action # "ADD"
    <3>1. Under(LevelAfter(a, u), LevelAfter(l, u), e) /\ Unique(a)
      BY <1>2, <2>2, <2>4, <2>6, <2>9, UnderAfterUpdate
    <3>2. QED
      BY <2>1, <2>3, <2>5, <2>6, <2>9, <3>1
  <2>10. QED
    BY <2>8, <2>9
<1>5. QED
  BY <1>2, <1>3, <1>4 DEF UnderInv

LEMMA UnderOnTick ==
  ASSUME UnderInv, OnTick
  PROVE  UnderInv'
<1> DEFINE u == Head(pending)
<1>0. FollowInv /\ SoundState
  BY DEF UnderInv, FollowInv
<1>1. UNCHANGED <<book_l3, entered, missed>>
  BY DEF OnTick, past
<1>2. FollowInv'
  BY <1>0, FollowOnTick
<1>3. /\ u \in TradeMessages /\ Live(ex') = Live(ex)
      /\ \A id \in Live(ex) :
           LET o == ex.orders[id]
               n == ex'.orders[id]
           IN  /\ n.side = o.side /\ n.price = o.price
               /\ \/ n.queue.ahead = o.queue.ahead
                  \/ /\ o.price = u.price /\ o.side = MakerSide(u.side)
                     /\ n.queue.ahead = Consumed(o.queue.ahead, u.qty)
  BY <1>0, AheadOnTick
<1>4. u.qty \in Nat
  BY <1>3, KindsOfMessages
<1> HIDE DEF u
<1>5. ASSUME NEW id \in Live(ex) \ missed, UnderFront(id) PROVE UnderFront(id)'
  <2> DEFINE o == ex.orders[id]
             n == ex'.orders[id]
             a == o.queue.ahead
             l == LineOf(book_l3, o)
             e == entered[id]
  <2>1. n.queue.ahead \in {a, Consumed(a, u.qty)} /\ LineOf(book_l3', n) = l
    BY <1>1, <1>3 DEF LineOf
  <2>2. a \in Seq(Resting) /\ l \in Seq(Resting)
    BY <1>0, SentOrder
  <2>3. UnderFront(id)' <=> Under(n.queue.ahead, l, e)
    BY <1>1, <2>1 DEF UnderFront
  <2>4. Under(a, l, e)
    BY <1>5 DEF UnderFront
  <2> HIDE DEF o, n, a, l, e
  <2>5. Under(Consumed(a, u.qty), l, e)
    BY <1>4, <2>2, <2>4, UnderAfterTrade
  <2>6. QED
    BY SMTT(60), <2>1, <2>3, <2>4, <2>5
<1>6. QED
  BY <1>1, <1>2, <1>3, <1>5 DEF UnderInv

LEMMA UnderOnOrder ==
  ASSUME UnderInv, NEW id \in OrderIds, NEW o \in LimitOrders \cup MarketOrders, OnOrder(id, o)
  PROVE  UnderInv'
<1>0. FollowInv /\ SoundState /\ book_l3 \in L3Book
  BY DEF UnderInv, FollowInv, SoundState
<1>1. /\ Live(ex') = Live(ex) \cup {id} /\ Keeping(ex, ex')
      /\ id \notin Live(ex) /\ id \notin DOMAIN entered
      /\ o.side \in BookSide /\ o.price \in Prices
      /\ ex'.orders[id].queue = RegisterL3(book_l3, id, o)
      /\ ex'.orders[id].side = o.side /\ ex'.orders[id].price = o.price
      /\ entered'[id] = IdsAt(<<o.side, o.price>>)
      /\ \A i \in DOMAIN entered : entered'[i] = entered[i]
      /\ UNCHANGED <<book_l3, missed>>
  BY <1>0, OrderIs DEF FeedWaits
<1>2. FollowInv'
  BY <1>0, FollowOnOrder
<1>3. UnderFront(id)'
  <2> DEFINE l == LineOf(book_l3, o)
             a == RegisterL3(book_l3, id, o).ahead
  <2>1. Under(a, l, IdsIn(l))
    BY <1>0, <1>1, SnapshotUnder
  <2>2. entered'[id] = IdsIn(l)
    BY <1>0, <1>1, IdsAtIs DEF LineOf
  <2>3. LineOf(book_l3', ex'.orders[id]) = l /\ ex'.orders[id].queue.ahead = a
    BY <1>1 DEF LineOf
  <2> HIDE DEF l, a
  <2>4. QED
    BY <2>1, <2>2, <2>3 DEF UnderFront
<1>4. ASSUME NEW i \in Live(ex) \ missed, UnderFront(i) PROVE UnderFront(i)'
  <2>1. i \in Live(ex) \cap Live(ex') /\ i \in DOMAIN entered
    BY <1>0, <1>1 DEF SoundState
  <2>2. Stays(ex.orders[i], ex'.orders[i])
    BY <1>1, <2>1 DEF Keeping
  <2>3. QED
    BY <1>1, <1>4, <2>1, <2>2 DEF Stays, UnderFront, LineOf
<1>5. QED
  BY <1>1, <1>2, <1>3, <1>4 DEF UnderInv

LEMMA UnderCalls ==
  ASSUME UnderInv, NEW id, Calls(id)
  PROVE  UnderInv'
<1>1. FollowInv /\ SoundState
  BY DEF UnderInv, FollowInv
<1>2. /\ Live(ex') \subseteq Live(ex) /\ Keeping(ex, ex')
      /\ UNCHANGED <<entered, book_l3, missed>>
  BY <1>1, CallsKeep DEF FeedWaits
<1>3. FollowInv'
  BY <1>1, FollowCalls
<1>4. ASSUME NEW i \in Live(ex') \ missed, UnderFront(i) PROVE UnderFront(i)'
  <2>1. Stays(ex.orders[i], ex'.orders[i])
    BY <1>2 DEF Keeping
  <2>2. QED
    BY <1>2, <1>4, <2>1 DEF Stays, UnderFront, LineOf
<1>5. QED
  BY <1>2, <1>3, <1>4 DEF UnderInv

LEMMA UnderNext == UnderInv /\ [Next]_vars => UnderInv'
<1> SUFFICES ASSUME UnderInv, [Next]_vars PROVE UnderInv'
  OBVIOUS
<1>1. FollowInv'
  BY FollowNext DEF UnderInv
<1>2. CASE UNCHANGED <<sim, past>>
  <2>1. UNCHANGED <<ex, book_l3, entered, missed>>
    BY <1>2 DEF sim, past
  <2>2. QED
    BY <1>1, <2>1 DEF UnderInv, UnderFront, LineOf, Live
<1>3. ASSUME NEW key \in Keys, NEW qty \in VenueQtys, VenueAdds(key, qty) PROVE UnderInv'
  BY <1>2, <1>3 DEF VenueAdds
<1>4. ASSUME NEW key \in Keys, NEW line, NEW messages, VenueChanges(key, line, messages)
      PROVE  UnderInv'
  BY <1>2, <1>4 DEF VenueChanges
<1>5. ASSUME NEW key \in Keys, NEW i \in DOMAIN Line(key), NEW qty \in VenueQtys,
             VenueModifies(key, i, qty) PROVE UnderInv'
  BY <1>4, <1>5 DEF VenueModifies
<1>6. ASSUME NEW key \in Keys, NEW i \in DOMAIN Line(key), NEW action \in {"MODIFY", "DELETE"},
             VenueDeletes(key, i, action) PROVE UnderInv'
  BY <1>4, <1>6 DEF VenueDeletes
<1>7. ASSUME NEW key \in Keys, NEW qty \in TradeQtys, VenueTrades(key, qty) PROVE UnderInv'
  BY <1>4, <1>7 DEF VenueTrades
<1>8. CASE OnL3Update
  BY <1>8, UnderOnL3Update
<1>9. CASE OnTick
  BY <1>9, UnderOnTick
<1>10. ASSUME NEW id \in OrderIds, NEW o \in LimitOrders \cup MarketOrders, OnOrder(id, o)
       PROVE UnderInv'
  BY <1>10, UnderOnOrder
<1>11. ASSUME NEW id \in OrderIds, Calls(id) PROVE UnderInv'
  BY <1>11, UnderCalls
<1>12. CASE UNCHANGED vars
  BY <1>2, <1>12 DEF vars
<1>13. QED
  BY <1>3, <1>5, <1>6, <1>7, <1>8, <1>9, <1>10, <1>11, <1>12 DEF Next, Calls

(***************************************************************************)
(* Wherever the feed shows its trades, and whatever numbers the orders     *)
(* have: once all was seen, no order that no update was kept from has more *)
(* ahead than at the venue.  It may fill too early, never too late.        *)
(***************************************************************************)
THEOREM AlwaysNeverTooFarBack == Spec => []NeverTooFarBack
<1>1. UnderInv => NeverTooFarBack
  <2> SUFFICES ASSUME UnderInv, UpToDate, NEW id \in Tracked
               PROVE  ex.orders[id].queue.qty_ahead <= QtyOf(AheadOf(id))
    BY DEF NeverTooFarBack
  <2> DEFINE o == ex.orders[id]
             a == o.queue.ahead
             l == LineOf(venue, o)
             e == entered[id]
  <2>1. FollowInv /\ SoundState /\ pending = <<>> /\ id \in Live(ex) \ missed
    BY DEF UnderInv, FollowInv, UpToDate, Tracked
  <2>2. a \in Seq(Resting) /\ l \in Seq(Resting) /\ o.queue.qty_ahead = QtyOf(a)
    BY <2>1, SentOrder
  <2>3. book_l3 = venue
    BY <2>1, UpToDateBook
  <2>4. Under(a, l, e)
    BY <2>1, <2>3 DEF UnderInv, UnderFront
  <2>5. AheadOf(id) = Kept(l, {x \in ToSet(l) : x.id \in e})
    BY DEF AheadOf, Line, LineOf
  <2> HIDE DEF a, l, e, o
  <2>6. PICK w \in Seq(Resting), v \in Seq(AnyEntry) :
          IsFront(w, l, e) /\ Below(v, w) /\ a = Kept(v, Resting)
    BY <2>4 DEF Under
  <2>7. AheadOf(id) = w
    BY <2>2, <2>5, <2>6, FrontIsKept
  <2>8. QtyOf(a) = QtyOf(v)
    <3> DEFINE T == {x \in ToSet(v) : x.qty > 0}
    <3>1. Kept(v, T) = Kept(v, Resting)
      BY StandingIsResting
    <3>2. \A x \in ToSet(v) : x \in T <=> x.qty > 0
      OBVIOUS
    <3> HIDE DEF T
    <3>3. QtyOf(Kept(v, T)) = QtyOf(v)
      BY <3>2, KeptQty
    <3>4. QED
      BY <2>6, <3>1, <3>3
  <2>9. QtyOf(v) <= QtyOf(w)
    BY <2>6, BelowQty
  <2>10. QED
    BY <2>2, <2>7, <2>8, <2>9 DEF o
<1>2. QED
  BY <1>1, UnderInit, UnderNext, PTL DEF Spec
=============================================================================
