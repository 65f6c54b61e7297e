---------------------------- MODULE OrderBookL2 ----------------------------
(***************************************************************************)
(* backtester-core/src/orderbook_l2.rs: the price-level book.  A book maps *)
(* each side and price to the visible quantity; 0 stands for a level that  *)
(* is not in the map, because an update of quantity 0 removes the level.   *)
(***************************************************************************)
EXTENDS OrderTypes

CONSTANT Prices   \* the prices that occur

ASSUME PricesAssumption == Prices \subseteq Nat \ {0}

BookSide == {"Buy", "Sell"}

Book == [BookSide -> [Prices -> Nat]]

EmptyBook == [s \in BookSide |-> [p \in Prices |-> 0]]

\* Option<price>: 0 is None.
NoPrice == 0

ApplyL2(book, side, price, qty) ==
  IF side \in BookSide THEN [book EXCEPT ![side][price] = qty] ELSE book

LevelQty(book, side, price) ==
  IF side \in BookSide THEN book[side][price] ELSE 0

Quoted(book, side) == {p \in Prices : book[side][p] > 0}

Highest(S) == {p \in S : \A q \in S : q <= p}
Lowest(S)  == {p \in S : \A q \in S : p <= q}

AnyOf(S) == IF S = {} THEN NoPrice ELSE CHOOSE p \in S : TRUE

BestBid(book) == AnyOf(Highest(Quoted(book, "Buy")))
BestAsk(book) == AnyOf(Lowest(Quoted(book, "Sell")))
=============================================================================
