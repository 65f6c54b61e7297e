---------------------------- MODULE OrderBookL3 ----------------------------
(***************************************************************************)
(* backtester-core/src/orderbook_l3.rs: the order-by-order book.  A book   *)
(* maps each side and price to the venue's orders there, first in line     *)
(* first; an empty sequence stands for a level that is not in the map.     *)
(***************************************************************************)
EXTENDS OrderBookL2, Selection

L3Action == {"ADD", "MODIFY", "DELETE"}

\* One of the venue's orders in a level.
Entry(id, qty) == [id |-> id, qty |-> qty]

EmptyBookL3 == [s \in BookSide |-> [p \in Prices |-> <<>>]]

AddQty(sum, e) == sum + e.qty

QtyOf(entries) == FoldLeft(AddQty, 0, entries)

Without(entries, id) == Kept(entries, {e \in ToSet(entries) : e.id # id})

\* Faulty: a modified order goes to the end of the line.
Requeued(entries, id, qty) ==
  IF \E i \in DOMAIN entries : entries[i].id = id
  THEN Append(Without(entries, id), Entry(id, qty)) ELSE entries

\* The first order of that id, if any, gets the new quantity in its place.
Resized(entries, id, qty) ==
  [i \in DOMAIN entries |->
     IF entries[i].id = id /\ \A j \in 1 .. i - 1 : entries[j].id # id
     THEN Entry(id, qty) ELSE entries[i]]

\* The Ok condition of apply_l3.
ValidL3(u) ==
  /\ u.side \in BookSide
  /\ u.action = "ADD" => u.qty > 0
  /\ u.action = "MODIFY" => u.qty >= 0

LevelAfter(entries, u) ==
  CASE u.action = "ADD"    -> Append(entries, Entry(u.id, u.qty))
    [] u.action = "MODIFY" -> IF u.qty = 0 THEN Without(entries, u.id)
                              ELSE Resized(entries, u.id, u.qty)
    [] u.action = "DELETE" -> Without(entries, u.id)

ApplyL3(book, u) == [book EXCEPT ![u.side][u.price] = LevelAfter(@, u)]

(***************************************************************************)
(* orders_ahead: the orders before the one with the id that is asked for,  *)
(* the whole level if there is none.                                       *)
(***************************************************************************)
OrdersAhead(book, side, price, id) ==
  LET level == IF side \in BookSide THEN book[side][price] ELSE <<>>
      here  == {i \in DOMAIN level : level[i].id = id}
  IN  IF here = {} THEN level ELSE SubSeq(level, 1, Min(here) - 1)

(***************************************************************************)
(* The price levels of the book: what level_qty adds up and what best_bid  *)
(* and best_ask look at.                                                   *)
(***************************************************************************)
LevelsOf(book) == [s \in BookSide |-> [p \in Prices |-> QtyOf(book[s][p])]]
=============================================================================
