----------------------------- MODULE L3Exchange -----------------------------
(***************************************************************************)
(* An exchange simulator in L3 mode (backtester-core/src/                  *)
(* exchange_simulator.rs with book_l3 and L3ExactQueue) replaying the feed *)
(* of a venue.  The venue is a first-in first-out queue per side and       *)
(* price.  It shows each order that comes, changes or goes as an L3        *)
(* update, and a trade as a tick and the updates of the orders it took     *)
(* from.  The strategy's calls fall anywhere between these messages.       *)
(*                                                                         *)
(* The methods that do not look at the book are those of Exchange.tla,     *)
(* whose L2 book stays empty here.  The venue is not code: it says what    *)
(* the simulator tries to keep track of.                                   *)
(***************************************************************************)
EXTENDS Exchange, L3ExactQueue

CONSTANTS
  Sides,           \* the sides the venue and the strategy have orders on
  OrderIds,        \* the ids of the strategy's orders
  OrderQtys,       \* their quantities
  VenueQtys,       \* the quantities of the venue's orders
  TradeQtys,       \* the quantities of trades
  FirstVenueId,    \* the id of the venue's first order
  MaxVenueOrders,  \* bound: orders the venue ever has
  MaxChanges,      \* bound: changes, deletions and trades at the venue
  FeedOrders       \* where the feed shows a trade: before or after its updates

ASSUME L3Assumption ==
  /\ Sides \subseteq BookSide
  /\ OrderIds \subseteq OrderId
  /\ OrderQtys \subseteq Nat \ {0}
  /\ VenueQtys \subseteq Nat \ {0}
  /\ TradeQtys \subseteq Nat \ {0}
  /\ FirstVenueId \in Nat /\ MaxVenueOrders \in Nat /\ MaxChanges \in Nat
  /\ FeedOrders \subseteq {"TradeFirst", "UpdatesFirst"}

VARIABLES
  ex,         \* the simulator but for its L3 book
  book_l3,    \* the simulator's L3 book
  truth,      \* the price of the last trade, NoPrice before the first
  venue,      \* the venue's own book
  next_id,    \* the id of the venue's next order
  changes,    \* how many changes, deletions and trades there were
  pending,    \* what the feed has yet to show of the venue's last event
  feed_order, \* where this feed shows trades, chosen once
  entered,    \* order id -> the venue's orders that were ahead when it came
  missed      \* the orders an update was kept from, with a cancel in flight

sim  == <<ex, book_l3, truth>>
past == <<entered, missed>>
vars == <<sim, venue, next_id, changes, pending, feed_order, past>>

Init ==
  /\ ex = NewExchange("L3Exact")
  /\ book_l3 = EmptyBookL3
  /\ truth = NoPrice
  /\ venue = EmptyBookL3
  /\ next_id = FirstVenueId
  /\ changes = 0
  /\ pending = <<>>
  /\ feed_order \in FeedOrders
  /\ entered = <<>>
  /\ missed = {}

-----------------------------------------------------------------------------
\* The venue.

Keys == Sides \X Prices

Update(key, action, id, qty) ==
  [kind |-> "L3Update", side |-> key[1], price |-> key[2],
   action |-> action, id |-> id, qty |-> qty]

\* A trade names the side of the aggressor.
Trade(key, qty) ==
  [kind |-> "Tick", side |-> MakerSide(key[1]), price |-> key[2], qty |-> qty]

Line(key) == venue[key[1]][key[2]]

VenueSets(key, line) == venue' = [venue EXCEPT ![key[1]][key[2]] = line]

VenueAdds(key, qty) ==
  /\ pending = <<>>
  /\ next_id < FirstVenueId + MaxVenueOrders
  /\ VenueSets(key, Append(Line(key), Entry(next_id, qty)))
  /\ pending' = <<Update(key, "ADD", next_id, qty)>>
  /\ next_id' = next_id + 1
  /\ UNCHANGED <<sim, changes, feed_order, past>>

VenueChanges(key, line, messages) ==
  /\ pending = <<>>
  /\ changes < MaxChanges
  /\ changes' = changes + 1
  /\ VenueSets(key, line)
  /\ pending' = messages
  /\ UNCHANGED <<sim, next_id, feed_order, past>>

VenueModifies(key, i, qty) ==
  VenueChanges(key, [Line(key) EXCEPT ![i].qty = qty],
               <<Update(key, "MODIFY", Line(key)[i].id, qty)>>)

\* Shown as a deletion or as a change to nothing.
VenueDeletes(key, i, action) ==
  VenueChanges(key, RemoveAt(Line(key), i), <<Update(key, action, Line(key)[i].id, 0)>>)

\* A trade serves the line from its front: an order gives all it has or what
\* is asked for, and served is what each of them has left then.
Serve(r, e) ==
  IF r.asked = 0 THEN [r EXCEPT !.line = Append(@, e)]
  ELSE IF r.asked < e.qty
  THEN [asked  |-> 0,
        line   |-> Append(r.line, Entry(e.id, e.qty - r.asked)),
        served |-> Append(r.served, Entry(e.id, e.qty - r.asked))]
  ELSE [asked  |-> r.asked - e.qty,
        line   |-> r.line,
        served |-> Append(r.served, Entry(e.id, 0))]

Served(line, qty) == FoldLeft(Serve, [asked |-> qty, line |-> <<>>, served |-> <<>>], line)

\* The update of an order that was served.
Show(key, e) ==
  IF e.qty = 0 THEN Update(key, "DELETE", e.id, 0) ELSE Update(key, "MODIFY", e.id, e.qty)

VenueTrades(key, qty) ==
  LET done  == Served(Line(key), qty)
      shown == [i \in DOMAIN done.served |-> Show(key, done.served[i])]
      tick  == <<Trade(key, qty)>>
  IN  VenueChanges(key, done.line, IF feed_order = "TradeFirst" THEN tick \o shown
                                   ELSE shown \o tick)

-----------------------------------------------------------------------------
\* The simulator.

\* Faulty: an order that is not acknowledged yet is left out.
FollowingOnceOpen == {"Open", "PartiallyFilled"}

\* The states in which an order follows the book.
Following == {"PendingNew", "Open", "PartiallyFilled"}

ApplyL3ToOrders(x, u) ==
  [x EXCEPT !.orders =
     [id \in Live(x) |->
        IF StateOf(x, id) \in Following
        THEN [x.orders[id] EXCEPT !.queue = AfterL3Update(x.orders[id], u)]
        ELSE x.orders[id]]]

OnTradeL3(x, trade) ==
  [x EXCEPT !.orders =
     [id \in Live(x) |->
        LET o == x.orders[id]
        IN  IF id \in Asked(x, trade)
            THEN AfterAnswer(o, L3Fill(o.queue, o.remaining, trade.qty)) ELSE o]]

Shows(kind) == pending # <<>> /\ Head(pending).kind = kind

\* The orders u would have changed, had they followed it.
KeptFrom(u) ==
  {id \in Live(ex) : /\ StateOf(ex, id) \in {"PendingCancel"} \cup Terminal
                     /\ AfterL3Update(ex.orders[id], u) # ex.orders[id].queue}

OnL3Update ==
  /\ Shows("L3Update")
  /\ ValidL3(Head(pending))
  /\ ex' = ApplyL3ToOrders(ex, Head(pending))
  /\ book_l3' = ApplyL3(book_l3, Head(pending))
  /\ missed' = missed \cup KeptFrom(Head(pending))
  /\ pending' = Tail(pending)
  /\ UNCHANGED <<truth, venue, next_id, changes, feed_order, entered>>

OnTick ==
  /\ Shows("Tick")
  /\ ex' = OnTradeL3(ex, Head(pending))
  /\ truth' = Head(pending).price
  /\ pending' = Tail(pending)
  /\ UNCHANGED <<book_l3, venue, next_id, changes, feed_order, past>>

\* The strategy's side of the simulator; the feed stands still.
FeedWaits ==
  UNCHANGED <<book_l3, truth, venue, next_id, changes, pending, feed_order, missed>>

\* The venue's orders that were shown to be there.
IdsAt(key) == LET level == book_l3[key[1]][key[2]] IN {level[i].id : i \in DOMAIN level}

OnOrder(id, o) ==
  /\ id \notin DOMAIN entered
  /\ ex' = [SubmitOrder(ex, id, o) EXCEPT !.orders[id].queue = RegisterL3(book_l3, id, o)]
  /\ entered' = Insert(entered, id, IdsAt(<<o.side, o.price>>))
  /\ FeedWaits

OnLimitAck(id) ==
  /\ CanAckNew(ex, id) /\ ex.orders[id].type = "Limit"
  /\ ex' = AckNew(ex, id)
  /\ UNCHANGED entered /\ FeedWaits

\* fill_market_immediately over the L3 book; the L2 book stays as it is.
TakeFromLevels(x, book, id, fallback) ==
  [FillMarketImmediately([x EXCEPT !.book = LevelsOf(book)], id, fallback)
     EXCEPT !.book = x.book]

(***************************************************************************)
(* A market order takes from the best level of the L3 book; the last trade *)
(* prices it when there is none.  What it does not get is cancelled.       *)
(***************************************************************************)
ExecuteMarketL3(x, book, id, fallback) ==
  LET done == TakeFromLevels(x, book, id, fallback)
  IN  IF StateOf(done, id) = "PartiallyFilled" THEN ForceCancelPartialFill(done, id)
      ELSE done

OnMarketAck(id) ==
  /\ CanAckNew(ex, id) /\ ex.orders[id].type = "Market"
  /\ ex' = ExecuteMarketL3(ex, book_l3, id, truth)
  /\ UNCHANGED entered /\ FeedWaits

OnCancel(id) ==
  CanCancelOrder(ex, id) /\ ex' = CancelOrder(ex, id) /\ UNCHANGED entered /\ FeedWaits

OnCancelAck(id) ==
  CanAckCancel(ex, id) /\ ex' = AckCancel(ex, id) /\ UNCHANGED entered /\ FeedWaits

OnTerminalReport(id) ==
  /\ id \in Live(ex) /\ IsTerminal(StateOf(ex, id))
  /\ ex' = RemoveOrder(ex, id)
  /\ UNCHANGED entered /\ FeedWaits

LimitOrders == [side : Sides, type : {"Limit"}, price : Prices, qty : OrderQtys]

\* Market orders come from both sides: they take from what the other one has.
MarketOrders == [side : BookSide, type : {"Market"}, price : Prices, qty : OrderQtys]

Next ==
  \/ \E key \in Keys, qty \in VenueQtys : VenueAdds(key, qty)
  \/ \E key \in Keys : \E i \in DOMAIN Line(key), qty \in VenueQtys : VenueModifies(key, i, qty)
  \/ \E key \in Keys : \E i \in DOMAIN Line(key), action \in {"MODIFY", "DELETE"} :
       VenueDeletes(key, i, action)
  \/ \E key \in Keys, qty \in TradeQtys : VenueTrades(key, qty)
  \/ OnL3Update
  \/ OnTick
  \/ \E id \in OrderIds, o \in LimitOrders \cup MarketOrders : OnOrder(id, o)
  \/ \E id \in OrderIds :
       OnLimitAck(id) \/ OnMarketAck(id) \/ OnCancel(id) \/ OnCancelAck(id)
         \/ OnTerminalReport(id)

Spec == Init /\ [][Next]_vars

-----------------------------------------------------------------------------
L3Queue == [qty_ahead : Nat, ahead : Seq([id : Nat, qty : Nat \ {0}])]

(***************************************************************************)
(* Every field keeps its type, and filled and remaining quantity add up to *)
(* the order's; the total ahead is never negative, although on_l3_update   *)
(* subtracts from it without a check.                                      *)
(***************************************************************************)
TypeOK ==
  /\ \A id \in Live(ex) :
       ex.orders[id] \in
         [side : BookSide, type : OrderType, price : Prices, qty : OrderQtys,
          state : OrderState, filled : Nat, remaining : Nat, queue : L3Queue]
  /\ \A id \in Live(ex) : Conserved(ex.orders[id])
  /\ truth \in Prices \cup {NoPrice}
  /\ \A s \in BookSide, p \in Prices : book_l3[s][p] \in Seq([id : Nat, qty : Nat \ {0}])

\* The venue's orders ahead of order id now, first in line first.
AheadOf(id) ==
  LET o    == ex.orders[id]
      line == Line(<<o.side, o.price>>)
  IN  Kept(line, {e \in ToSet(line) : e.id \in entered[id]})

\* The simulator has seen all of the venue's last event.
UpToDate == pending = <<>>

\* The orders no update was kept from.
Tracked == {id \in Live(ex) \ missed : ~IsTerminal(StateOf(ex, id))}

\* A message of the feed in the book.
AfterMessage(book, m) == IF m.kind = "L3Update" THEN ApplyL3(book, m) ELSE book

(***************************************************************************)
(* The book is the venue's, apart from the updates still to be shown: the  *)
(* same orders with the same quantities in the same order of priority,     *)
(* over any additions, changes, deletions and trades (SPEC.md 3.2, L3      *)
(* mode).                                                                  *)
(***************************************************************************)
BookFollowsVenue == FoldLeft(AfterMessage, book_l3, pending) = venue

(***************************************************************************)
(* L3Exact tracks the queue position exactly (SPEC.md 3.3 C): when a trade *)
(* is shown before the updates it causes, the orders an order has ahead    *)
(* are those that were in line at the venue when it came and still are,    *)
(* with what they have left, in their order of priority, though each trade *)
(* is taken off once by check_fill and once more by on_l3_update.  Orders  *)
(* an update was kept from while their cancel was in flight are left out.  *)
(***************************************************************************)
QueueExact ==
  feed_order = "TradeFirst" /\ UpToDate =>
    \A id \in Tracked : ex.orders[id].queue.ahead = AheadOf(id)

(***************************************************************************)
(* Wherever the feed shows its trades, no order is further back in the     *)
(* line than at the venue.  (When the updates come first the trade is      *)
(* taken off twice, and the order may fill too early, never too late.)     *)
(***************************************************************************)
NeverTooFarBack ==
  UpToDate => \A id \in Tracked : ex.orders[id].queue.qty_ahead <= QtyOf(AheadOf(id))

(***************************************************************************)
(* qty_ahead, which decides about fills, and the list of the orders ahead, *)
(* which follows the feed, are kept apart and never disagree, also for     *)
(* orders that were kept from updates.                                     *)
(***************************************************************************)
AheadAddsUp ==
  \A id \in Live(ex) :
    ex.orders[id].queue.qty_ahead = QtyOf(ex.orders[id].queue.ahead)

(***************************************************************************)
(* A limit order that was filled in part is first in line for good: no     *)
(* later update of the book, in any order with the trades, puts one ahead  *)
(* again.                                                                  *)
(***************************************************************************)
FirstOnceFilled ==
  \A id \in Live(ex) :
    LET o == ex.orders[id]
    IN  o.type = "Limit" /\ o.filled > 0 => o.queue.ahead = <<>>

-----------------------------------------------------------------------------
(***************************************************************************)
(* What orderbook_l3.rs says of orders_ahead: "Simulated user orders are   *)
(* not present in the venue L3 feed; the exact queue-ahead snapshot is     *)
(* therefore the full resting level at entry."  (It stops at an order of   *)
(* the same number, and the engine numbers its orders from 1.)             *)
(***************************************************************************)
SnapshotIsFullLevel ==
  [][\A id \in Live(ex') \ Live(ex) :
       LET o == ex'.orders[id]
       IN  o.queue.ahead = book_l3[o.side][o.price]]_vars
=============================================================================
