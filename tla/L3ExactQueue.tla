---------------------------- MODULE L3ExactQueue ----------------------------
(***************************************************************************)
(* backtester-core/src/queue_model.rs: the queue model for order-by-order  *)
(* data.  It keeps the venue's orders that were ahead at entry, and their  *)
(* total once more as a number of its own.                                 *)
(***************************************************************************)
EXTENDS OrderBookL3

RegisterL3(book, id, o) ==
  LET ahead == OrdersAhead(book, o.side, o.price, id)
  IN  [qty_ahead |-> QtyOf(ahead), ahead |-> ahead]

\* consume_ahead_orders: the quantity is taken from the front of the line,
\* and an order with nothing left leaves it.
TakeFrom(r, e) ==
  LET taken == Lesser(e.qty, r.left)
  IN  [left |-> r.left - taken,
       line |-> IF taken = e.qty THEN r.line ELSE Append(r.line, Entry(e.id, e.qty - taken))]

Consumed(entries, qty) == FoldLeft(TakeFrom, [left |-> qty, line |-> <<>>], entries).line

\* What of a trade the orders ahead take.
UsedAhead(q, volume) == IF q.qty_ahead > 0 THEN Lesser(q.qty_ahead, volume) ELSE 0

\* Faulty: a trade fills the order without regard to the line.
LineIgnored(q, remaining, volume) == [fill |-> Lesser(volume, remaining), queue |-> q]

\* Faulty: the fill is not capped at what the order has left.
UncappedL3Fill(q, remaining, volume) ==
  LET used == UsedAhead(q, volume)
  IN  [fill  |-> volume - used,
       queue |-> [qty_ahead |-> q.qty_ahead - used, ahead |-> Consumed(q.ahead, used)]]

\* The answer of check_fill, as in QueueModels.tla.
L3Fill(q, remaining, volume) ==
  LET used == UsedAhead(q, volume)
  IN  [fill  |-> Lesser(volume - used, remaining),
       queue |-> [qty_ahead |-> q.qty_ahead - used, ahead |-> Consumed(q.ahead, used)]]

-----------------------------------------------------------------------------
\* The place in line of the order with that id, 0 if it is not ahead.
PlaceOf(q, id) == SelectInSeq(q.ahead, LAMBDA e : e.id = id)

\* Faulty: the total keeps the order that left the line.
RemoveFromLine(q, id) ==
  LET i == PlaceOf(q, id)
  IN  IF i = 0 THEN q ELSE [q EXCEPT !.ahead = RemoveAt(@, i)]

RemoveAhead(q, id) ==
  LET i == PlaceOf(q, id)
  IN  IF i = 0 THEN q
      ELSE [qty_ahead |-> q.qty_ahead - q.ahead[i].qty,
            ahead     |-> RemoveAt(q.ahead, i)]

\* Faulty: only the total learns of the new quantity.
ModifyTotal(q, id, qty) ==
  LET i == PlaceOf(q, id)
  IN  IF i = 0 THEN q
      ELSE [q EXCEPT !.qty_ahead = @ - q.ahead[i].qty + qty]

ModifyAhead(q, id, qty) ==
  LET i       == PlaceOf(q, id)
      resized == [q.ahead EXCEPT ![i] = Entry(id, qty)]
  IN  IF i = 0 THEN q
      ELSE [qty_ahead |-> q.qty_ahead - q.ahead[i].qty + qty,
            ahead     |-> IF qty = 0 THEN Kept(resized, {e \in ToSet(resized) : e.qty > 0})
                          ELSE resized]

\* on_l3_update of an order o with queue state q.
AfterL3Update(o, u) ==
  IF <<u.side, u.price>> # <<o.side, o.price>> THEN o.queue
  ELSE CASE u.action = "DELETE" -> RemoveAhead(o.queue, u.id)
         [] u.action = "MODIFY" -> ModifyAhead(o.queue, u.id, IF u.qty < 0 THEN 0 ELSE u.qty)
         [] OTHER               -> o.queue
=============================================================================
