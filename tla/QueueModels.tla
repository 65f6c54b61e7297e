---------------------------- MODULE QueueModels ----------------------------
(***************************************************************************)
(* backtester-core/src/queue_model.rs: the two queue models that need only *)
(* price levels.  Both keep the level quantity seen at entry; they differ  *)
(* in what they count afterwards:                                          *)
(*   Conservative   ahead   is used up by trades, the rest fills the order *)
(*   VolumeClock    ahead   is fixed, cum counts the traded volume and     *)
(*                  claimed what the order has taken of the volume past it *)
(* The caller (ExchangeSimulator::on_trade) only asks about a trade at the *)
(* order's own price, against its side and with something left to fill, so *)
(* the models' early returns for the other cases are not repeated here.    *)
(***************************************************************************)
EXTENDS OrderTypes

QueueModel == {"Conservative", "VolumeClock"}

QueueState == [ahead : Nat, cum : Nat, claimed : Nat]

RegisterOrder(levelQty) == [ahead |-> levelQty, cum |-> 0, claimed |-> 0]

\* Faulty: the fill is not capped at what the order has left.
UncappedFill(q, remaining, volume) ==
  LET used == Lesser(q.ahead, volume)
  IN  [fill |-> volume - used, queue |-> [q EXCEPT !.ahead = @ - used]]

\* Faulty: the trade fills the order whatever is ahead of it.
FirstInQueue(q, remaining, volume) ==
  [fill  |-> Lesser(volume, remaining),
   queue |-> [q EXCEPT !.ahead = @ - Lesser(q.ahead, volume)]]

\* Faulty: the volume that traded ahead of the order is forgotten.
ForgetfulFill(q, remaining, volume) ==
  [fill |-> Lesser(volume - Lesser(q.ahead, volume), remaining), queue |-> q]

\* The answer of check_fill: the quantity filled and the new queue state.
ConservativeFill(q, remaining, volume) ==
  LET used == Lesser(q.ahead, volume)
  IN  [fill  |-> Lesser(volume - used, remaining),
       queue |-> [q EXCEPT !.ahead = @ - used]]

\* Faulty: the volume past the queue position fills the order again.
UnclaimedQty(q, remaining, volume) ==
  LET past == q.cum + volume - q.ahead
  IN  IF past <= q.claimed THEN 0 ELSE Lesser(past, remaining)

VolumeClockQty(q, remaining, volume) ==
  LET past == q.cum + volume - q.ahead
  IN  IF past <= q.claimed THEN 0 ELSE Lesser(past - q.claimed, remaining)

\* Faulty: what the order takes is not claimed.
UnrecordedFill(q, remaining, volume) ==
  [fill  |-> VolumeClockQty(q, remaining, volume),
   queue |-> [q EXCEPT !.cum = @ + volume]]

VolumeClockFill(q, remaining, volume) ==
  LET fill == VolumeClockQty(q, remaining, volume)
  IN  [fill  |-> fill,
       queue |-> [ahead |-> q.ahead, cum |-> q.cum + volume,
                  claimed |-> q.claimed + fill]]

CheckFill(model, q, remaining, volume) ==
  IF volume <= 0 THEN [fill |-> 0, queue |-> q]
  ELSE IF model = "Conservative" THEN ConservativeFill(q, remaining, volume)
  ELSE VolumeClockFill(q, remaining, volume)
=============================================================================
