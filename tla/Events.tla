------------------------------- MODULE Events -------------------------------
(***************************************************************************)
(* backtester-core/src/event.rs: the kinds of events, and the order in     *)
(* which they wait.  An event is a record with the fields ts (ts_sim) and  *)
(* kind and its payload; the waiting events are a sequence, next one       *)
(* first.  EventQueue.tla shows that the code's heap keeps this sequence.  *)
(***************************************************************************)
EXTENDS Integers, SequencesExt

EventKind ==
  {"Tick", "TickDelivery", "L2Update", "Order", "OrderAck", "OrderCancel",
   "OrderCancelAck", "OrderReport", "Funding", "Timer"}

\* How many of the waiting events are due by time ts.
DueBy(q, ts) == Cardinality({i \in DOMAIN q : q[i].ts <= ts})

\* Faulty: the order of the pushes, or its reverse among equal timestamps.
EnqueueLast(q, e) == Append(q, e)
EnqueueBeforeEquals(q, e) == InsertAt(q, DueBy(q, e.ts - 1) + 1, e)

\* Behind everything that is due no later, in front of everything later.
Enqueue(q, e) == InsertAt(q, DueBy(q, e.ts) + 1, e)

\* TickDelivery and Tick carry the tick, Order the order, the events about
\* an order its id, OrderReport the report.
TickEvent(ts, kind, tick) == [ts |-> ts, kind |-> kind, tick |-> tick]
OrderEvent(ts, id, order) == [ts |-> ts, kind |-> "Order", id |-> id, order |-> order]
IdEvent(ts, kind, id)     == [ts |-> ts, kind |-> kind, id |-> id]
ReportEvent(ts, report)   == [ts |-> ts, kind |-> "OrderReport", report |-> report]
TimerEvent(ts, timer_id)  == [ts |-> ts, kind |-> "Timer", timer_id |-> timer_id]
=============================================================================
