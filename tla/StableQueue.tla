----------------------------- MODULE StableQueue -----------------------------
(***************************************************************************)
(* What the engine relies on its event queue for: events leave in the      *)
(* order of their timestamps, those of one timestamp in the order they     *)
(* were pushed.  The queue is the sequence of events that wait, next one   *)
(* first; an event is a record with a field ts.                            *)
(***************************************************************************)
EXTENDS Events

CONSTANT Pushable   \* the events that can be pushed

VARIABLES queue, popped

Init == queue = <<>> /\ popped = <<>>

Push(e) == queue' = Enqueue(queue, e) /\ UNCHANGED popped

Pop ==
  /\ queue # <<>>
  /\ popped' = <<Head(queue)>>
  /\ queue' = Tail(queue)

Next == Pop \/ \E e \in Pushable : Push(e)

Spec == Init /\ [][Next]_<<queue, popped>>
=============================================================================
