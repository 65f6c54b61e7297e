----------------------------- MODULE EventQueue -----------------------------
(***************************************************************************)
(* backtester-core/src/event_queue.rs and Engine::push_event: a binary     *)
(* heap of events keyed by (ts_sim, seq), where seq comes from a counter   *)
(* of the engine.  Shown to implement StableQueue, the queue Engine.tla    *)
(* uses: the heap keeps no order of its own among equal timestamps, the    *)
(* counter is all that makes one backtest like the next.                   *)
(***************************************************************************)
EXTENDS Integers, Sequences, FiniteSets, SequencesExt

CONSTANTS
  Timestamps,   \* the timestamps of events
  Kinds,        \* what tells events apart besides
  MaxPushes     \* bound: events pushed in a run

ASSUME EventQueueAssumption ==
  Timestamps \subseteq Int /\ MaxPushes \in Nat

Pushable == [ts : Timestamps, kind : Kinds]

VARIABLES
  heap,             \* the entries in the binary heap
  next_event_seq,   \* Engine::next_event_seq
  popped            \* the event last popped, as a sequence of at most one

vars == <<heap, next_event_seq, popped>>

Entry(e, seq) == [ts |-> e.ts, seq |-> seq, kind |-> e.kind]

\* Faulty: equal timestamps leave in the reverse order.
NewestBefore(a, b) == a.ts < b.ts \/ (a.ts = b.ts /\ a.seq > b.seq)

\* EventId's derived order, on which QueuedEvent is reversed.
Before(a, b) == a.ts < b.ts \/ (a.ts = b.ts /\ a.seq < b.seq)

\* BinaryHeap: a greatest element; the heap promises nothing among equals.
Tops == {a \in heap : \A b \in heap : ~Before(b, a)}

EventOf(entry) == [ts |-> entry.ts, kind |-> entry.kind]

Init == heap = {} /\ next_event_seq = 0 /\ popped = <<>>

PushEvent(e) ==
  /\ next_event_seq < MaxPushes
  /\ heap' = heap \cup {Entry(e, next_event_seq)}
  /\ next_event_seq' = next_event_seq + 1
  /\ UNCHANGED popped

Pop ==
  \E top \in Tops :
    /\ heap' = heap \ {top}
    /\ popped' = <<EventOf(top)>>
    /\ UNCHANGED next_event_seq

Next == Pop \/ \E e \in Pushable : PushEvent(e)

Spec == Init /\ [][Next]_vars

-----------------------------------------------------------------------------
\* The abstract queue: the entries in the heap's order, without their keys.
Sorted(entries) == SetToSortSeq(entries, Before)

Abstract ==
  INSTANCE StableQueue
  WITH queue <- [i \in 1 .. Cardinality(heap) |-> EventOf(Sorted(heap)[i])]

(***************************************************************************)
(* push and pop implement the stable queue: whatever the pushes and pops   *)
(* are, also pushes at or before the timestamp popped last, the next event *)
(* out is the earliest one, and the first pushed among the earliest.       *)
(***************************************************************************)
ImplementsStableQueue == Abstract!Spec
=============================================================================
