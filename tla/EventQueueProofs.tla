-------------------------- MODULE EventQueueProofs --------------------------
(***************************************************************************)
(* What makes one backtest like the next: pop has no choice, and events    *)
(* leave in the order of time and, within it, of their pushes.  For any    *)
(* set of timestamps and kinds and any number of pushes.                   *)
(***************************************************************************)
EXTENDS EventQueue, TLAPS

Entries == [ts : Int, seq : Nat, kind : Kinds]

(***************************************************************************)
(* The inductive invariant: the entries of the heap were pushed one after  *)
(* the other, so no two have the same sequence number.                     *)
(***************************************************************************)
Numbered ==
  /\ next_event_seq \in Nat
  /\ heap \subseteq Entries
  /\ \A a \in heap : a.seq < next_event_seq
  /\ \A a, b \in heap : a.seq = b.seq => a = b

LEMMA NumberedFirst == Init => Numbered
  BY DEF Init, Numbered

\* push_event gives a number no entry has; pop takes an entry away.
LEMMA NumberedNext == Numbered /\ [Next]_vars => Numbered'
<1> SUFFICES ASSUME Numbered, [Next]_vars PROVE Numbered'
  OBVIOUS
<1>1. ASSUME NEW e \in Pushable, PushEvent(e)
      PROVE  Numbered'
  <2>1. Entry(e, next_event_seq) \in Entries /\ Entry(e, next_event_seq).seq = next_event_seq
    BY EventQueueAssumption DEF Pushable, Entry, Entries, Numbered
  <2>2. heap' = heap \cup {Entry(e, next_event_seq)} /\ next_event_seq' = next_event_seq + 1
    BY <1>1 DEF PushEvent
  <2>3. \A a \in heap : a.seq \in Nat /\ a.seq < next_event_seq
    BY DEF Numbered, Entries
  <2>4. QED
    BY <2>1, <2>2, <2>3 DEF Numbered
<1>2. CASE Pop
  BY <1>2 DEF Pop, Numbered
<1>3. CASE UNCHANGED vars
  BY <1>3 DEF vars, Numbered
<1>4. QED
  BY <1>1, <1>2, <1>3 DEF Next

THEOREM NumberedAlways == Spec => []Numbered
  BY NumberedFirst, NumberedNext, PTL DEF Spec

-----------------------------------------------------------------------------
(***************************************************************************)
(* pop has no choice: the heap never has two greatest elements, although   *)
(* a BinaryHeap promises nothing among equals.                             *)
(***************************************************************************)
OneTop == \A a, b \in Tops : a = b

THEOREM PopHasNoChoice == Spec => []OneTop
<1>1. Numbered => OneTop
  <2> SUFFICES ASSUME Numbered, NEW a \in Tops, NEW b \in Tops PROVE a = b
    BY DEF OneTop
  <2>1. a \in heap /\ b \in heap /\ ~Before(a, b) /\ ~Before(b, a)
    BY DEF Tops
  <2>2. a.ts \in Int /\ b.ts \in Int /\ a.seq \in Nat /\ b.seq \in Nat
    BY <2>1 DEF Numbered, Entries
  <2>3. a.seq = b.seq
    BY <2>1, <2>2 DEF Before
  <2>4. QED
    BY <2>1, <2>3 DEF Numbered
<1>2. QED
  BY <1>1, NumberedAlways, PTL

(***************************************************************************)
(* What leaves the heap comes strictly before all that stays, by timestamp *)
(* and then by number, and what enters has a higher number than all that   *)
(* waits: together, first in first out within a timestamp.                 *)
(***************************************************************************)
FirstInFirstOut ==
  /\ \A a \in heap \ heap' : \A b \in heap' : Before(a, b)
  /\ \A b \in heap' \ heap : \A a \in heap : a.seq < b.seq

THEOREM LeavesInOrder == Spec => [][FirstInFirstOut]_vars
<1>1. Numbered /\ [Next]_vars => [FirstInFirstOut]_vars
  <2> SUFFICES ASSUME Numbered, Next PROVE FirstInFirstOut
    OBVIOUS
  <2>1. ASSUME NEW e \in Pushable, PushEvent(e)
        PROVE  FirstInFirstOut
    <3>1. Entry(e, next_event_seq).seq = next_event_seq
      BY DEF Entry
    <3>2. heap' = heap \cup {Entry(e, next_event_seq)}
      BY <2>1 DEF PushEvent
    <3>3. QED
      BY <3>1, <3>2 DEF FirstInFirstOut, Numbered
  <2>2. CASE Pop
    <3>1. PICK top \in Tops : heap' = heap \ {top}
      BY <2>2 DEF Pop
    <3>2. ASSUME NEW b \in heap \ {top}
          PROVE  Before(top, b)
      <4>1. top \in heap /\ ~Before(b, top)
        BY DEF Tops
      <4>2. top.ts \in Int /\ b.ts \in Int /\ top.seq \in Nat /\ b.seq \in Nat
        BY <4>1 DEF Numbered, Entries
      <4>3. top.seq # b.seq
        BY <4>1 DEF Numbered
      <4>4. QED
        BY <4>1, <4>2, <4>3 DEF Before
    <3>3. QED
      BY <3>1, <3>2 DEF FirstInFirstOut
  <2>3. QED
    BY <2>1, <2>2 DEF Next
<1>2. QED
  BY <1>1, NumberedAlways, PTL DEF Spec
=============================================================================
