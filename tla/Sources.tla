------------------------------ MODULE Sources ------------------------------
(***************************************************************************)
(* From the input files to the engine's feed:                              *)
(*   io.rs           AsyncBatchIter: a thread per file reads record        *)
(*                   batches ahead into a bounded channel                  *)
(*   tick_source.rs  ArrowTickSource and                                   *)
(*   l3_source.rs    ArrowL3Source: peek and next over the rows of the     *)
(*                   batches                                               *)
(*   engine.rs       the heaps of peeked events and the ingest loop        *)
(* The engine's thread pulls: it takes the row of the source that comes    *)
(* first and waits until that source shows its next row.  The gate of the  *)
(* loop (no row later than the next queued event) is in Engine.tla; it     *)
(* delays rows and does not reorder them.                                  *)
(***************************************************************************)
EXTENDS Integers, Sequences, SequencesExt, FiniteSetsExt

CONSTANTS
  Files,      \* the input to try: functions from sources to files
  Readaheads  \* the capacities of the channels to try

NoSeq == -1

(***************************************************************************)
(* A file is a sequence of record batches and read errors.  A batch has    *)
(* columns, each with values that are integers or not, all there or not,   *)
(* and in the range of the target type or not; n tells the rows of a file  *)
(* apart.                                                                  *)
(***************************************************************************)
Column  == [integer : BOOLEAN, complete : BOOLEAN, fits : BOOLEAN]
Row     == [n : Nat, ts : Int, seq : Nat, side : -128 .. 127]
Sources == {"Tick", "L3"} \X Nat

IsItem(i) ==
  /\ i.error \in BOOLEAN /\ i.rows \in Seq(Row)
  /\ \A name \in DOMAIN i.columns : i.columns[name] \in Column

ASSUME SourcesAssumption ==
  /\ Readaheads \subseteq Nat
  /\ \A f \in Files : /\ DOMAIN f \subseteq Sources
                      /\ \A s \in DOMAIN f : \A i \in DOMAIN f[s] : IsItem(f[s][i])

VARIABLES
  files,      \* the input, chosen once
  readable,   \* for checking: the rows of each file before what cannot be read
  readahead,  \* the capacity of every channel, chosen once
  unread,     \* source -> what its thread has not read from the file
  held,       \* source -> the message its thread is sending, at most one
  channel,    \* source -> the messages in its channel
  running,    \* the sources whose thread has not ended
  batch,      \* current_batch: source -> its rows
  batch_idx,  \* source -> how many of them were shown
  shown,      \* next_tick, next_update: source -> the row it shows, at most one
  pulling,    \* the sources the engine's thread is advancing, in this order
  taken,      \* the row next() has taken and not yet returned, at most one
  merged,     \* what was pushed to the event queue: <<source, row number>>
  failed,     \* an error was returned: the run is over
  dropped     \* the engine, with its sources, is gone

threads == <<unread, held, channel, running>>
reading == <<batch, batch_idx, shown, pulling, taken>>
input   == <<files, readable, readahead>>
vars    == <<input, threads, reading, merged, failed, dropped>>

Src == DOMAIN files
AnySource == UNION {DOMAIN f : f \in Files}

-----------------------------------------------------------------------------
(***************************************************************************)
(* What of a batch a source can read.                                      *)
(***************************************************************************)
\* The columns a batch must have, each under one of its names.
Required(kind) ==
  {<<"ts_exchange", "ts_event">>, <<"price">>, <<"qty", "size">>, <<"side">>}
    \cup IF kind = "L3" THEN {<<"order_id">>, <<"action">>} ELSE {}

Optional(kind) == IF kind = "L3" THEN {"seq"} ELSE {"seq", "ts_local"}

\* cast_integer_array, for one target type.
Readable(column) == column.integer /\ column.complete /\ column.fits

\* The first name that is there is the column, readable or not.
Parses(kind, columns) ==
  /\ \A names \in Required(kind) :
       LET present == SelectSeq(names, LAMBDA name : name \in DOMAIN columns)
       IN  present # <<>> /\ Readable(columns[Head(present)])
  /\ \A name \in Optional(kind) \cap DOMAIN columns : Readable(columns[name])

\* Rows without the optional seq column.
Cached(item) ==
  IF "seq" \in DOMAIN item.columns THEN item.rows
  ELSE [i \in DOMAIN item.rows |-> [item.rows[i] EXCEPT !.seq = NoSeq]]

\* Side::try_from.
ValidSide(row) == row.side \in {1, -1, 0}

(***************************************************************************)
(* The rows of a file before the first thing that cannot be read.          *)
(***************************************************************************)
Unreadable(s, item) == item.error \/ ~Parses(s[1], item.columns)

Before(sequence, bad(_)) ==
  LET found == {i \in DOMAIN sequence : bad(sequence[i])}
  IN  IF found = {} THEN sequence ELSE SubSeq(sequence, 1, Min(found) - 1)

Intact(s, file) ==
  LET batches == Before(file, LAMBDA item : Unreadable(s, item))
      rows    == FlattenSeq([i \in DOMAIN batches |-> Cached(batches[i])])
  IN  Before(rows, LAMBDA row : ~ValidSide(row))

-----------------------------------------------------------------------------
NoItem == [error |-> FALSE, columns |-> <<>>, rows |-> <<>>]
Ending == [kind |-> "End", item |-> NoItem]
Message(item) == [kind |-> IF item.error THEN "Error" ELSE "Batch", item |-> item]

Init ==
  /\ files \in Files
  /\ readable = [s \in DOMAIN files |-> Intact(s, files[s])]
  /\ readahead \in Readaheads
  /\ unread = files
  /\ held = [s \in Src |-> <<>>]
  /\ channel = [s \in Src |-> <<>>]
  /\ running = Src
  /\ batch = [s \in Src |-> <<>>]
  /\ batch_idx = [s \in Src |-> 0]
  /\ shown = [s \in Src |-> <<>>]
  \* Every source is constructed, then added to the engine.
  /\ pulling = SetToSortSeq(Src, LAMBDA s, t : \/ s[1] = t[1] /\ s[2] < t[2]
                                               \/ s[1] = "Tick" /\ t[1] = "L3")
  /\ taken = <<>>
  /\ merged = <<>>
  /\ failed = FALSE
  /\ dropped = FALSE

-----------------------------------------------------------------------------
(***************************************************************************)
(* The thread of source s: it reads an item, sends it, waits for a place   *)
(* in the channel, and sends an end marker after the last one.  A channel  *)
(* of capacity 0 hands each message over.                                  *)
(***************************************************************************)
\* Faulty: the end of the file is not announced.
ReadQuietly(s) ==
  /\ s \in running /\ held[s] = <<>> /\ unread[s] # <<>>
  /\ held' = [held EXCEPT ![s] = <<Message(Head(unread[s]))>>]
  /\ unread' = [unread EXCEPT ![s] = Tail(@)]
  /\ UNCHANGED <<input, channel, running, reading, merged, failed, dropped>>

Read(s) ==
  /\ s \in running /\ held[s] = <<>>
  /\ IF unread[s] = <<>>
     THEN held' = [held EXCEPT ![s] = <<Ending>>] /\ UNCHANGED unread
     ELSE /\ held' = [held EXCEPT ![s] = <<Message(Head(unread[s]))>>]
          /\ unread' = [unread EXCEPT ![s] = Tail(@)]
  /\ UNCHANGED <<input, channel, running, reading, merged, failed, dropped>>

\* The thread ends with the message that says so.
EndsWith(s) == running \ (IF held[s] = <<Ending>> THEN {s} ELSE {})

Send(s) ==
  /\ held[s] # <<>> /\ ~dropped
  /\ Len(channel[s]) < readahead
  /\ channel' = [channel EXCEPT ![s] = @ \o held[s]]
  /\ held' = [held EXCEPT ![s] = <<>>]
  /\ running' = EndsWith(s)
  /\ UNCHANGED <<input, unread, reading, merged, failed, dropped>>

\* Faulty: a failed send is tried again, and only the end marker ends it.
RetrySend(s) ==
  /\ held[s] # <<>> /\ dropped
  /\ held' = [held EXCEPT ![s] = IF @ = <<Ending>> THEN <<>> ELSE @]
  /\ running' = EndsWith(s)
  /\ UNCHANGED <<input, unread, channel, reading, merged, failed, dropped>>

\* send fails once the receiver is gone, also a send that waits.
HangUp(s) ==
  /\ held[s] # <<>> /\ dropped
  /\ held' = [held EXCEPT ![s] = <<>>]
  /\ running' = running \ {s}
  /\ UNCHANGED <<input, unread, channel, reading, merged, failed, dropped>>

Thread(s) == Read(s) \/ Send(s) \/ HangUp(s)

-----------------------------------------------------------------------------
(***************************************************************************)
(* advance(): the next row of the batch, or the next batch.                *)
(***************************************************************************)
Engine == ~failed /\ ~dropped

Advancing(s) == Engine /\ pulling # <<>> /\ Head(pulling) = s

\* The event that was taken is pushed when next() has returned.
Pushed == merged' = merged \o taken /\ taken' = <<>>

\* What stands for a missing seq: an L3 update's row in its batch.
FallbackSeq(s) == IF s[1] = "L3" THEN batch_idx[s] ELSE 0

ShowRow(s) ==
  LET row == batch[s][batch_idx[s] + 1]
  IN  /\ Advancing(s)
      /\ batch_idx[s] < Len(batch[s])
      /\ ValidSide(row)
      /\ shown' = [shown EXCEPT ![s] =
                     <<[n |-> row.n, ts |-> row.ts,
                        seq |-> IF row.seq # NoSeq THEN row.seq ELSE FallbackSeq(s)]>>]
      /\ batch_idx' = [batch_idx EXCEPT ![s] = @ + 1]
      /\ pulling' = Tail(pulling)
      /\ Pushed
      /\ UNCHANGED <<input, threads, batch, failed, dropped>>

\* next() returns an error, and the row it had taken is lost.
Fails ==
  /\ failed' = TRUE
  /\ UNCHANGED <<reading, merged>>

RefuseRow(s) ==
  /\ Advancing(s)
  /\ batch_idx[s] < Len(batch[s])
  /\ ~ValidSide(batch[s][batch_idx[s] + 1])
  /\ Fails
  /\ UNCHANGED <<input, threads, dropped>>

Receives(s) == Advancing(s) /\ batch_idx[s] = Len(batch[s])

\* recv: from the channel, or from the thread that waits to hand over.
Receive(s, kind) ==
  /\ Receives(s)
  /\ IF readahead = 0
     THEN /\ held[s] # <<>> /\ held[s][1].kind = kind
          /\ held' = [held EXCEPT ![s] = <<>>]
          /\ running' = EndsWith(s)
          /\ UNCHANGED channel
     ELSE /\ channel[s] # <<>> /\ Head(channel[s]).kind = kind
          /\ channel' = [channel EXCEPT ![s] = Tail(@)]
          /\ UNCHANGED <<held, running>>
  /\ UNCHANGED <<input, unread, dropped>>

Received(s) == IF readahead = 0 THEN held[s][1] ELSE Head(channel[s])

ReceiveBatch(s) ==
  /\ Receive(s, "Batch")
  /\ Parses(s[1], Received(s).item.columns)
  /\ batch' = [batch EXCEPT ![s] = Cached(Received(s).item)]
  /\ batch_idx' = [batch_idx EXCEPT ![s] = 0]
  /\ UNCHANGED <<shown, pulling, taken, merged, failed>>

RefuseBatch(s) ==
  /\ Receive(s, "Batch")
  /\ ~Parses(s[1], Received(s).item.columns)
  /\ Fails

\* The source shows nothing any more.
Ends(s) ==
  /\ batch' = [batch EXCEPT ![s] = <<>>]
  /\ batch_idx' = [batch_idx EXCEPT ![s] = 0]
  /\ pulling' = Tail(pulling)
  /\ Pushed
  /\ UNCHANGED <<shown, failed>>

\* A source is never advanced again after its end, so recv does not meet a
\* channel whose thread has ended.
ReceiveEnd(s) == Receive(s, "End") /\ Ends(s)

\* Faulty: an error ends the file.
EndOnError(s) == Receive(s, "Error") /\ Ends(s)

ReceiveError(s) == Receive(s, "Error") /\ Fails

-----------------------------------------------------------------------------
(***************************************************************************)
(* The ingest loop: each heap gives the source with the earliest peeked    *)
(* event, lower index first; then the L3 heap goes first unless the tick   *)
(* is earlier by (ts, seq).                                                *)
(***************************************************************************)
Earlier(a, b) == a.ts < b.ts \/ (a.ts = b.ts /\ a.seq < b.seq)

Showing(kind) == {s \in Src : s[1] = kind /\ shown[s] # <<>>}

\* peek of a heap, as a set of at most one source.
Top(kind) ==
  {s \in Showing(kind) :
     \A t \in Showing(kind) \ {s} :
       \/ Earlier(shown[s][1], shown[t][1])
       \/ ~Earlier(shown[t][1], shown[s][1]) /\ s[2] < t[2]}

\* Faulty: a tick goes before an L3 update of the same (ts, seq).
StrictL3First == \A l \in Top("L3"), t \in Top("Tick") : Earlier(shown[l][1], shown[t][1])

L3IsNext == \A l \in Top("L3"), t \in Top("Tick") : ~Earlier(shown[t][1], shown[l][1])

NextSource ==
  IF Top("L3") # {} /\ L3IsNext THEN Top("L3") ELSE Top("Tick")

Ingest ==
  \E s \in NextSource :
    /\ Engine /\ pulling = <<>>
    /\ taken' = <<<<s, shown[s][1].n>>>>
    /\ shown' = [shown EXCEPT ![s] = <<>>]
    /\ pulling' = <<s>>
    /\ UNCHANGED <<input, threads, batch, batch_idx, merged, failed, dropped>>

\* The engine may go at any time, for instance when the strategy fails.
Drop ==
  /\ ~dropped
  /\ dropped' = TRUE
  /\ channel' = [s \in Src |-> <<>>]
  /\ UNCHANGED <<input, unread, held, running, reading, merged, failed>>

\* Every source has shown its last row and it was merged.
AllMerged == pulling = <<>> /\ \A s \in Src : shown[s] = <<>>

EngineStep ==
  \/ Ingest
  \/ \E s \in Src : ShowRow(s) \/ RefuseRow(s)
  \/ \E s \in Src : ReceiveBatch(s) \/ RefuseBatch(s) \/ ReceiveEnd(s) \/ ReceiveError(s)

Next == EngineStep \/ Drop \/ \E s \in Src : Thread(s)

\* The system schedules every thread; nobody has to drop the engine.
FairSpec ==
  /\ Init /\ [][Next]_vars
  /\ WF_vars(EngineStep)
  /\ \A s \in AnySource : WF_vars(s \in Src /\ Thread(s))

-----------------------------------------------------------------------------
Feed == INSTANCE FeedMerge WITH files <- readable

(***************************************************************************)
(* The feed depends on the files alone (SPEC.md 6.2: "When `seq` is        *)
(* present, L3 updates and trade ticks at the same `ts_exchange` are       *)
(* ordered by (`ts_exchange`, `seq`); if omitted, row order is used as the *)
(* L3 sequence fallback"): whatever the threads, the channels and the cut  *)
(* of the files into batches, each row is merged once and in its place.    *)
(***************************************************************************)
ImplementsMerge == Feed!Spec

(***************************************************************************)
(* A feed that ends without an error is complete: all rows of all files    *)
(* are merged, and nothing in any file was an error, a batch without a     *)
(* readable column or a row with an unknown side.  (AsyncBatchIter::next   *)
(* answers None both at the end of a file and when the thread is gone.)    *)
(***************************************************************************)
EndIsComplete ==
  AllMerged /\ ~failed =>
    \A s \in Src :
      /\ Feed!MergedOf(s) = Len(readable[s])
      /\ \A i \in DOMAIN files[s] :
           ~Unreadable(s, files[s][i]) /\ \A j \in DOMAIN files[s][i].rows : ValidSide(files[s][i].rows[j])

(***************************************************************************)
(* Unless the engine is dropped, the feed comes to its end or to an error: *)
(* no order of reading, waiting for a place and pulling blocks the threads *)
(* on each other.                                                          *)
(***************************************************************************)
FeedEnds == <>(AllMerged \/ failed \/ dropped)

(***************************************************************************)
(* "If the receiver hangs up, we just stop" (io.rs): no reader thread      *)
(* outlives an engine that was dropped in the middle of the feed, be it    *)
(* reading or waiting for a place in the channel.                          *)
(***************************************************************************)
ThreadsEnd == dropped ~> running = {}
=============================================================================
