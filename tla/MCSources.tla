----------------------------- MODULE MCSources -----------------------------
(***************************************************************************)
(* Small inputs for Sources.tla: two tick files and one L3 file whose rows *)
(* have timestamps and sequence numbers in common.                         *)
(***************************************************************************)
EXTENDS Sources, TLC

Fine     == [integer |-> TRUE, complete |-> TRUE, fits |-> TRUE]
WithNull == [Fine EXCEPT !.complete = FALSE]

\* The columns of a batch of either kind of source, and more.
Columns == [name \in {"ts_exchange", "price", "qty", "side", "order_id", "action"} |-> Fine]
AndSeq  == Columns @@ ("seq" :> Fine)

Batch(rows)    == [error |-> FALSE, columns |-> AndSeq, rows |-> rows]
NoSeqs(rows)   == [error |-> FALSE, columns |-> Columns, rows |-> rows]
With(name, column, rows) == [error |-> FALSE, columns |-> (name :> column) @@ AndSeq, rows |-> rows]
Failure        == [error |-> TRUE, columns |-> <<>>, rows |-> <<>>]
R(n, ts, seq)  == [n |-> n, ts |-> ts, seq |-> seq, side |-> 1]
BadSide(n, ts) == [R(n, ts, 0) EXCEPT !.side = 2]

Input(tick0, tick1, l3) ==
  (<<"Tick", 0>> :> tick0) @@ (<<"Tick", 1>> :> tick1) @@ (<<"L3", 0>> :> l3)

\* Two rows, cut in two batches, in one, or with an empty batch.
TwoTicks ==
  {<<Batch(<<R(1, 1, 0)>>), Batch(<<R(2, 2, 1)>>)>>,
   <<NoSeqs(<<R(1, 1, 0), R(2, 2, 0)>>)>>,
   <<Batch(<<R(1, 1, 1)>>), Batch(<<>>), Batch(<<R(2, 1, 2)>>)>>}

\* Also a file that fails, one with a row of no known side, and one whose
\* second batch has a null in its timestamps, next to a second timestamp.
OneTick ==
  {<<Batch(<<R(1, 1, 1)>>)>>, <<Batch(<<R(1, 2, 0)>>), Failure>>, <<>>,
   <<Batch(<<R(1, 1, 1), BadSide(2, 2)>>)>>,
   <<Batch(<<R(1, 1, 0)>>),
     [With("ts_event", Fine, <<R(2, 2, 0)>>) EXCEPT !.columns.ts_exchange = WithNull]>>}

\* With seq in any cut; without it in one batch.
L3Rows ==
  {<<Batch(<<R(1, 1, 0), R(2, 1, 1)>>), Batch(<<R(3, 2, 0)>>)>>,
   <<NoSeqs(<<R(1, 1, 0), R(2, 1, 0), R(3, 2, 0)>>)>>,
   <<Batch(<<R(1, 1, 1)>>), Failure, Batch(<<R(2, 2, 1)>>)>>}

MixedFiles == {Input(t, u, l) : t \in TwoTicks, u \in OneTick, l \in L3Rows}

\* Without seq and in two batches.
L3InBatches ==
  {<<NoSeqs(<<R(1, 1, 0)>>), NoSeqs(<<R(2, 1, 0), R(3, 1, 0)>>)>>}

CutFiles == {Input(<<Batch(<<R(1, 1, 1)>>)>>, <<>>, l) : l \in L3InBatches}
=============================================================================
