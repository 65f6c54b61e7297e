----------------------------- MODULE FeedMerge -----------------------------
(***************************************************************************)
(* What the engine's sources promise (docs/SPEC.md 6.2): the rows of all   *)
(* input files, merged into one feed.  A row is [ts, seq]; each file is    *)
(* taken in its own order, and among the files the row with the earliest   *)
(* (ts, seq) comes first, an L3 update before a tick that is equal, then   *)
(* the file with the lower index.  How a file is cut into record batches   *)
(* and when a thread reads them makes no difference.                       *)
(*                                                                         *)
(* A file is the sequence of its rows, as far as they can be read.         *)
(***************************************************************************)
EXTENDS Integers, Sequences, SequencesExt

VARIABLES
  files,   \* source -> its file
  merged   \* the feed so far: <<source, number of the row in its file>>

\* A source is <<kind, index>>; the seq of a row without one is NoSeq.
NoSeq == -1

\* A row's number in its file stands for the seq an L3 update does not have.
KeyOf(s, n) ==
  LET row == files[s][n]
  IN  [ts |-> row.ts, seq |-> IF row.seq # NoSeq THEN row.seq
                              ELSE IF s[1] = "L3" THEN n - 1 ELSE 0]

Earlier(a, b) == a.ts < b.ts \/ (a.ts = b.ts /\ a.seq < b.seq)

Precedes(s, a, t, b) ==
  \/ Earlier(a, b)
  \/ a = b /\ s[1] = "L3" /\ t[1] = "Tick"
  \/ a = b /\ s[1] = t[1] /\ s[2] <= t[2]

MergedOf(s) == Len(SelectSeq(merged, LAMBDA m : m[1] = s))

\* The sources with a row left, and the number of the next one.
Unfinished == {s \in DOMAIN files : MergedOf(s) < Len(files[s])}
NextRow(s) == MergedOf(s) + 1

Init == merged = <<>>

Merge ==
  \E s \in Unfinished :
    /\ \A t \in Unfinished \ {s} :
         Precedes(s, KeyOf(s, NextRow(s)), t, KeyOf(t, NextRow(t)))
    /\ merged' = Append(merged, <<s, NextRow(s)>>)
    /\ UNCHANGED files

Spec == Init /\ [][Merge]_<<files, merged>>
=============================================================================
