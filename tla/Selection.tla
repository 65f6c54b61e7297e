----------------------------- MODULE Selection ------------------------------
(***************************************************************************)
(* A loop that keeps some elements of a sequence in their order: SelectSeq *)
(* for a set of elements, written as the fold a proof can follow.          *)
(***************************************************************************)
EXTENDS SequencesExt

KeepNext(r, e) == IF e \in r.wanted THEN [r EXCEPT !.kept = Append(@, e)] ELSE r

Kept(s, T) == FoldLeft(KeepNext, [wanted |-> T, kept |-> <<>>], s).kept
=============================================================================
