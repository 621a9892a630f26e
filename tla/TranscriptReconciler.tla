------------------------ MODULE TranscriptReconciler ------------------------
(***************************************************************************)
(* TranscriptReconciler (backends/asr/reconcile.py) as operators: merging  *)
(* what a provider says into committed text.  A text is a sequence of      *)
(* words.                                                                  *)
(***************************************************************************)
EXTENDS Naturals, Sequences, SequencesExt

\* The longest end of left that right starts with.
OverlapLength(left, right) ==
  CHOOSE n \in 0..Len(right) :
    /\ n <= Len(left) /\ IsSuffix(SubSeq(right, 1, n), left)
    /\ \A m \in (n + 1)..Len(right) : m > Len(left) \/ ~IsSuffix(SubSeq(right, 1, m), left)

MergeConfirmed(committed, text) ==
  IF text = <<>> \/ IsSuffix(text, committed) THEN committed
  ELSE IF IsPrefix(committed, text) THEN text
  ELSE committed \o SubSeq(text, OverlapLength(committed, text) + 1, Len(text))
=============================================================================
