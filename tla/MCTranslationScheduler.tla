----------------------- MODULE MCTranslationScheduler -----------------------
(***************************************************************************)
(* The scheduler on small instances: a handful of transcript revisions and *)
(* one or two texts of the unstable tail.                                  *)
(***************************************************************************)
EXTENDS TranslationScheduler, TLC

\* The texts are only compared, so they are interchangeable.
TextSymmetry == Permutations(Texts)

=============================================================================
