-------------------------- MODULE TranslationLedger --------------------------
(***************************************************************************)
(* What the translation side of a session promises about committed source  *)
(* ("stable units are translated exactly once, in order"): accepted spans  *)
(* wait in the order of their revisions, only the oldest one can leave,    *)
(* and it leaves once, either with its translation appended to the target  *)
(* text or without.  Nothing else ever changes the target.                 *)
(***************************************************************************)
EXTENDS Naturals, Sequences

CONSTANT MaxRevision

VARIABLES
  waiting,  \* accepted spans that have not left yet, oldest first
  target    \* spans whose translation is part of the target text

vars == <<waiting, target>>

Init == waiting = <<>> /\ target = <<>>

\* A span is newer than everything accepted before it.
Accept(r) ==
  /\ \A i \in DOMAIN waiting : waiting[i] < r
  /\ \A i \in DOMAIN target : target[i] < r
  /\ waiting' = Append(waiting, r)
  /\ UNCHANGED target

Translate ==
  /\ waiting # <<>>
  /\ waiting' = Tail(waiting)
  /\ target' = Append(target, Head(waiting))

Drop ==
  /\ waiting # <<>>
  /\ waiting' = Tail(waiting)
  /\ UNCHANGED target

Next ==
  \/ \E r \in 1..MaxRevision : Accept(r)
  \/ Translate
  \/ Drop

Spec == Init /\ [][Next]_vars

=============================================================================
