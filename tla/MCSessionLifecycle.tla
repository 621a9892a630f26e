------------------------- MODULE MCSessionLifecycle -------------------------
(***************************************************************************)
(* Model values and bounds for the checks of SessionLifecycle.             *)
(***************************************************************************)
EXTENDS SessionLifecycle
=============================================================================
