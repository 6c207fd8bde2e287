--------------------------- MODULE MCTrialExecutor ---------------------------
(***************************************************************************)
(* TrialExecutor on small instances; the configurations fix the constants. *)
(***************************************************************************)
EXTENDS TrialExecutor
=============================================================================
