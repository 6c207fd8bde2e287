---------------------------- MODULE MCRunCommand ----------------------------
(***************************************************************************)
(* RunCommand with two scenarios and one model of a vendor, on a terminal. *)
(***************************************************************************)
EXTENDS RunCommand

CONSTANTS anthropic, opus, smoke, review

MCScenarios == <<<<smoke>>, <<review>>>>
MCModels == <<<<anthropic, opus>>>>
=============================================================================
