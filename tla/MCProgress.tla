------------------------------ MODULE MCProgress ------------------------------
(***************************************************************************)
(* Progress for a config that lists one model name twice.                  *)
(***************************************************************************)
EXTENDS Progress

CONSTANTS sonnet, smoke

MCScenarios == <<<<smoke>>>>
MCModels == <<<<sonnet>>, <<sonnet>>>>
=============================================================================
