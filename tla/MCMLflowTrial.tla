---------------------------- MODULE MCMLflowTrial ----------------------------
(***************************************************************************)
(* MLflowTrial with two trials of one scenario and one of another.         *)
(***************************************************************************)
EXTENDS MLflowTrial

CONSTANTS t1, t2, t3, smoke, review

MCScenarioOf == [t \in Trials |-> IF t = t3 THEN review ELSE smoke]
MCSpansOf == [t \in Trials |-> IF t = t3 THEN 0 ELSE 1]
=============================================================================
