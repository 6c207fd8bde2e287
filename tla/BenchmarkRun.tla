---------------------------- MODULE BenchmarkRun ----------------------------
(***************************************************************************)
(* What `trimetry run` promises of the trials of a benchmark, with no      *)
(* goroutine, slot or retry in sight: every trial receives exactly one     *)
(* terminal status, a trial is "cancelled" only in an interrupted run, and *)
(* the run returns once every trial has its status and never before.       *)
(***************************************************************************)

CONSTANT Trials

Terminal == {"completed", "failed", "timeout", "cancelled"}

VARIABLES
    outcome,      \* outcome[t]: "pending", then the terminal status of trial t
    interrupted,  \* the user pressed Ctrl+C
    returned      \* Runner.Run has its results

vars == <<outcome, interrupted, returned>>

TypeOK ==
    /\ outcome \in [Trials -> Terminal \cup {"pending"}]
    /\ interrupted \in BOOLEAN
    /\ returned \in BOOLEAN

Init ==
    /\ outcome = [t \in Trials |-> "pending"]
    /\ interrupted = FALSE
    /\ returned = FALSE

Interrupt ==
    /\ interrupted' = TRUE
    /\ UNCHANGED <<outcome, returned>>

Decide(t, s) ==
    /\ outcome[t] = "pending"
    /\ s = "cancelled" => interrupted
    /\ outcome' = [outcome EXCEPT ![t] = s]
    /\ UNCHANGED <<interrupted, returned>>

Return ==
    /\ \A t \in Trials : outcome[t] # "pending"
    /\ returned' = TRUE
    /\ UNCHANGED <<outcome, interrupted>>

Next ==
    \/ Interrupt
    \/ \E t \in Trials, s \in Terminal : Decide(t, s)
    \/ Return

Fairness ==
    /\ \A t \in Trials : WF_vars(\E s \in Terminal : Decide(t, s))
    /\ WF_vars(Return)

SafeSpec == Init /\ [][Next]_vars
Spec == SafeSpec /\ Fairness

-----------------------------------------------------------------------------
\* The run ends, and by then every trial has been decided.
RunReturns == <>(returned /\ \A t \in Trials : outcome[t] \in Terminal)
=============================================================================
