----------------------------- MODULE AdapterCall -----------------------------
(***************************************************************************)
(* What runTrial expects of one call to ApplicationAdapter.Execute: it     *)
(* returns, once, with one of three outcomes, and a call that began after  *)
(* the context was cancelled does not return success. TrialExecutor's      *)
(* StartAttempt and AdapterReturns are this contract, for every trial.     *)
(***************************************************************************)

VARIABLES
    late,    \* the context was cancelled when the call began
    outcome  \* "none" until the call returns

vars == <<late, outcome>>

Init == late \in BOOLEAN /\ outcome = "none"

Return(o) ==
    /\ outcome = "none"
    /\ late => o # "ok"
    /\ outcome' = o
    /\ UNCHANGED late

Next == \E o \in {"ok", "sentinel", "failure"} : Return(o)

Spec == Init /\ [][Next]_vars /\ WF_vars(Next)
=============================================================================
