-------------------------- MODULE CliProcess_proofs --------------------------
(***************************************************************************)
(* Proofs about CliProcess: whatever the order in which the child exits,   *)
(* the context ends and Run notices, success is the child's own, a kill at *)
(* the deadline is a timeout, and Execute returns once, as AdapterCall     *)
(* says. That is what TrialExecutor assumes of every attempt.              *)
(***************************************************************************)
EXTENDS CliProcess, TLAPS

-----------------------------------------------------------------------------
(* The inductive invariant. *)

\* The child and the watcher exist while Run waits for them, and only then can
\* the one be unreaped and the other deliver a kill.
ProcessInv ==
    /\ run = "start" => child = "none" /\ watcher = "off" /\ err = "none"
    /\ run = "wait" =>
           child \in {"running", "zombie"} /\ watcher \in {"armed", "fired"} /\ err = "none"
    /\ run = "collect" => child = "reaped" /\ watcher \in {"armed", "fired"}
    /\ run \in {"drain", "returned"} => child \in {"none", "reaped"} /\ watcher = "off"
    /\ child = "none" => killed = "none"

\* A kill is the watcher's and has the cause the context keeps.
KillInv == killed # "none" => ctx = killed /\ watcher # "armed"

\* The error of Run: the child's own status once it is reaped, and no success
\* once the watcher has been heard about a kill.
ErrorInv ==
    /\ run = "collect" => err = IF exit = "zero" THEN "none" ELSE "exit"
    /\ run \in {"drain", "returned"} /\ err = "none" =>
           child = "reaped" /\ exit = "zero" /\ killed = "none"

\* A call that began too late starts no child.
LateInv == late => ctx = "canceled" /\ child = "none"

\* The outcome is the one of the error and the context, from the return on.
OutcomeInv == outcome = IF run = "returned" THEN Classify ELSE "none"

IInv == TypeOK /\ ProcessInv /\ KillInv /\ ErrorInv /\ LateInv /\ OutcomeInv

USE DEF IInv, TypeOK, ProcessInv, KillInv, ErrorInv, LateInv, OutcomeInv, Classify

-----------------------------------------------------------------------------
(* The steps. *)

\* The invariant holds when Execute is called.
LEMMA InitInv == Init => IInv
  BY DEF Init

\* Every step of the code keeps it.
LEMMA CodeKeeps == IInv /\ Code => IInv'
<1> SUFFICES ASSUME IInv, Code PROVE IInv'
  OBVIOUS
<1>1. CASE Start
  BY <1>1 DEF Start
<1>2. CASE StartFails
  BY <1>2 DEF StartFails
<1>3. CASE Watch
  BY <1>3 DEF Watch
<1>4. CASE Reap
  BY <1>4 DEF Reap
<1>5. CASE Collect
  BY <1>5 DEF Collect
<1>6. CASE Return
  BY <1>6 DEF Return
<1> QED
  BY <1>1, <1>2, <1>3, <1>4, <1>5, <1>6 DEF Code

\* So does every step of the context, the child and its descendant.
LEMMA EnvironmentKeeps == IInv /\ Environment => IInv'
<1> SUFFICES ASSUME IInv, Environment PROVE IInv'
  OBVIOUS
<1>1. CASE Deadline
  BY <1>1 DEF Deadline
<1>2. CASE Interrupt
  BY <1>2 DEF Interrupt
<1>3. ASSUME NEW how \in {"zero", "code", "signal"}, ChildExits(how) PROVE IInv'
  BY <1>3 DEF ChildExits
<1>4. CASE ChildForks
  BY <1>4 DEF ChildForks
<1>5. CASE DescendantEnds
  <2>1. /\ descendant' \in BOOLEAN
        /\ UNCHANGED <<late, ctx, run, child, exit, watcher, killed, err, outcome>>
    BY <1>5 DEF DescendantEnds
  <2> QED
    BY <2>1
<1> QED
  BY <1>1, <1>2, <1>3, <1>4, <1>5 DEF Environment

\* Every step keeps the invariant.
LEMMA StepInv == IInv /\ [Next]_vars => IInv'
<1>1. IInv /\ UNCHANGED vars => IInv'
  BY DEF vars
<1> QED
  BY <1>1, CodeKeeps, EnvironmentKeeps DEF Next, Returned

-----------------------------------------------------------------------------
(* The theorems. *)

HIDE DEF IInv, TypeOK, ProcessInv, KillInv, ErrorInv, LateInv, OutcomeInv, Classify

\* IInv holds in every reachable state.
THEOREM Invariance == Spec => []IInv
  BY InitInv, StepInv, PTL DEF Spec

\* The variables of the call have their types.
THEOREM TypeCorrect == Spec => []TypeOK
<1>1. IInv => TypeOK
  BY DEF IInv
<1> QED
  BY <1>1, Invariance, PTL

\* Execute reports success only for a child that exited with code 0 and that no
\* kill reached, in whatever order exit, kill and Wait came.
THEOREM GenuineSuccess == Spec => []SuccessIsGenuine
<1>1. IInv => SuccessIsGenuine
  BY DEF SuccessIsGenuine, IInv, ErrorInv, OutcomeInv, Classify
<1> QED
  BY <1>1, Invariance, PTL

\* Execute reports a timeout for every child killed at the deadline.
THEOREM KilledIsTimeout == Spec => []KilledAtDeadlineIsTimeout
<1>1. IInv => KilledAtDeadlineIsTimeout
  BY DEF KilledAtDeadlineIsTimeout, IInv, TypeOK, KillInv, ErrorInv, OutcomeInv, Classify
<1> QED
  BY <1>1, Invariance, PTL

\* Every step of a call is a step of AdapterCall or leaves its variables
\* alone: Execute returns at most once, and not with success if the context
\* had ended before. (That it returns is the liveness part of the contract.)
THEOREM KeepsContract == Spec => Contract!Init /\ [][Contract!Next]_(Contract!vars)
<1>1. Init => Contract!Init
  BY DEF Init, Contract!Init
<1>2. IInv /\ [Next]_vars => [Contract!Next]_(Contract!vars)
  <2> SUFFICES ASSUME IInv, [Next]_vars, ~UNCHANGED <<late, outcome>>
               PROVE  \E o \in {"ok", "sentinel", "failure"} : Contract!Return(o)
    BY DEF Contract!Next, Contract!vars
  <2>1. Return
    BY DEF Next, Code, Environment, Returned, vars, Start, StartFails, Watch, Reap, Collect,
       Deadline, Interrupt, ChildExits, ChildForks, DescendantEnds
  <2>2. Contract!Return(Classify)
    BY <2>1 DEF Return, Contract!Return, IInv, ErrorInv, LateInv, OutcomeInv, Classify
  <2> QED
    BY <2>2 DEF Classify
<1> QED
  BY <1>1, <1>2, Invariance, PTL DEF Spec
=============================================================================
