------------------------ MODULE TrialExecutor_proofs ------------------------
(***************************************************************************)
(* Proofs about TrialExecutor for every number of trials, every            *)
(* concurrency and every number of retries: IInv is inductive, the safety  *)
(* properties of the module follow from it, and each step is a step of     *)
(* BenchmarkRun or leaves its variables alone.                             *)
(***************************************************************************)
EXTENDS TrialExecutor, FiniteSetTheorems, TLAPS

USE NAssumption, ConcurrencyAssumption, RetriesAssumption, FlushAssumption

-----------------------------------------------------------------------------
(* Counting goroutines. *)

\* There are N trials.
LEMMA TrialsFinite == IsFiniteSet(Trials) /\ Cardinality(Trials) = N
  BY FS_Interval, SMT DEF Trials

\* Every set of trials is finite and no larger than N.
LEMMA TrialSets ==
    \A S \in SUBSET Trials :
        IsFiniteSet(S) /\ Cardinality(S) \in Nat /\ Cardinality(S) <= N
  BY TrialsFinite, FS_Subset, FS_CardinalityType

\* One goroutine moves: what happens to the sets of holders and of active ones.
LEMMA Moves ==
    ASSUME TypeOK, NEW t \in Trials, NEW place \in Places, Goto(t, place)
    PROVE  /\ Holders' = IF place \in Holding THEN Holders \cup {t} ELSE Holders \ {t}
           /\ Active' = IF place \in {"unspawned", "done"} THEN Active \ {t} ELSE Active \cup {t}
           /\ pc' \in [Trials -> Places]
           /\ pc'[t] = place
           /\ \A u \in Trials \ {t} : pc'[u] = pc[u]
  BY DEF TypeOK, Goto, Holders, Active

\* The first move of a trial through a place outside Reported, or a move that
\* leaves it in Reported, changes nothing the display counts.
LEMMA ShownSame ==
    ASSUME TypeOK, NEW t \in Trials, NEW place \in Places, Goto(t, place),
           place \in Reported <=> pc[t] \in Reported,
           \A u \in Trials : u # t \/ pc[t] \in Reported => status'[u] = status[u]
    PROVE  \A s \in Terminal : ShownAs(s)' = ShownAs(s)
  BY Moves DEF ShownAs

\* A trial that reports enters the set of its status and no other.
LEMMA ShownMore ==
    ASSUME TypeOK, NEW t \in Trials, NEW place \in Reported, Goto(t, place),
           pc[t] \notin Reported, status' = status, status[t] \in Terminal
    PROVE  \A s \in Terminal :
               /\ t \notin ShownAs(s)
               /\ ShownAs(s)' = IF s = status[t] THEN ShownAs(s) \cup {t} ELSE ShownAs(s)
<1>1. place \in Places
  BY DEF Reported, Places, Holding, InTrial
<1> QED
  BY <1>1, Moves DEF ShownAs

-----------------------------------------------------------------------------
(* The counters: each is the number of goroutines it stands for. *)

\* The channel `sem` holds one element for every goroutine that has a slot.
LEMMA SlotsStep == IInv /\ [Next]_vars => SlotsInv'
<1> SUFFICES ASSUME IInv, [Next]_vars PROVE SlotsInv'
  OBVIOUS
<1>1. CASE Spawn
  <2>1. spawned + 1 \in Trials /\ pc[spawned + 1] = "unspawned"
    BY <1>1 DEF Spawn, IInv, TypeOK, SpawnInv, Trials
  <2>2. spawned + 1 \notin Holders
    BY <2>1 DEF Holders, Places, Holding, InTrial
  <2>3. Holders' = Holders
    BY <1>1, <2>1, <2>2, Moves DEF Spawn, IInv, Places, Holding, InTrial
  <2> QED
    BY <1>1, <2>2, <2>3, TrialSets, FS_AddElement DEF Spawn, IInv, SlotsInv,
       Holders
<1>2. CASE Interrupt
  <2>1. Holders' = Holders
    BY <1>2 DEF Interrupt, IInv, TypeOK, Holders, Places, Holding, InTrial
  <2> QED
    BY <1>2, <2>1 DEF Interrupt, IInv, SlotsInv
<1>3. ASSUME NEW t \in Trials, Park(t) PROVE SlotsInv'
  <2>1. Goto(t, "parked")
    BY <1>3 DEF Park
  <2>2. Holders' = Holders
    BY <1>3, <2>1, Moves DEF Park, IInv, Holders, Places, Holding, InTrial
  <2> QED
    BY <1>3, <2>2 DEF Park, IInv, SlotsInv, Holders
<1>4. ASSUME NEW t \in Trials, Acquire(t) PROVE SlotsInv'
  <2>1. Goto(t, "begin")
    BY <1>4 DEF Acquire
  <2>2. t \notin Holders /\ Holders' = Holders \cup {t}
    BY <1>4, <2>1, Moves DEF Acquire, IInv, Holders, Places, Holding, InTrial
  <2> QED
    BY <1>4, <2>2, TrialSets, FS_AddElement DEF Acquire, IInv, SlotsInv,
       Holders
<1>5. ASSUME NEW t \in Trials, ObserveCancel(t) PROVE SlotsInv'
  <2>1. Goto(t, "reportCancelled")
    BY <1>5 DEF ObserveCancel
  <2>2. Holders' = Holders
    BY <1>5, <2>1, Moves DEF ObserveCancel, IInv, Holders, Places, Holding,
       InTrial
  <2> QED
    BY <1>5, <2>2 DEF ObserveCancel, IInv, SlotsInv, Holders
<1>6. ASSUME NEW t \in Trials, Begin(t) PROVE SlotsInv'
  <2>1. Goto(t, IF Retries < 0 THEN "finish" ELSE "attempt")
    BY <1>6 DEF Begin
  <2>2. Holders' = Holders
    BY <1>6, <2>1, Moves DEF Begin, IInv, Holders, Places, Holding, InTrial
  <2> QED
    BY <1>6, <2>2 DEF Begin, IInv, SlotsInv, Holders
<1>7. ASSUME NEW t \in Trials, StartAttempt(t) PROVE SlotsInv'
  <2>1. Goto(t, "executing")
    BY <1>7 DEF StartAttempt
  <2>2. Holders' = Holders
    BY <1>7, <2>1, Moves DEF StartAttempt, IInv, Holders, Places, Holding,
       InTrial
  <2> QED
    BY <1>7, <2>2 DEF StartAttempt, IInv, SlotsInv, Holders
<1>8. ASSUME NEW t \in Trials, NEW o \in Outcomes, AdapterReturns(t, o) PROVE SlotsInv'
  <2>1. PICK place \in {"attempt", "finish"} : pc[t] = "executing" /\ Goto(t, place)
    BY <1>8 DEF AdapterReturns, Returns, DecideAfter, LeaveLoop, NextAttempt
  <2>2. Holders' = Holders
    BY <2>1, Moves DEF IInv, Holders, Places, Holding, InTrial
  <2> QED
    BY <1>8, <2>2 DEF AdapterReturns, Returns, DecideAfter, LeaveLoop,
       NextAttempt, IInv, SlotsInv, Holders
<1>9. ASSUME NEW t \in Trials, Finish(t) PROVE SlotsInv'
  <2>1. Goto(t, "annotate")
    BY <1>9 DEF Finish, ApplyOutcome
  <2>2. Holders' = Holders
    BY <1>9, <2>1, Moves DEF Finish, ApplyOutcome, IInv, Holders, Places,
       Holding, InTrial
  <2> QED
    BY <1>9, <2>2 DEF Finish, ApplyOutcome, IInv, SlotsInv, Holders
<1>10. ASSUME NEW t \in Trials, Annotate(t) PROVE SlotsInv'
  <2>1. Goto(t, IF FlushOnTrialEnd THEN "flush" ELSE "report")
    BY <1>10 DEF Annotate
  <2>2. Holders' = Holders
    BY <1>10, <2>1, Moves DEF Annotate, IInv, Holders, Places, Holding, InTrial
  <2> QED
    BY <1>10, <2>2 DEF Annotate, IInv, SlotsInv, Holders
<1>11. ASSUME NEW t \in Trials, TrialFlush(t) PROVE SlotsInv'
  <2>1. Goto(t, IF batch = {} THEN "report" ELSE "flushing")
    BY <1>11 DEF TrialFlush, TakeBatch
  <2>2. Holders' = Holders
    BY <1>11, <2>1, Moves DEF TrialFlush, TakeBatch, IInv, Holders, Places,
       Holding, InTrial
  <2> QED
    BY <1>11, <2>2 DEF TrialFlush, TakeBatch, IInv, SlotsInv, Holders
<1>12. ASSUME NEW t \in Trials, TrialFlushed(t) PROVE SlotsInv'
  <2>1. Goto(t, "report")
    BY <1>12 DEF TrialFlushed, Settle
  <2>2. Holders' = Holders
    BY <1>12, <2>1, Moves DEF TrialFlushed, Settle, IInv, Holders, Places,
       Holding, InTrial
  <2> QED
    BY <1>12, <2>2 DEF TrialFlushed, Settle, IInv, SlotsInv, Holders
<1>13. ASSUME NEW t \in Trials, Report(t) PROVE SlotsInv'
  <2>1. Goto(t, "release")
    BY <1>13 DEF Report, Count
  <2>2. Holders' = Holders
    BY <1>13, <2>1, Moves DEF Report, Count, IInv, Holders, Places, Holding,
       InTrial
  <2> QED
    BY <1>13, <2>2 DEF Report, Count, IInv, SlotsInv, Holders
<1>14. ASSUME NEW t \in Trials, ReportCancelled(t) PROVE SlotsInv'
  <2>1. Goto(t, "exit")
    BY <1>14 DEF ReportCancelled, Count
  <2>2. Holders' = Holders
    BY <1>14, <2>1, Moves DEF ReportCancelled, Count, IInv, Holders, Places,
       Holding, InTrial
  <2> QED
    BY <1>14, <2>2 DEF ReportCancelled, Count, IInv, SlotsInv, Holders
<1>15. ASSUME NEW t \in Trials, Release(t) PROVE SlotsInv'
  <2>1. Goto(t, "exit")
    BY <1>15 DEF Release
  <2>2. t \in Holders /\ Holders' = Holders \ {t}
    BY <1>15, <2>1, Moves DEF Release, IInv, Holders, Places, Holding, InTrial
  <2> QED
    BY <1>15, <2>2, TrialSets, FS_RemoveElement DEF Release, IInv, SlotsInv,
       Holders
<1>16. ASSUME NEW t \in Trials, Exit(t) PROVE SlotsInv'
  <2>1. Goto(t, "done")
    BY <1>16 DEF Exit
  <2>2. Holders' = Holders
    BY <1>16, <2>1, Moves DEF Exit, IInv, Holders, Places, Holding, InTrial
  <2> QED
    BY <1>16, <2>2 DEF Exit, IInv, SlotsInv, Holders
<1>17. CASE WaitReturns
  BY <1>17 DEF WaitReturns, IInv, SlotsInv, Holders
<1>18. CASE FinalFlush
  BY <1>18 DEF FinalFlush, TakeBatch, IInv, SlotsInv, Holders
<1>19. CASE FinalFlushed
  BY <1>19 DEF FinalFlushed, Settle, IInv, SlotsInv, Holders
<1>20. CASE UNCHANGED vars
  BY <1>20 DEF IInv, SlotsInv, Holders, vars
<1> QED
  BY <1>1, <1>2, <1>3, <1>4, <1>5, <1>6, <1>7, <1>8, <1>9, <1>10, <1>11, <1>12,
     <1>13, <1>14, <1>15, <1>16, <1>17, <1>18, <1>19, <1>20 DEF Next, MainStep,
     TrialStep, Finished

\* The WaitGroup counts the goroutines that have been started and have not
\* ended.
LEMMA WaitStep == IInv /\ [Next]_vars => WaitInv'
<1> SUFFICES ASSUME IInv, [Next]_vars PROVE WaitInv'
  OBVIOUS
<1>1. CASE Spawn
  <2>1. spawned + 1 \in Trials /\ pc[spawned + 1] = "unspawned"
    BY <1>1 DEF Spawn, IInv, TypeOK, SpawnInv, Trials
  <2>2. spawned + 1 \notin Active
    BY <2>1 DEF Active, Places, Holding, InTrial
  <2>3. Active' = Active \cup {spawned + 1}
    BY <1>1, <2>1, <2>2, Moves DEF Spawn, IInv, Places, Holding, InTrial
  <2> QED
    BY <1>1, <2>2, <2>3, TrialSets, FS_AddElement DEF Spawn, IInv, WaitInv,
       Active
<1>2. CASE Interrupt
  <2>1. Active' = Active
    BY <1>2 DEF Interrupt, IInv, TypeOK, Active, Places, Holding, InTrial
  <2> QED
    BY <1>2, <2>1 DEF Interrupt, IInv, WaitInv
<1>3. ASSUME NEW t \in Trials, Park(t) PROVE WaitInv'
  <2>1. Goto(t, "parked")
    BY <1>3 DEF Park
  <2>2. Active' = Active
    BY <1>3, <2>1, Moves DEF Park, IInv, Active, Places, Holding, InTrial
  <2> QED
    BY <1>3, <2>2 DEF Park, IInv, WaitInv, Active
<1>4. ASSUME NEW t \in Trials, Acquire(t) PROVE WaitInv'
  <2>1. Goto(t, "begin")
    BY <1>4 DEF Acquire
  <2>2. Active' = Active
    BY <1>4, <2>1, Moves DEF Acquire, IInv, Active, Places, Holding, InTrial
  <2> QED
    BY <1>4, <2>2 DEF Acquire, IInv, WaitInv, Active
<1>5. ASSUME NEW t \in Trials, ObserveCancel(t) PROVE WaitInv'
  <2>1. Goto(t, "reportCancelled")
    BY <1>5 DEF ObserveCancel
  <2>2. Active' = Active
    BY <1>5, <2>1, Moves DEF ObserveCancel, IInv, Active, Places, Holding,
       InTrial
  <2> QED
    BY <1>5, <2>2 DEF ObserveCancel, IInv, WaitInv, Active
<1>6. ASSUME NEW t \in Trials, Begin(t) PROVE WaitInv'
  <2>1. Goto(t, IF Retries < 0 THEN "finish" ELSE "attempt")
    BY <1>6 DEF Begin
  <2>2. Active' = Active
    BY <1>6, <2>1, Moves DEF Begin, IInv, Active, Places, Holding, InTrial
  <2> QED
    BY <1>6, <2>2 DEF Begin, IInv, WaitInv, Active
<1>7. ASSUME NEW t \in Trials, StartAttempt(t) PROVE WaitInv'
  <2>1. Goto(t, "executing")
    BY <1>7 DEF StartAttempt
  <2>2. Active' = Active
    BY <1>7, <2>1, Moves DEF StartAttempt, IInv, Active, Places, Holding,
       InTrial
  <2> QED
    BY <1>7, <2>2 DEF StartAttempt, IInv, WaitInv, Active
<1>8. ASSUME NEW t \in Trials, NEW o \in Outcomes, AdapterReturns(t, o) PROVE WaitInv'
  <2>1. PICK place \in {"attempt", "finish"} : pc[t] = "executing" /\ Goto(t, place)
    BY <1>8 DEF AdapterReturns, Returns, DecideAfter, LeaveLoop, NextAttempt
  <2>2. Active' = Active
    BY <2>1, Moves DEF IInv, Active, Places, Holding, InTrial
  <2> QED
    BY <1>8, <2>2 DEF AdapterReturns, Returns, DecideAfter, LeaveLoop,
       NextAttempt, IInv, WaitInv, Active
<1>9. ASSUME NEW t \in Trials, Finish(t) PROVE WaitInv'
  <2>1. Goto(t, "annotate")
    BY <1>9 DEF Finish, ApplyOutcome
  <2>2. Active' = Active
    BY <1>9, <2>1, Moves DEF Finish, ApplyOutcome, IInv, Active, Places,
       Holding, InTrial
  <2> QED
    BY <1>9, <2>2 DEF Finish, ApplyOutcome, IInv, WaitInv, Active
<1>10. ASSUME NEW t \in Trials, Annotate(t) PROVE WaitInv'
  <2>1. Goto(t, IF FlushOnTrialEnd THEN "flush" ELSE "report")
    BY <1>10 DEF Annotate
  <2>2. Active' = Active
    BY <1>10, <2>1, Moves DEF Annotate, IInv, Active, Places, Holding, InTrial
  <2> QED
    BY <1>10, <2>2 DEF Annotate, IInv, WaitInv, Active
<1>11. ASSUME NEW t \in Trials, TrialFlush(t) PROVE WaitInv'
  <2>1. Goto(t, IF batch = {} THEN "report" ELSE "flushing")
    BY <1>11 DEF TrialFlush, TakeBatch
  <2>2. Active' = Active
    BY <1>11, <2>1, Moves DEF TrialFlush, TakeBatch, IInv, Active, Places,
       Holding, InTrial
  <2> QED
    BY <1>11, <2>2 DEF TrialFlush, TakeBatch, IInv, WaitInv, Active
<1>12. ASSUME NEW t \in Trials, TrialFlushed(t) PROVE WaitInv'
  <2>1. Goto(t, "report")
    BY <1>12 DEF TrialFlushed, Settle
  <2>2. Active' = Active
    BY <1>12, <2>1, Moves DEF TrialFlushed, Settle, IInv, Active, Places,
       Holding, InTrial
  <2> QED
    BY <1>12, <2>2 DEF TrialFlushed, Settle, IInv, WaitInv, Active
<1>13. ASSUME NEW t \in Trials, Report(t) PROVE WaitInv'
  <2>1. Goto(t, "release")
    BY <1>13 DEF Report, Count
  <2>2. Active' = Active
    BY <1>13, <2>1, Moves DEF Report, Count, IInv, Active, Places, Holding,
       InTrial
  <2> QED
    BY <1>13, <2>2 DEF Report, Count, IInv, WaitInv, Active
<1>14. ASSUME NEW t \in Trials, ReportCancelled(t) PROVE WaitInv'
  <2>1. Goto(t, "exit")
    BY <1>14 DEF ReportCancelled, Count
  <2>2. Active' = Active
    BY <1>14, <2>1, Moves DEF ReportCancelled, Count, IInv, Active, Places,
       Holding, InTrial
  <2> QED
    BY <1>14, <2>2 DEF ReportCancelled, Count, IInv, WaitInv, Active
<1>15. ASSUME NEW t \in Trials, Release(t) PROVE WaitInv'
  <2>1. Goto(t, "exit")
    BY <1>15 DEF Release
  <2>2. Active' = Active
    BY <1>15, <2>1, Moves DEF Release, IInv, Active, Places, Holding, InTrial
  <2> QED
    BY <1>15, <2>2 DEF Release, IInv, WaitInv, Active
<1>16. ASSUME NEW t \in Trials, Exit(t) PROVE WaitInv'
  <2>1. Goto(t, "done")
    BY <1>16 DEF Exit
  <2>2. t \in Active /\ Active' = Active \ {t}
    BY <1>16, <2>1, Moves DEF Exit, IInv, Active, Places, Holding, InTrial
  <2>3. Cardinality(Active \ {t}) = Cardinality(Active) - 1
    BY <2>2, TrialSets, FS_RemoveElement DEF Active
  <2> QED
    BY <1>16, <2>2, <2>3 DEF Exit, IInv, WaitInv
<1>17. CASE WaitReturns
  BY <1>17 DEF WaitReturns, IInv, WaitInv, Active
<1>18. CASE FinalFlush
  BY <1>18 DEF FinalFlush, TakeBatch, IInv, WaitInv, Active
<1>19. CASE FinalFlushed
  BY <1>19 DEF FinalFlushed, Settle, IInv, WaitInv, Active
<1>20. CASE UNCHANGED vars
  BY <1>20 DEF IInv, WaitInv, Active, vars
<1> QED
  BY <1>1, <1>2, <1>3, <1>4, <1>5, <1>6, <1>7, <1>8, <1>9, <1>10, <1>11, <1>12,
     <1>13, <1>14, <1>15, <1>16, <1>17, <1>18, <1>19, <1>20 DEF Next, MainStep,
     TrialStep, Finished

-----------------------------------------------------------------------------
(* The other parts of the invariant, one action at a time. *)

\* Types: the two counters are in range because of the sets they count.
LEMMA TypeStep == IInv /\ [Next]_vars => TypeOK'
<1> SUFFICES ASSUME IInv, [Next]_vars PROVE TypeOK'
  OBVIOUS
<1>a. wg' \in 0..N
  <2>1. Active' \in SUBSET Trials
    BY DEF Active
  <2> QED
    BY <2>1, WaitStep, TrialSets DEF WaitInv
<1>b. sem' \in Nat
  <2>1. Holders' \in SUBSET Trials
    BY DEF Holders
  <2> QED
    BY <2>1, SlotsStep, TrialSets DEF SlotsInv
<1>1. CASE Spawn
  <2>1. pc' \in [Trials -> Places]
    BY <1>1 DEF Spawn, Goto, IInv, TypeOK, Trials, Places, Holding, InTrial
  <2>2. UNCHANGED <<main, sem, cancelled, trialVars, telemetryVars, displayVars>>
    BY <1>1 DEF Spawn
  <2>3. spawned' \in 0..N
    BY <1>1 DEF Spawn, IInv, TypeOK
  <2> QED
    BY <1>a, <2>1, <2>2, <2>3 DEF IInv, TypeOK, trialVars, telemetryVars,
       displayVars
<1>2. CASE Interrupt
  <2>1. pc' \in [Trials -> Places]
    BY <1>2 DEF Interrupt, Goto, IInv, TypeOK, Trials, Places, Holding, InTrial
  <2>2. UNCHANGED <<mainVars, wg, sem, trialVars, telemetryVars, displayVars>>
    BY <1>2 DEF Interrupt
  <2>3. cancelled' \in BOOLEAN
    BY <1>2 DEF Interrupt, IInv, TypeOK
  <2> QED
    BY <2>1, <2>2, <2>3 DEF IInv, TypeOK, mainVars, trialVars, telemetryVars,
       displayVars
<1>3. ASSUME NEW t \in Trials, Park(t) PROVE TypeOK'
  <2>1. pc' \in [Trials -> Places]
    BY <1>3 DEF Park, Goto, IInv, TypeOK, Trials, Places, Holding, InTrial
  <2>2. UNCHANGED <<mainVars, wg, sem, cancelled, trialVars, telemetryVars, displayVars>>
    BY <1>3 DEF Park
  <2> QED
    BY <2>1, <2>2 DEF IInv, TypeOK, mainVars, trialVars, telemetryVars,
       displayVars
<1>4. ASSUME NEW t \in Trials, Acquire(t) PROVE TypeOK'
  <2>1. pc' \in [Trials -> Places]
    BY <1>4 DEF Acquire, Goto, IInv, TypeOK, Trials, Places, Holding, InTrial
  <2>2. UNCHANGED <<mainVars, wg, cancelled, trialVars, telemetryVars, displayVars>>
    BY <1>4 DEF Acquire
  <2>3. sem' \in 0..Concurrency
    BY <1>4, <1>b DEF Acquire, IInv, TypeOK
  <2> QED
    BY <2>3, <2>1, <2>2 DEF IInv, TypeOK, mainVars, trialVars, telemetryVars,
       displayVars
<1>5. ASSUME NEW t \in Trials, ObserveCancel(t) PROVE TypeOK'
  <2>1. pc' \in [Trials -> Places]
    BY <1>5 DEF ObserveCancel, Goto, IInv, TypeOK, Trials, Places, Holding,
       InTrial
  <2>2. UNCHANGED <<mainVars, wg, sem, cancelled, attempt, retryCount, outcome, lateCalls, telemetryVars, displayVars>>
    BY <1>5 DEF ObserveCancel
  <2>3. status' \in [Trials -> Terminal \cup {"pending", "running"}]
    BY <1>5 DEF ObserveCancel, IInv, TypeOK, Terminal, Outcomes, Flushers,
       Trials
  <2>4. results' \in [Trials -> Terminal \cup {"pending"}]
    BY <1>5 DEF ObserveCancel, IInv, TypeOK, Terminal, Outcomes, Flushers,
       Trials
  <2> QED
    BY <2>1, <2>2, <2>3, <2>4 DEF IInv, TypeOK, mainVars, telemetryVars,
       displayVars
<1>6. ASSUME NEW t \in Trials, Begin(t) PROVE TypeOK'
  <2>1. pc' \in [Trials -> Places]
    BY <1>6 DEF Begin, Goto, IInv, TypeOK, Trials, Places, Holding, InTrial
  <2>2. UNCHANGED <<mainVars, wg, sem, cancelled, attempt, retryCount, outcome, results, lateCalls, batch, taken, displayVars>>
    BY <1>6 DEF Begin
  <2>3. status' \in [Trials -> Terminal \cup {"pending", "running"}]
    BY <1>6 DEF Begin, IInv, TypeOK
  <2>4. contexts' \subseteq Trials
    BY <1>6 DEF Begin, IInv, TypeOK
  <2> QED
    BY <2>1, <2>2, <2>3, <2>4 DEF IInv, TypeOK, mainVars, displayVars
<1>7. ASSUME NEW t \in Trials, StartAttempt(t) PROVE TypeOK'
  <2>1. pc' \in [Trials -> Places]
    BY <1>7 DEF StartAttempt, Goto, IInv, TypeOK, Trials, Places, Holding,
       InTrial
  <2>2. UNCHANGED <<mainVars, wg, sem, cancelled, attempt, outcome, status, results, telemetryVars, shown>>
    BY <1>7 DEF StartAttempt
  <2>3. retryCount' \in [Trials -> Nat]
    BY <1>7 DEF StartAttempt, IInv, TypeOK
  <2>4. retriesShown' \in Nat
    BY <1>7 DEF StartAttempt, IInv, TypeOK
  <2>5. lateCalls' \in [Trials -> Nat]
    BY <1>7 DEF StartAttempt, IInv, TypeOK
  <2> QED
    BY <2>1, <2>2, <2>3, <2>4, <2>5 DEF IInv, TypeOK, mainVars, telemetryVars
<1>8. ASSUME NEW t \in Trials, NEW o \in Outcomes, AdapterReturns(t, o) PROVE TypeOK'
  <2>1. pc' \in [Trials -> Places]
    BY <1>8 DEF AdapterReturns, Returns, DecideAfter, LeaveLoop, NextAttempt,
       Goto, IInv, TypeOK, Trials, Places, Holding, InTrial
  <2>2. UNCHANGED <<mainVars, wg, sem, cancelled, retryCount, status, results, lateCalls, telemetryVars, displayVars>>
    BY <1>8 DEF AdapterReturns, Returns
  <2>3. outcome' \in [Trials -> Outcomes \cup {"none"}]
    BY <1>8 DEF AdapterReturns, Returns, DecideAfter, LeaveLoop, NextAttempt,
       IInv, TypeOK
  <2>4. attempt' \in [Trials -> Nat]
    <3>1. attempt' \in {attempt, [attempt EXCEPT ![t] = @ + 1]}
      BY <1>8 DEF AdapterReturns, DecideAfter, LeaveLoop, NextAttempt
    <3> QED
      BY <3>1 DEF IInv, TypeOK
  <2> QED
    BY <2>1, <2>2, <2>3, <2>4 DEF IInv, TypeOK, mainVars, telemetryVars,
       displayVars
<1>9. ASSUME NEW t \in Trials, Finish(t) PROVE TypeOK'
  <2>1. pc' \in [Trials -> Places]
    BY <1>9 DEF Finish, ApplyOutcome, Goto, IInv, TypeOK, Trials, Places,
       Holding, InTrial
  <2>2. UNCHANGED <<mainVars, wg, sem, cancelled, attempt, retryCount, outcome, results, lateCalls, batch, taken, displayVars>>
    BY <1>9 DEF Finish
  <2>3. status' \in [Trials -> Terminal \cup {"pending", "running"}]
    BY <1>9 DEF Finish, ApplyOutcome, IInv, TypeOK, Terminal, Outcomes,
       Flushers, Trials
  <2>4. contexts' \subseteq Trials
    BY <1>9 DEF Finish, ApplyOutcome, IInv, TypeOK
  <2> QED
    BY <2>1, <2>2, <2>3, <2>4 DEF IInv, TypeOK, mainVars, displayVars
<1>10. ASSUME NEW t \in Trials, Annotate(t) PROVE TypeOK'
  <2>1. pc' \in [Trials -> Places]
    BY <1>10 DEF Annotate, Goto, IInv, TypeOK, Trials, Places, Holding, InTrial
  <2>2. UNCHANGED <<mainVars, wg, sem, cancelled, trialVars, contexts, taken, displayVars>>
    BY <1>10 DEF Annotate, telemetryVars
  <2>3. batch' \subseteq Trials
    BY <1>10 DEF Annotate, IInv, TypeOK
  <2> QED
    BY <2>1, <2>2, <2>3 DEF IInv, TypeOK, mainVars, trialVars, displayVars
<1>11. ASSUME NEW t \in Trials, TrialFlush(t) PROVE TypeOK'
  <2>1. pc' \in [Trials -> Places]
    BY <1>11 DEF TrialFlush, TakeBatch, Goto, IInv, TypeOK, Trials, Places,
       Holding, InTrial
  <2>2. UNCHANGED <<mainVars, wg, sem, cancelled, trialVars, contexts, displayVars>>
    BY <1>11 DEF TrialFlush, TakeBatch, telemetryVars
  <2>3. batch' \subseteq Trials
    BY <1>11 DEF TrialFlush, TakeBatch, IInv, TypeOK
  <2>4. taken' \in [Flushers -> SUBSET Trials]
    BY <1>11 DEF TrialFlush, TakeBatch, IInv, TypeOK
  <2> QED
    BY <2>1, <2>2, <2>3, <2>4 DEF IInv, TypeOK, mainVars, trialVars,
       displayVars
<1>12. ASSUME NEW t \in Trials, TrialFlushed(t) PROVE TypeOK'
  <2>1. pc' \in [Trials -> Places]
    BY <1>12 DEF TrialFlushed, Settle, Goto, IInv, TypeOK, Trials, Places,
       Holding, InTrial
  <2>2. UNCHANGED <<mainVars, wg, sem, cancelled, trialVars, contexts, displayVars>>
    BY <1>12 DEF TrialFlushed, Settle, telemetryVars
  <2>3. batch' \subseteq Trials
    BY <1>12 DEF TrialFlushed, Settle, IInv, TypeOK, Terminal, Outcomes,
       Flushers, Trials
  <2>4. taken' \in [Flushers -> SUBSET Trials]
    BY <1>12 DEF TrialFlushed, Settle, IInv, TypeOK
  <2> QED
    BY <2>1, <2>2, <2>3, <2>4 DEF IInv, TypeOK, mainVars, trialVars,
       displayVars
<1>13. ASSUME NEW t \in Trials, Report(t) PROVE TypeOK'
  <2>1. pc' \in [Trials -> Places]
    BY <1>13 DEF Report, Count, Goto, IInv, TypeOK, Trials, Places, Holding,
       InTrial
  <2>2. UNCHANGED <<mainVars, wg, sem, cancelled, trialVars, telemetryVars, retriesShown>>
    BY <1>13 DEF Report, Count
  <2>3. shown' \in [Terminal -> Nat]
    BY <1>13 DEF Report, Count, IInv, TypeOK, ResultInv
  <2> QED
    BY <2>1, <2>2, <2>3 DEF IInv, TypeOK, mainVars, trialVars, telemetryVars
<1>14. ASSUME NEW t \in Trials, ReportCancelled(t) PROVE TypeOK'
  <2>1. pc' \in [Trials -> Places]
    BY <1>14 DEF ReportCancelled, Count, Goto, IInv, TypeOK, Trials, Places,
       Holding, InTrial
  <2>2. UNCHANGED <<mainVars, wg, sem, cancelled, trialVars, telemetryVars, retriesShown>>
    BY <1>14 DEF ReportCancelled, Count
  <2>3. shown' \in [Terminal -> Nat]
    BY <1>14 DEF ReportCancelled, Count, IInv, TypeOK, Terminal, Outcomes,
       Flushers, Trials
  <2> QED
    BY <2>1, <2>2, <2>3 DEF IInv, TypeOK, mainVars, trialVars, telemetryVars
<1>15. ASSUME NEW t \in Trials, Release(t) PROVE TypeOK'
  <2>1. pc' \in [Trials -> Places]
    BY <1>15 DEF Release, Goto, IInv, TypeOK, Trials, Places, Holding, InTrial
  <2>2. UNCHANGED <<mainVars, wg, cancelled, attempt, retryCount, outcome, status, lateCalls, telemetryVars, displayVars>>
    BY <1>15 DEF Release
  <2>3. results' \in [Trials -> Terminal \cup {"pending"}]
    BY <1>15 DEF Release, IInv, TypeOK, ResultInv
  <2>4. sem' \in 0..Concurrency
    BY <1>15, <1>b DEF Release, IInv, TypeOK
  <2> QED
    BY <2>4, <2>1, <2>2, <2>3 DEF IInv, TypeOK, mainVars, telemetryVars,
       displayVars
<1>16. ASSUME NEW t \in Trials, Exit(t) PROVE TypeOK'
  <2>1. pc' \in [Trials -> Places]
    BY <1>16 DEF Exit, Goto, IInv, TypeOK, Trials, Places, Holding, InTrial
  <2>2. UNCHANGED <<mainVars, sem, cancelled, trialVars, telemetryVars, displayVars>>
    BY <1>16 DEF Exit
  <2> QED
    BY <1>a, <2>1, <2>2 DEF IInv, TypeOK, mainVars, trialVars, telemetryVars,
       displayVars
<1>17. CASE WaitReturns
  <2>1. UNCHANGED <<spawned, wg, sem, cancelled, trialVars, telemetryVars, displayVars, pc>>
    BY <1>17 DEF WaitReturns
  <2>2. main' \in {"spawn", "flush", "flushing", "finished"}
    BY <1>17 DEF WaitReturns, IInv, TypeOK
  <2> QED
    BY <2>1, <2>2 DEF IInv, TypeOK, trialVars, telemetryVars, displayVars
<1>18. CASE FinalFlush
  <2>1. UNCHANGED <<spawned, wg, sem, cancelled, trialVars, contexts, displayVars, pc>>
    BY <1>18 DEF FinalFlush, TakeBatch, telemetryVars
  <2>2. main' \in {"spawn", "flush", "flushing", "finished"}
    BY <1>18 DEF FinalFlush, TakeBatch, IInv, TypeOK
  <2>3. batch' \subseteq Trials
    BY <1>18 DEF FinalFlush, TakeBatch, IInv, TypeOK
  <2>4. taken' \in [Flushers -> SUBSET Trials]
    BY <1>18 DEF FinalFlush, TakeBatch, IInv, TypeOK
  <2> QED
    BY <2>1, <2>2, <2>3, <2>4 DEF IInv, TypeOK, trialVars, displayVars
<1>19. CASE FinalFlushed
  <2>1. UNCHANGED <<spawned, wg, sem, cancelled, trialVars, contexts, displayVars, pc>>
    BY <1>19 DEF FinalFlushed, Settle, telemetryVars
  <2>2. main' \in {"spawn", "flush", "flushing", "finished"}
    BY <1>19 DEF FinalFlushed, Settle, IInv, TypeOK
  <2>3. batch' \subseteq Trials
    BY <1>19 DEF FinalFlushed, Settle, IInv, TypeOK, Terminal, Outcomes,
       Flushers, Trials
  <2>4. taken' \in [Flushers -> SUBSET Trials]
    BY <1>19 DEF FinalFlushed, Settle, IInv, TypeOK
  <2> QED
    BY <2>1, <2>2, <2>3, <2>4 DEF IInv, TypeOK, trialVars, displayVars
<1>20. CASE UNCHANGED vars
  BY <1>20 DEF IInv, TypeOK, vars, mainVars, trialVars, telemetryVars,
     displayVars
<1> QED
  BY <1>1, <1>2, <1>3, <1>4, <1>5, <1>6, <1>7, <1>8, <1>9, <1>10, <1>11, <1>12,
     <1>13, <1>14, <1>15, <1>16, <1>17, <1>18, <1>19, <1>20 DEF Next, MainStep,
     TrialStep, Finished

\* The goroutines are started in the order of the trials.
LEMMA SpawnStep == IInv /\ [Next]_vars => SpawnInv'
<1> SUFFICES ASSUME IInv, [Next]_vars PROVE SpawnInv'
  OBVIOUS
<1>1. CASE Spawn
  BY <1>1 DEF Spawn, Goto, IInv, TypeOK, SpawnInv, Trials, Places, Holding,
     InTrial, trialVars, telemetryVars, displayVars
<1>2. CASE Interrupt
  BY <1>2 DEF Interrupt, IInv, TypeOK, SpawnInv, Trials, Places, Holding,
     InTrial, mainVars, trialVars, telemetryVars, displayVars
<1>3. ASSUME NEW t \in Trials, Park(t) PROVE SpawnInv'
  BY <1>3 DEF Park, Goto, IInv, TypeOK, SpawnInv, Trials, Places, Holding,
     InTrial, mainVars, trialVars, telemetryVars, displayVars
<1>4. ASSUME NEW t \in Trials, Acquire(t) PROVE SpawnInv'
  BY <1>4 DEF Acquire, Goto, IInv, TypeOK, SpawnInv, Trials, Places, Holding,
     InTrial, mainVars, trialVars, telemetryVars, displayVars
<1>5. ASSUME NEW t \in Trials, ObserveCancel(t) PROVE SpawnInv'
  BY <1>5 DEF ObserveCancel, Goto, IInv, TypeOK, SpawnInv, Trials, Places,
     Holding, InTrial, mainVars, telemetryVars, displayVars
<1>6. ASSUME NEW t \in Trials, Begin(t) PROVE SpawnInv'
  BY <1>6 DEF Begin, Goto, IInv, TypeOK, SpawnInv, Trials, Places, Holding,
     InTrial, mainVars, displayVars
<1>7. ASSUME NEW t \in Trials, StartAttempt(t) PROVE SpawnInv'
  BY <1>7 DEF StartAttempt, Goto, IInv, TypeOK, SpawnInv, Trials, Places,
     Holding, InTrial, mainVars, telemetryVars
<1>8. ASSUME NEW t \in Trials, NEW o \in Outcomes, AdapterReturns(t, o) PROVE SpawnInv'
  BY <1>8 DEF AdapterReturns, Returns, DecideAfter, LeaveLoop, NextAttempt,
     Goto, IInv, TypeOK, SpawnInv, Trials, Places, Holding, InTrial, mainVars,
     telemetryVars, displayVars
<1>9. ASSUME NEW t \in Trials, Finish(t) PROVE SpawnInv'
  BY <1>9 DEF Finish, Goto, IInv, TypeOK, SpawnInv, Trials, Places, Holding,
     InTrial, mainVars, displayVars
<1>10. ASSUME NEW t \in Trials, Annotate(t) PROVE SpawnInv'
  BY <1>10 DEF Annotate, Goto, IInv, TypeOK, SpawnInv, Trials, Places, Holding,
     InTrial, mainVars, trialVars, displayVars
<1>11. ASSUME NEW t \in Trials, TrialFlush(t) PROVE SpawnInv'
  BY <1>11 DEF TrialFlush, TakeBatch, Goto, IInv, TypeOK, SpawnInv, Trials,
     Places, Holding, InTrial, mainVars, trialVars, displayVars
<1>12. ASSUME NEW t \in Trials, TrialFlushed(t) PROVE SpawnInv'
  BY <1>12 DEF TrialFlushed, Settle, Goto, IInv, TypeOK, SpawnInv, Trials,
     Places, Holding, InTrial, mainVars, trialVars, displayVars
<1>13. ASSUME NEW t \in Trials, Report(t) PROVE SpawnInv'
  BY <1>13 DEF Report, Count, Goto, IInv, TypeOK, SpawnInv, Trials, Places,
     Holding, InTrial, mainVars, trialVars, telemetryVars
<1>14. ASSUME NEW t \in Trials, ReportCancelled(t) PROVE SpawnInv'
  BY <1>14 DEF ReportCancelled, Count, Goto, IInv, TypeOK, SpawnInv, Trials,
     Places, Holding, InTrial, mainVars, trialVars, telemetryVars
<1>15. ASSUME NEW t \in Trials, Release(t) PROVE SpawnInv'
  BY <1>15 DEF Release, Goto, IInv, TypeOK, SpawnInv, Trials, Places, Holding,
     InTrial, mainVars, telemetryVars, displayVars
<1>16. ASSUME NEW t \in Trials, Exit(t) PROVE SpawnInv'
  BY <1>16 DEF Exit, Goto, IInv, TypeOK, SpawnInv, Trials, Places, Holding,
     InTrial, mainVars, trialVars, telemetryVars, displayVars
<1>17. CASE WaitReturns
  BY <1>17 DEF WaitReturns, IInv, TypeOK, SpawnInv, Trials, Places, Holding,
     InTrial, trialVars, telemetryVars, displayVars
<1>18. CASE FinalFlush
  BY <1>18 DEF FinalFlush, TakeBatch, IInv, TypeOK, SpawnInv, Trials, Places,
     Holding, InTrial, trialVars, displayVars
<1>19. CASE FinalFlushed
  BY <1>19 DEF FinalFlushed, Settle, IInv, TypeOK, SpawnInv, Trials, Places,
     Holding, InTrial, trialVars, displayVars
<1>20. CASE UNCHANGED vars
  BY <1>20 DEF SpawnInv, IInv, vars, mainVars, trialVars, telemetryVars,
     displayVars
<1> QED
  BY <1>1, <1>2, <1>3, <1>4, <1>5, <1>6, <1>7, <1>8, <1>9, <1>10, <1>11, <1>12,
     <1>13, <1>14, <1>15, <1>16, <1>17, <1>18, <1>19, <1>20 DEF Next, MainStep,
     TrialStep, Finished

\* A result is stored once, and it is the status of the trial.
LEMMA ResultStep == IInv /\ [Next]_vars => ResultInv'
<1> SUFFICES ASSUME IInv, [Next]_vars PROVE ResultInv'
  OBVIOUS
<1>1. CASE Spawn
  BY <1>1 DEF Spawn, Goto, IInv, TypeOK, ResultInv, Before, Terminal,
     ApplyOutcome, Outcomes, SpawnInv, Trials, Places, Holding, InTrial,
     trialVars, telemetryVars, displayVars
<1>2. CASE Interrupt
  BY <1>2 DEF Interrupt, IInv, TypeOK, ResultInv, Before, Places, Holding,
     InTrial, mainVars, trialVars, telemetryVars, displayVars
<1>3. ASSUME NEW t \in Trials, Park(t) PROVE ResultInv'
  BY <1>3 DEF Park, Goto, IInv, TypeOK, ResultInv, Before, Places, Holding,
     InTrial, mainVars, trialVars, telemetryVars, displayVars
<1>4. ASSUME NEW t \in Trials, Acquire(t) PROVE ResultInv'
  BY <1>4 DEF Acquire, Goto, IInv, TypeOK, ResultInv, Before, Places, Holding,
     InTrial, mainVars, trialVars, telemetryVars, displayVars
<1>5. ASSUME NEW t \in Trials, ObserveCancel(t) PROVE ResultInv'
  BY <1>5 DEF ObserveCancel, Goto, IInv, TypeOK, ResultInv, Before, Places,
     Holding, InTrial, mainVars, telemetryVars, displayVars
<1>6. ASSUME NEW t \in Trials, Begin(t) PROVE ResultInv'
  BY <1>6 DEF Begin, Goto, IInv, TypeOK, ResultInv, Before, Places, Holding,
     InTrial, mainVars, displayVars
<1>7. ASSUME NEW t \in Trials, StartAttempt(t) PROVE ResultInv'
  BY <1>7 DEF StartAttempt, Goto, IInv, TypeOK, ResultInv, Before, Places,
     Holding, InTrial, mainVars, telemetryVars
<1>8. ASSUME NEW t \in Trials, NEW o \in Outcomes, AdapterReturns(t, o) PROVE ResultInv'
  <2>1. PICK place \in {"attempt", "finish"} : pc[t] = "executing" /\ Goto(t, place)
    BY <1>8 DEF AdapterReturns, Returns, DecideAfter, LeaveLoop, NextAttempt
  <2>2. UNCHANGED <<cancelled, status, results>>
    BY <1>8 DEF AdapterReturns, Returns
  <2> QED
    BY <2>1, <2>2 DEF Goto, IInv, TypeOK, ResultInv, Before, Holding, InTrial
<1>9. ASSUME NEW t \in Trials, Finish(t) PROVE ResultInv'
  BY <1>9 DEF Finish, ApplyOutcome, Goto, IInv, TypeOK, ResultInv, Before,
     Terminal, ApplyOutcome, Outcomes, SpawnInv, Trials, Places, Holding,
     InTrial, mainVars, displayVars
<1>10. ASSUME NEW t \in Trials, Annotate(t) PROVE ResultInv'
  BY <1>10 DEF Annotate, Goto, IInv, TypeOK, ResultInv, Before, Places,
     Holding, InTrial, mainVars, trialVars, displayVars
<1>11. ASSUME NEW t \in Trials, TrialFlush(t) PROVE ResultInv'
  BY <1>11 DEF TrialFlush, TakeBatch, Goto, IInv, TypeOK, ResultInv, Before,
     Places, Holding, InTrial, mainVars, trialVars, displayVars
<1>12. ASSUME NEW t \in Trials, TrialFlushed(t) PROVE ResultInv'
  BY <1>12 DEF TrialFlushed, Settle, Goto, IInv, TypeOK, ResultInv, Before,
     Places, Holding, InTrial, mainVars, trialVars, displayVars
<1>13. ASSUME NEW t \in Trials, Report(t) PROVE ResultInv'
  BY <1>13 DEF Report, Count, Goto, IInv, TypeOK, ResultInv, Before, Places,
     Holding, InTrial, mainVars, trialVars, telemetryVars
<1>14. ASSUME NEW t \in Trials, ReportCancelled(t) PROVE ResultInv'
  BY <1>14 DEF ReportCancelled, Count, Goto, IInv, TypeOK, ResultInv, Before,
     Places, Holding, InTrial, mainVars, trialVars, telemetryVars
<1>15. ASSUME NEW t \in Trials, Release(t) PROVE ResultInv'
  BY <1>15 DEF Release, Goto, IInv, TypeOK, ResultInv, Before, Places, Holding,
     InTrial, mainVars, telemetryVars, displayVars
<1>16. ASSUME NEW t \in Trials, Exit(t) PROVE ResultInv'
  BY <1>16 DEF Exit, Goto, IInv, TypeOK, ResultInv, Before, Places, Holding,
     InTrial, mainVars, trialVars, telemetryVars, displayVars
<1>17. CASE WaitReturns
  BY <1>17 DEF WaitReturns, IInv, TypeOK, ResultInv, Before, Places, Holding,
     InTrial, trialVars, telemetryVars, displayVars
<1>18. CASE FinalFlush
  BY <1>18 DEF FinalFlush, TakeBatch, IInv, TypeOK, ResultInv, Before, Places,
     Holding, InTrial, trialVars, displayVars
<1>19. CASE FinalFlushed
  BY <1>19 DEF FinalFlushed, Settle, IInv, TypeOK, ResultInv, Before, Places,
     Holding, InTrial, trialVars, displayVars
<1>20. CASE UNCHANGED vars
  BY <1>20 DEF ResultInv, IInv, vars, mainVars, trialVars, telemetryVars,
     displayVars
<1> QED
  BY <1>1, <1>2, <1>3, <1>4, <1>5, <1>6, <1>7, <1>8, <1>9, <1>10, <1>11, <1>12,
     <1>13, <1>14, <1>15, <1>16, <1>17, <1>18, <1>19, <1>20 DEF Next, MainStep,
     TrialStep, Finished

\* Nothing is known of a trial that has not started, or that was cancelled.
LEMMA UntouchedStep == IInv /\ [Next]_vars => UntouchedInv'
<1> SUFFICES ASSUME IInv, [Next]_vars PROVE UntouchedInv'
  OBVIOUS
<1>1. CASE Spawn
  BY <1>1 DEF Spawn, Goto, IInv, TypeOK, UntouchedInv, Before, Untouched,
     Flushers, ResultInv, SpawnInv, TelemetryInv, Trials, Places, Holding,
     InTrial, trialVars, telemetryVars, displayVars
<1>2. CASE Interrupt
  BY <1>2 DEF Interrupt, IInv, TypeOK, UntouchedInv, Before, Untouched,
     Flushers, Places, Holding, InTrial, mainVars, trialVars, telemetryVars,
     displayVars
<1>3. ASSUME NEW t \in Trials, Park(t) PROVE UntouchedInv'
  BY <1>3 DEF Park, Goto, IInv, TypeOK, UntouchedInv, Before, Untouched,
     Flushers, Places, Holding, InTrial, mainVars, trialVars, telemetryVars,
     displayVars
<1>4. ASSUME NEW t \in Trials, Acquire(t) PROVE UntouchedInv'
  BY <1>4 DEF Acquire, Goto, IInv, TypeOK, UntouchedInv, Before, Untouched,
     Flushers, Places, Holding, InTrial, mainVars, trialVars, telemetryVars,
     displayVars
<1>5. ASSUME NEW t \in Trials, ObserveCancel(t) PROVE UntouchedInv'
  BY <1>5 DEF ObserveCancel, Goto, IInv, TypeOK, UntouchedInv, Before,
     Untouched, Flushers, ResultInv, SpawnInv, TelemetryInv, Trials, Places,
     Holding, InTrial, mainVars, telemetryVars, displayVars
<1>6. ASSUME NEW t \in Trials, Begin(t) PROVE UntouchedInv'
  BY <1>6 DEF Begin, Goto, IInv, TypeOK, UntouchedInv, Before, Untouched,
     Flushers, ResultInv, SpawnInv, TelemetryInv, Trials, Places, Holding,
     InTrial, mainVars, displayVars
<1>7. ASSUME NEW t \in Trials, StartAttempt(t) PROVE UntouchedInv'
  BY <1>7 DEF StartAttempt, Goto, IInv, TypeOK, UntouchedInv, Before,
     Untouched, Flushers, ResultInv, SpawnInv, TelemetryInv, Trials, Places,
     Holding, InTrial, mainVars, telemetryVars
<1>8. ASSUME NEW t \in Trials, NEW o \in Outcomes, AdapterReturns(t, o) PROVE UntouchedInv'
  BY <1>8 DEF AdapterReturns, Returns, DecideAfter, LeaveLoop, NextAttempt,
     Goto, IInv, TypeOK, UntouchedInv, Before, Untouched, Flushers, ResultInv,
     SpawnInv, TelemetryInv, Trials, Places, Holding, InTrial, mainVars,
     telemetryVars, displayVars
<1>9. ASSUME NEW t \in Trials, Finish(t) PROVE UntouchedInv'
  BY <1>9 DEF Finish, Goto, IInv, TypeOK, UntouchedInv, Before, Untouched,
     Flushers, Places, Holding, InTrial, mainVars, displayVars
<1>10. ASSUME NEW t \in Trials, Annotate(t) PROVE UntouchedInv'
  BY <1>10 DEF Annotate, Goto, IInv, TypeOK, UntouchedInv, Before, Untouched,
     Flushers, ResultInv, SpawnInv, TelemetryInv, Trials, Places, Holding,
     InTrial, mainVars, trialVars, displayVars
<1>11. ASSUME NEW t \in Trials, TrialFlush(t) PROVE UntouchedInv'
  BY <1>11 DEF TrialFlush, TakeBatch, Goto, IInv, TypeOK, UntouchedInv, Before,
     Untouched, Flushers, Places, Holding, InTrial, mainVars, trialVars,
     displayVars
<1>12. ASSUME NEW t \in Trials, TrialFlushed(t) PROVE UntouchedInv'
  BY <1>12 DEF TrialFlushed, Settle, Goto, IInv, TypeOK, UntouchedInv, Before,
     Untouched, Flushers, ResultInv, SpawnInv, TelemetryInv, Trials, Places,
     Holding, InTrial, mainVars, trialVars, displayVars
<1>13. ASSUME NEW t \in Trials, Report(t) PROVE UntouchedInv'
  BY <1>13 DEF Report, Count, Goto, IInv, TypeOK, UntouchedInv, Before,
     Untouched, Flushers, Places, Holding, InTrial, mainVars, trialVars,
     telemetryVars
<1>14. ASSUME NEW t \in Trials, ReportCancelled(t) PROVE UntouchedInv'
  BY <1>14 DEF ReportCancelled, Count, Goto, IInv, TypeOK, UntouchedInv,
     Before, Untouched, Flushers, Places, Holding, InTrial, mainVars,
     trialVars, telemetryVars
<1>15. ASSUME NEW t \in Trials, Release(t) PROVE UntouchedInv'
  <2>1. status[t] # "cancelled" /\ results' = [results EXCEPT ![t] = status[t]]
    BY <1>15 DEF Release, IInv, ResultInv
  <2>2. pc' = [pc EXCEPT ![t] = "exit"]
    BY <1>15 DEF Release, Goto
  <2>3. UNCHANGED <<cancelled, attempt, outcome, lateCalls, telemetryVars>>
    BY <1>15 DEF Release
  <2>4. \A u \in Trials : Untouched(u)' = Untouched(u)
    BY <2>3 DEF Untouched, telemetryVars
  <2> QED
    BY <2>1, <2>2, <2>3, <2>4 DEF IInv, TypeOK, UntouchedInv, Before
<1>16. ASSUME NEW t \in Trials, Exit(t) PROVE UntouchedInv'
  BY <1>16 DEF Exit, Goto, IInv, TypeOK, UntouchedInv, Before, Untouched,
     Flushers, Places, Holding, InTrial, mainVars, trialVars, telemetryVars,
     displayVars
<1>17. CASE WaitReturns
  BY <1>17 DEF WaitReturns, IInv, TypeOK, UntouchedInv, Before, Untouched,
     Flushers, Places, Holding, InTrial, trialVars, telemetryVars, displayVars
<1>18. CASE FinalFlush
  BY <1>18 DEF FinalFlush, TakeBatch, IInv, TypeOK, UntouchedInv, Before,
     Untouched, Flushers, Places, Holding, InTrial, trialVars, displayVars
<1>19. CASE FinalFlushed
  BY <1>19 DEF FinalFlushed, Settle, IInv, TypeOK, UntouchedInv, Before,
     Untouched, Flushers, Places, Holding, InTrial, trialVars, displayVars
<1>20. CASE UNCHANGED vars
  BY <1>20 DEF UntouchedInv, IInv, Untouched, vars, mainVars, trialVars,
     telemetryVars, displayVars
<1> QED
  BY <1>1, <1>2, <1>3, <1>4, <1>5, <1>6, <1>7, <1>8, <1>9, <1>10, <1>11, <1>12,
     <1>13, <1>14, <1>15, <1>16, <1>17, <1>18, <1>19, <1>20 DEF Next, MainStep,
     TrialStep, Finished

\* At most one call begins after the interrupt, and it does not succeed.
LEMMA LateStep == IInv /\ [Next]_vars => LateInv'
<1> SUFFICES ASSUME IInv, [Next]_vars PROVE LateInv'
  OBVIOUS
<1>1. CASE Spawn
  BY <1>1 DEF Spawn, Goto, IInv, TypeOK, LateInv, ResultInv, SpawnInv,
     UntouchedInv, Outcomes, ApplyOutcome, Before, Untouched, Trials, Places,
     Holding, InTrial, trialVars, telemetryVars, displayVars
<1>2. CASE Interrupt
  BY <1>2 DEF Interrupt, IInv, TypeOK, LateInv, Before, Places, Holding,
     InTrial, mainVars, trialVars, telemetryVars, displayVars
<1>3. ASSUME NEW t \in Trials, Park(t) PROVE LateInv'
  BY <1>3 DEF Park, Goto, IInv, TypeOK, LateInv, Before, Places, Holding,
     InTrial, mainVars, trialVars, telemetryVars, displayVars
<1>4. ASSUME NEW t \in Trials, Acquire(t) PROVE LateInv'
  BY <1>4 DEF Acquire, Goto, IInv, TypeOK, LateInv, ResultInv, SpawnInv,
     UntouchedInv, Outcomes, ApplyOutcome, Before, Untouched, Trials, Places,
     Holding, InTrial, mainVars, trialVars, telemetryVars, displayVars
<1>5. ASSUME NEW t \in Trials, ObserveCancel(t) PROVE LateInv'
  BY <1>5 DEF ObserveCancel, Goto, IInv, TypeOK, LateInv, Before, Places,
     Holding, InTrial, mainVars, telemetryVars, displayVars
<1>6. ASSUME NEW t \in Trials, Begin(t) PROVE LateInv'
  BY <1>6 DEF Begin, Goto, IInv, TypeOK, LateInv, ResultInv, SpawnInv,
     UntouchedInv, Outcomes, ApplyOutcome, Before, Untouched, Trials, Places,
     Holding, InTrial, mainVars, displayVars
<1>7. ASSUME NEW t \in Trials, StartAttempt(t) PROVE LateInv'
  BY <1>7 DEF StartAttempt, Goto, IInv, TypeOK, LateInv, Before, Places,
     Holding, InTrial, mainVars, telemetryVars
<1>8. ASSUME NEW t \in Trials, NEW o \in Outcomes, AdapterReturns(t, o) PROVE LateInv'
  BY <1>8 DEF AdapterReturns, Returns, DecideAfter, LeaveLoop, NextAttempt,
     Goto, IInv, TypeOK, LateInv, Before, Places, Holding, InTrial, mainVars,
     telemetryVars, displayVars
<1>9. ASSUME NEW t \in Trials, Finish(t) PROVE LateInv'
  BY <1>9 DEF Finish, ApplyOutcome, Goto, IInv, TypeOK, LateInv, ResultInv,
     SpawnInv, UntouchedInv, Outcomes, ApplyOutcome, Before, Untouched, Trials,
     Places, Holding, InTrial, mainVars, displayVars
<1>10. ASSUME NEW t \in Trials, Annotate(t) PROVE LateInv'
  BY <1>10 DEF Annotate, Goto, IInv, TypeOK, LateInv, Before, Places, Holding,
     InTrial, mainVars, trialVars, displayVars
<1>11. ASSUME NEW t \in Trials, TrialFlush(t) PROVE LateInv'
  BY <1>11 DEF TrialFlush, TakeBatch, Goto, IInv, TypeOK, LateInv, Before,
     Places, Holding, InTrial, mainVars, trialVars, displayVars
<1>12. ASSUME NEW t \in Trials, TrialFlushed(t) PROVE LateInv'
  BY <1>12 DEF TrialFlushed, Settle, Goto, IInv, TypeOK, LateInv, Before,
     Places, Holding, InTrial, mainVars, trialVars, displayVars
<1>13. ASSUME NEW t \in Trials, Report(t) PROVE LateInv'
  BY <1>13 DEF Report, Count, Goto, IInv, TypeOK, LateInv, Before, Places,
     Holding, InTrial, mainVars, trialVars, telemetryVars
<1>14. ASSUME NEW t \in Trials, ReportCancelled(t) PROVE LateInv'
  BY <1>14 DEF ReportCancelled, Count, Goto, IInv, TypeOK, LateInv, Before,
     Places, Holding, InTrial, mainVars, trialVars, telemetryVars
<1>15. ASSUME NEW t \in Trials, Release(t) PROVE LateInv'
  BY <1>15 DEF Release, Goto, IInv, TypeOK, LateInv, Before, Places, Holding,
     InTrial, mainVars, telemetryVars, displayVars
<1>16. ASSUME NEW t \in Trials, Exit(t) PROVE LateInv'
  BY <1>16 DEF Exit, Goto, IInv, TypeOK, LateInv, Before, Places, Holding,
     InTrial, mainVars, trialVars, telemetryVars, displayVars
<1>17. CASE WaitReturns
  BY <1>17 DEF WaitReturns, IInv, TypeOK, LateInv, Before, Places, Holding,
     InTrial, trialVars, telemetryVars, displayVars
<1>18. CASE FinalFlush
  BY <1>18 DEF FinalFlush, TakeBatch, IInv, TypeOK, LateInv, Before, Places,
     Holding, InTrial, trialVars, displayVars
<1>19. CASE FinalFlushed
  BY <1>19 DEF FinalFlushed, Settle, IInv, TypeOK, LateInv, Before, Places,
     Holding, InTrial, trialVars, displayVars
<1>20. CASE UNCHANGED vars
  BY <1>20 DEF LateInv, IInv, vars, mainVars, trialVars, telemetryVars,
     displayVars
<1> QED
  BY <1>1, <1>2, <1>3, <1>4, <1>5, <1>6, <1>7, <1>8, <1>9, <1>10, <1>11, <1>12,
     <1>13, <1>14, <1>15, <1>16, <1>17, <1>18, <1>19, <1>20 DEF Next, MainStep,
     TrialStep, Finished

\* The recorded retries keep step with the loop.
LEMMA RetryStep == IInv /\ [Next]_vars => RetryInv'
<1> SUFFICES ASSUME IInv, [Next]_vars PROVE RetryInv'
  OBVIOUS
<1>1. CASE Spawn
  BY <1>1 DEF Spawn, Goto, IInv, TypeOK, RetryInv, Before, Untouched,
     UntouchedInv, SpawnInv, Outcomes, Trials, Places, Holding, InTrial,
     trialVars, telemetryVars, displayVars
<1>2. CASE Interrupt
  BY <1>2 DEF Interrupt, IInv, TypeOK, RetryInv, Before, Places, Holding,
     InTrial, mainVars, trialVars, telemetryVars, displayVars
<1>3. ASSUME NEW t \in Trials, Park(t) PROVE RetryInv'
  BY <1>3 DEF Park, Goto, IInv, TypeOK, RetryInv, Before, Places, Holding,
     InTrial, mainVars, trialVars, telemetryVars, displayVars
<1>4. ASSUME NEW t \in Trials, Acquire(t) PROVE RetryInv'
  BY <1>4 DEF Acquire, Goto, IInv, TypeOK, RetryInv, Before, Places, Holding,
     InTrial, mainVars, trialVars, telemetryVars, displayVars
<1>5. ASSUME NEW t \in Trials, ObserveCancel(t) PROVE RetryInv'
  BY <1>5 DEF ObserveCancel, Goto, IInv, TypeOK, RetryInv, Before, Places,
     Holding, InTrial, mainVars, telemetryVars, displayVars
<1>6. ASSUME NEW t \in Trials, Begin(t) PROVE RetryInv'
  BY <1>6 DEF Begin, Goto, IInv, TypeOK, RetryInv, Before, Untouched,
     UntouchedInv, SpawnInv, Outcomes, Trials, Places, Holding, InTrial,
     mainVars, displayVars
<1>7. ASSUME NEW t \in Trials, StartAttempt(t) PROVE RetryInv'
  BY <1>7 DEF StartAttempt, Goto, IInv, TypeOK, RetryInv, Before, Places,
     Holding, InTrial, mainVars, telemetryVars
<1>8. ASSUME NEW t \in Trials, NEW o \in Outcomes, AdapterReturns(t, o) PROVE RetryInv'
  <2>1. /\ pc[t] = "executing" /\ retryCount[t] = attempt[t]
        /\ outcome' = [outcome EXCEPT ![t] = o] /\ retryCount' = retryCount
    BY <1>8 DEF AdapterReturns, Returns, IInv, RetryInv
  <2>2. CASE LeaveLoop(t)
    BY <2>1, <2>2 DEF LeaveLoop, Goto, IInv, TypeOK, RetryInv, Before
  <2>3. CASE NextAttempt(t) /\ o # "ok"
    BY <2>1, <2>3 DEF NextAttempt, Goto, IInv, TypeOK, RetryInv, Before
  <2> QED
    BY <1>8, <2>2, <2>3 DEF AdapterReturns, DecideAfter
<1>9. ASSUME NEW t \in Trials, Finish(t) PROVE RetryInv'
  BY <1>9 DEF Finish, Goto, IInv, TypeOK, RetryInv, Before, Places, Holding,
     InTrial, mainVars, displayVars
<1>10. ASSUME NEW t \in Trials, Annotate(t) PROVE RetryInv'
  BY <1>10 DEF Annotate, Goto, IInv, TypeOK, RetryInv, Before, Places, Holding,
     InTrial, mainVars, trialVars, displayVars
<1>11. ASSUME NEW t \in Trials, TrialFlush(t) PROVE RetryInv'
  BY <1>11 DEF TrialFlush, TakeBatch, Goto, IInv, TypeOK, RetryInv, Before,
     Places, Holding, InTrial, mainVars, trialVars, displayVars
<1>12. ASSUME NEW t \in Trials, TrialFlushed(t) PROVE RetryInv'
  BY <1>12 DEF TrialFlushed, Settle, Goto, IInv, TypeOK, RetryInv, Before,
     Places, Holding, InTrial, mainVars, trialVars, displayVars
<1>13. ASSUME NEW t \in Trials, Report(t) PROVE RetryInv'
  BY <1>13 DEF Report, Count, Goto, IInv, TypeOK, RetryInv, Before, Places,
     Holding, InTrial, mainVars, trialVars, telemetryVars
<1>14. ASSUME NEW t \in Trials, ReportCancelled(t) PROVE RetryInv'
  BY <1>14 DEF ReportCancelled, Count, Goto, IInv, TypeOK, RetryInv, Before,
     Places, Holding, InTrial, mainVars, trialVars, telemetryVars
<1>15. ASSUME NEW t \in Trials, Release(t) PROVE RetryInv'
  BY <1>15 DEF Release, Goto, IInv, TypeOK, RetryInv, Before, Places, Holding,
     InTrial, mainVars, telemetryVars, displayVars
<1>16. ASSUME NEW t \in Trials, Exit(t) PROVE RetryInv'
  BY <1>16 DEF Exit, Goto, IInv, TypeOK, RetryInv, Before, Places, Holding,
     InTrial, mainVars, trialVars, telemetryVars, displayVars
<1>17. CASE WaitReturns
  BY <1>17 DEF WaitReturns, IInv, TypeOK, RetryInv, Before, Places, Holding,
     InTrial, trialVars, telemetryVars, displayVars
<1>18. CASE FinalFlush
  BY <1>18 DEF FinalFlush, TakeBatch, IInv, TypeOK, RetryInv, Before, Places,
     Holding, InTrial, trialVars, displayVars
<1>19. CASE FinalFlushed
  BY <1>19 DEF FinalFlushed, Settle, IInv, TypeOK, RetryInv, Before, Places,
     Holding, InTrial, trialVars, displayVars
<1>20. CASE UNCHANGED vars
  BY <1>20 DEF IInv, RetryInv, vars, trialVars, mainVars
<1> QED
  BY <1>1, <1>2, <1>3, <1>4, <1>5, <1>6, <1>7, <1>8, <1>9, <1>10, <1>11, <1>12,
     <1>13, <1>14, <1>15, <1>16, <1>17, <1>18, <1>19, <1>20 DEF Next, MainStep,
     TrialStep, Finished

\* A stored context belongs to a trial under way, a copied batch to one that
\* is sending it.
LEMMA TelemetryStep == IInv /\ [Next]_vars => TelemetryInv'
<1> SUFFICES ASSUME IInv, [Next]_vars PROVE TelemetryInv'
  OBVIOUS
<1>1. CASE Spawn
  <2>1. spawned + 1 \in Trials /\ pc[spawned + 1] = "unspawned"
    BY <1>1 DEF Spawn, IInv, TypeOK, SpawnInv, Trials
  <2> QED
    BY <1>1, <2>1 DEF Spawn, Goto, IInv, TypeOK, TelemetryInv, Flushers,
       telemetryVars
<1>2. CASE Interrupt
  BY <1>2 DEF Interrupt, IInv, TypeOK, TelemetryInv, Flushers, Places, Holding,
     InTrial, mainVars, trialVars, telemetryVars, displayVars
<1>3. ASSUME NEW t \in Trials, Park(t) PROVE TelemetryInv'
  BY <1>3 DEF Park, Goto, IInv, TypeOK, TelemetryInv, Flushers, Places,
     Holding, InTrial, mainVars, trialVars, telemetryVars, displayVars
<1>4. ASSUME NEW t \in Trials, Acquire(t) PROVE TelemetryInv'
  BY <1>4 DEF Acquire, Goto, IInv, TypeOK, TelemetryInv, Flushers, Places,
     Holding, InTrial, mainVars, trialVars, telemetryVars, displayVars
<1>5. ASSUME NEW t \in Trials, ObserveCancel(t) PROVE TelemetryInv'
  BY <1>5 DEF ObserveCancel, Goto, IInv, TypeOK, TelemetryInv, Flushers,
     Places, Holding, InTrial, mainVars, telemetryVars, displayVars
<1>6. ASSUME NEW t \in Trials, Begin(t) PROVE TelemetryInv'
  BY <1>6 DEF Begin, Goto, IInv, TypeOK, TelemetryInv, Flushers, Places,
     Holding, InTrial, mainVars, displayVars
<1>7. ASSUME NEW t \in Trials, StartAttempt(t) PROVE TelemetryInv'
  BY <1>7 DEF StartAttempt, Goto, IInv, TypeOK, TelemetryInv, Flushers, Places,
     Holding, InTrial, mainVars, telemetryVars
<1>8. ASSUME NEW t \in Trials, NEW o \in Outcomes, AdapterReturns(t, o) PROVE TelemetryInv'
  BY <1>8 DEF AdapterReturns, Returns, DecideAfter, LeaveLoop, NextAttempt,
     Goto, IInv, TypeOK, TelemetryInv, Flushers, Places, Holding, InTrial,
     mainVars, telemetryVars, displayVars
<1>9. ASSUME NEW t \in Trials, Finish(t) PROVE TelemetryInv'
  BY <1>9 DEF Finish, Goto, IInv, TypeOK, TelemetryInv, Flushers, Places,
     Holding, InTrial, mainVars, displayVars
<1>10. ASSUME NEW t \in Trials, Annotate(t) PROVE TelemetryInv'
  BY <1>10 DEF Annotate, Goto, IInv, TypeOK, TelemetryInv, Flushers, Places,
     Holding, InTrial, mainVars, trialVars, displayVars
<1>11. ASSUME NEW t \in Trials, TrialFlush(t) PROVE TelemetryInv'
  <2>1. contexts' = contexts /\ taken' = [taken EXCEPT ![t] = batch]
    BY <1>11 DEF TrialFlush, TakeBatch
  <2>2. pc' = [pc EXCEPT ![t] = IF batch = {} THEN "report" ELSE "flushing"] /\ pc[t] = "flush"
    BY <1>11 DEF TrialFlush, Goto
  <2>3. t \in Flushers /\ \A u \in Trials : u \in Flushers
    BY DEF Trials, Flushers
  <2> QED
    BY <2>1, <2>2, <2>3 DEF IInv, TypeOK, TelemetryInv
<1>12. ASSUME NEW t \in Trials, TrialFlushed(t) PROVE TelemetryInv'
  BY <1>12 DEF TrialFlushed, Settle, Goto, IInv, TypeOK, TelemetryInv,
     Flushers, SpawnInv, Trials, Places, Holding, InTrial, mainVars, trialVars,
     displayVars
<1>13. ASSUME NEW t \in Trials, Report(t) PROVE TelemetryInv'
  BY <1>13 DEF Report, Count, Goto, IInv, TypeOK, TelemetryInv, Flushers,
     Places, Holding, InTrial, mainVars, trialVars, telemetryVars
<1>14. ASSUME NEW t \in Trials, ReportCancelled(t) PROVE TelemetryInv'
  BY <1>14 DEF ReportCancelled, Count, Goto, IInv, TypeOK, TelemetryInv,
     Flushers, Places, Holding, InTrial, mainVars, trialVars, telemetryVars
<1>15. ASSUME NEW t \in Trials, Release(t) PROVE TelemetryInv'
  BY <1>15 DEF Release, Goto, IInv, TypeOK, TelemetryInv, Flushers, Places,
     Holding, InTrial, mainVars, telemetryVars, displayVars
<1>16. ASSUME NEW t \in Trials, Exit(t) PROVE TelemetryInv'
  BY <1>16 DEF Exit, Goto, IInv, TypeOK, TelemetryInv, Flushers, Places,
     Holding, InTrial, mainVars, trialVars, telemetryVars, displayVars
<1>17. CASE WaitReturns
  BY <1>17 DEF WaitReturns, IInv, TypeOK, TelemetryInv, Flushers, Places,
     Holding, InTrial, trialVars, telemetryVars, displayVars
<1>18. CASE FinalFlush
  BY <1>18 DEF FinalFlush, TakeBatch, IInv, TypeOK, TelemetryInv, Flushers,
     SpawnInv, Trials, Places, Holding, InTrial, trialVars, displayVars
<1>19. CASE FinalFlushed
  BY <1>19 DEF FinalFlushed, Settle, IInv, TypeOK, TelemetryInv, Flushers,
     Places, Holding, InTrial, trialVars, displayVars
<1>20. CASE UNCHANGED vars
  BY <1>20 DEF TelemetryInv, IInv, vars, mainVars, trialVars, telemetryVars,
     displayVars
<1> QED
  BY <1>1, <1>2, <1>3, <1>4, <1>5, <1>6, <1>7, <1>8, <1>9, <1>10, <1>11, <1>12,
     <1>13, <1>14, <1>15, <1>16, <1>17, <1>18, <1>19, <1>20 DEF Next, MainStep,
     TrialStep, Finished

\* main goes on when every goroutine has ended.
LEMMA FinishStep == IInv /\ [Next]_vars => MainInv'
<1> SUFFICES ASSUME IInv, [Next]_vars PROVE MainInv'
  OBVIOUS
<1>1. CASE Spawn
  BY <1>1 DEF Spawn, Goto, IInv, TypeOK, MainInv, Places, Holding, InTrial,
     trialVars, telemetryVars, displayVars
<1>2. CASE Interrupt
  BY <1>2 DEF Interrupt, IInv, TypeOK, MainInv, Places, Holding, InTrial,
     mainVars, trialVars, telemetryVars, displayVars
<1>3. ASSUME NEW t \in Trials, Park(t) PROVE MainInv'
  BY <1>3 DEF Park, Goto, IInv, TypeOK, MainInv, Places, Holding, InTrial,
     mainVars, trialVars, telemetryVars, displayVars
<1>4. ASSUME NEW t \in Trials, Acquire(t) PROVE MainInv'
  BY <1>4 DEF Acquire, Goto, IInv, TypeOK, MainInv, Places, Holding, InTrial,
     mainVars, trialVars, telemetryVars, displayVars
<1>5. ASSUME NEW t \in Trials, ObserveCancel(t) PROVE MainInv'
  BY <1>5 DEF ObserveCancel, Goto, IInv, TypeOK, MainInv, Places, Holding,
     InTrial, mainVars, telemetryVars, displayVars
<1>6. ASSUME NEW t \in Trials, Begin(t) PROVE MainInv'
  BY <1>6 DEF Begin, Goto, IInv, TypeOK, MainInv, Places, Holding, InTrial,
     mainVars, displayVars
<1>7. ASSUME NEW t \in Trials, StartAttempt(t) PROVE MainInv'
  BY <1>7 DEF StartAttempt, Goto, IInv, TypeOK, MainInv, Places, Holding,
     InTrial, mainVars, telemetryVars
<1>8. ASSUME NEW t \in Trials, NEW o \in Outcomes, AdapterReturns(t, o) PROVE MainInv'
  BY <1>8 DEF AdapterReturns, Returns, DecideAfter, LeaveLoop, NextAttempt,
     Goto, IInv, TypeOK, MainInv, Places, Holding, InTrial, mainVars,
     telemetryVars, displayVars
<1>9. ASSUME NEW t \in Trials, Finish(t) PROVE MainInv'
  BY <1>9 DEF Finish, Goto, IInv, TypeOK, MainInv, Places, Holding, InTrial,
     mainVars, displayVars
<1>10. ASSUME NEW t \in Trials, Annotate(t) PROVE MainInv'
  BY <1>10 DEF Annotate, Goto, IInv, TypeOK, MainInv, Places, Holding, InTrial,
     mainVars, trialVars, displayVars
<1>11. ASSUME NEW t \in Trials, TrialFlush(t) PROVE MainInv'
  BY <1>11 DEF TrialFlush, TakeBatch, Goto, IInv, TypeOK, MainInv, Places,
     Holding, InTrial, mainVars, trialVars, displayVars
<1>12. ASSUME NEW t \in Trials, TrialFlushed(t) PROVE MainInv'
  BY <1>12 DEF TrialFlushed, Settle, Goto, IInv, TypeOK, MainInv, Places,
     Holding, InTrial, mainVars, trialVars, displayVars
<1>13. ASSUME NEW t \in Trials, Report(t) PROVE MainInv'
  BY <1>13 DEF Report, Count, Goto, IInv, TypeOK, MainInv, Places, Holding,
     InTrial, mainVars, trialVars, telemetryVars
<1>14. ASSUME NEW t \in Trials, ReportCancelled(t) PROVE MainInv'
  BY <1>14 DEF ReportCancelled, Count, Goto, IInv, TypeOK, MainInv, Places,
     Holding, InTrial, mainVars, trialVars, telemetryVars
<1>15. ASSUME NEW t \in Trials, Release(t) PROVE MainInv'
  BY <1>15 DEF Release, Goto, IInv, TypeOK, MainInv, Places, Holding, InTrial,
     mainVars, telemetryVars, displayVars
<1>16. ASSUME NEW t \in Trials, Exit(t) PROVE MainInv'
  BY <1>16 DEF Exit, Goto, IInv, TypeOK, MainInv, Places, Holding, InTrial,
     mainVars, trialVars, telemetryVars, displayVars
<1>17. CASE WaitReturns
  <2>1. Active = {}
    BY <1>17, TrialSets, FS_EmptySet DEF WaitReturns, IInv, WaitInv, Active
  <2>2. \A t \in Trials : pc[t] # "unspawned"
    BY <1>17 DEF WaitReturns, IInv, TypeOK, SpawnInv, Trials
  <2>3. \A t \in Trials : pc[t] = "done"
    BY <2>1, <2>2 DEF Active
  <2> QED
    BY <1>17, <2>3 DEF WaitReturns, MainInv
<1>18. CASE FinalFlush
  BY <1>18 DEF FinalFlush, TakeBatch, IInv, TypeOK, MainInv, Places, Holding,
     InTrial, trialVars, displayVars
<1>19. CASE FinalFlushed
  BY <1>19 DEF FinalFlushed, Settle, IInv, TypeOK, MainInv, Places, Holding,
     InTrial, trialVars, displayVars
<1>20. CASE UNCHANGED vars
  BY <1>20 DEF MainInv, IInv, vars, mainVars, trialVars, telemetryVars,
     displayVars
<1> QED
  BY <1>1, <1>2, <1>3, <1>4, <1>5, <1>6, <1>7, <1>8, <1>9, <1>10, <1>11, <1>12,
     <1>13, <1>14, <1>15, <1>16, <1>17, <1>18, <1>19, <1>20 DEF Next, MainStep,
     TrialStep, Finished

\* The display counts each trial that has reported, under its status.
LEMMA ShownStep == IInv /\ [Next]_vars => ShownInv'
<1> SUFFICES ASSUME IInv, [Next]_vars PROVE ShownInv'
  OBVIOUS
<1>1. CASE Spawn
  <2>1. spawned + 1 \in Trials /\ pc[spawned + 1] = "unspawned"
    BY <1>1 DEF Spawn, IInv, TypeOK, SpawnInv, Trials
  <2>2. \A s \in Terminal : ShownAs(s)' = ShownAs(s)
    BY <1>1, <2>1 DEF Spawn, Goto, IInv, TypeOK, ShownAs, Reported, Places,
       trialVars
  <2> QED
    BY <1>1, <2>2 DEF Spawn, IInv, ShownInv, displayVars
<1>2. CASE Interrupt
  <2>1. \A s \in Terminal : ShownAs(s)' = ShownAs(s)
    BY <1>2 DEF Interrupt, Goto, IInv, TypeOK, ShownAs, Reported, Places,
       trialVars
  <2> QED
    BY <1>2, <2>1 DEF Interrupt, IInv, ShownInv, displayVars
<1>3. ASSUME NEW t \in Trials, Park(t) PROVE ShownInv'
  <2>1. Goto(t, "parked")
    BY <1>3 DEF Park
  <2>2. \A s \in Terminal : ShownAs(s)' = ShownAs(s)
    BY <1>3, <2>1, ShownSame DEF Park, IInv, TypeOK, Reported, Places, Holding,
       InTrial, trialVars
  <2> QED
    BY <1>3, <2>2 DEF Park, IInv, ShownInv, displayVars
<1>4. ASSUME NEW t \in Trials, Acquire(t) PROVE ShownInv'
  <2>1. Goto(t, "begin")
    BY <1>4 DEF Acquire
  <2>2. \A s \in Terminal : ShownAs(s)' = ShownAs(s)
    BY <1>4, <2>1, ShownSame DEF Acquire, IInv, TypeOK, Reported, Places,
       Holding, InTrial, trialVars
  <2> QED
    BY <1>4, <2>2 DEF Acquire, IInv, ShownInv, displayVars
<1>5. ASSUME NEW t \in Trials, ObserveCancel(t) PROVE ShownInv'
  <2>1. Goto(t, "reportCancelled")
    BY <1>5 DEF ObserveCancel
  <2>2. \A s \in Terminal : ShownAs(s)' = ShownAs(s)
    BY <1>5, <2>1, ShownSame DEF ObserveCancel, IInv, TypeOK, Reported, Places,
       Holding, InTrial
  <2> QED
    BY <1>5, <2>2 DEF ObserveCancel, IInv, ShownInv, displayVars
<1>6. ASSUME NEW t \in Trials, Begin(t) PROVE ShownInv'
  <2>1. Goto(t, IF Retries < 0 THEN "finish" ELSE "attempt")
    BY <1>6 DEF Begin
  <2>2. \A s \in Terminal : ShownAs(s)' = ShownAs(s)
    BY <1>6, <2>1, ShownSame DEF Begin, IInv, TypeOK, Reported, Places,
       Holding, InTrial
  <2> QED
    BY <1>6, <2>2 DEF Begin, IInv, ShownInv, displayVars
<1>7. ASSUME NEW t \in Trials, StartAttempt(t) PROVE ShownInv'
  <2>1. Goto(t, "executing")
    BY <1>7 DEF StartAttempt
  <2>2. \A s \in Terminal : ShownAs(s)' = ShownAs(s)
    BY <1>7, <2>1, ShownSame DEF StartAttempt, IInv, TypeOK, Reported, Places,
       Holding, InTrial
  <2> QED
    BY <1>7, <2>2 DEF StartAttempt, IInv, ShownInv
<1>8. ASSUME NEW t \in Trials, NEW o \in Outcomes, AdapterReturns(t, o) PROVE ShownInv'
  <2>1. PICK place \in {"attempt", "finish"} : pc[t] = "executing" /\ Goto(t, place)
    BY <1>8 DEF AdapterReturns, Returns, DecideAfter, LeaveLoop, NextAttempt
  <2>2. \A s \in Terminal : ShownAs(s)' = ShownAs(s)
    BY <1>8, <2>1, ShownSame DEF AdapterReturns, Returns, DecideAfter,
       LeaveLoop, NextAttempt, IInv, TypeOK, Reported, Places, Holding, InTrial
  <2> QED
    BY <1>8, <2>2 DEF AdapterReturns, Returns, DecideAfter, LeaveLoop,
       NextAttempt, IInv, ShownInv, displayVars
<1>9. ASSUME NEW t \in Trials, Finish(t) PROVE ShownInv'
  <2>1. Goto(t, "annotate")
    BY <1>9 DEF Finish, ApplyOutcome
  <2>2. \A s \in Terminal : ShownAs(s)' = ShownAs(s)
    BY <1>9, <2>1, ShownSame DEF Finish, ApplyOutcome, IInv, TypeOK, Reported,
       Places, Holding, InTrial
  <2> QED
    BY <1>9, <2>2 DEF Finish, ApplyOutcome, IInv, ShownInv, displayVars
<1>10. ASSUME NEW t \in Trials, Annotate(t) PROVE ShownInv'
  <2>1. Goto(t, IF FlushOnTrialEnd THEN "flush" ELSE "report")
    BY <1>10 DEF Annotate
  <2>2. \A s \in Terminal : ShownAs(s)' = ShownAs(s)
    BY <1>10, <2>1, ShownSame DEF Annotate, IInv, TypeOK, Reported, Places,
       Holding, InTrial, trialVars
  <2> QED
    BY <1>10, <2>2 DEF Annotate, IInv, ShownInv, displayVars
<1>11. ASSUME NEW t \in Trials, TrialFlush(t) PROVE ShownInv'
  <2>1. Goto(t, IF batch = {} THEN "report" ELSE "flushing")
    BY <1>11 DEF TrialFlush, TakeBatch
  <2>2. \A s \in Terminal : ShownAs(s)' = ShownAs(s)
    BY <1>11, <2>1, ShownSame DEF TrialFlush, TakeBatch, IInv, TypeOK,
       Reported, Places, Holding, InTrial, trialVars
  <2> QED
    BY <1>11, <2>2 DEF TrialFlush, TakeBatch, IInv, ShownInv, displayVars
<1>12. ASSUME NEW t \in Trials, TrialFlushed(t) PROVE ShownInv'
  <2>1. Goto(t, "report")
    BY <1>12 DEF TrialFlushed, Settle
  <2>2. \A s \in Terminal : ShownAs(s)' = ShownAs(s)
    BY <1>12, <2>1, ShownSame DEF TrialFlushed, Settle, IInv, TypeOK, Reported,
       Places, Holding, InTrial, trialVars
  <2> QED
    BY <1>12, <2>2 DEF TrialFlushed, Settle, IInv, ShownInv, displayVars
<1>13. ASSUME NEW t \in Trials, Report(t) PROVE ShownInv'
  <2>1. Goto(t, "release") /\ pc[t] \notin Reported /\ status' = status
    BY <1>13 DEF Report, Reported, trialVars
  <2>2. status[t] \in Terminal /\ shown' = [shown EXCEPT ![status[t]] = @ + 1]
    BY <1>13 DEF Report, Count, IInv, ResultInv, Terminal
  <2>3. \A s \in Terminal : t \notin ShownAs(s) /\
            ShownAs(s)' = IF s = status[t] THEN ShownAs(s) \cup {t} ELSE ShownAs(s)
    BY <2>1, <2>2, ShownMore DEF IInv, Reported
  <2>4. \A s \in Terminal : Cardinality(ShownAs(s) \cup {t}) = Cardinality(ShownAs(s)) + 1
    BY <2>3, TrialSets, FS_AddElement DEF ShownAs
  <2> QED
    BY <2>2, <2>3, <2>4 DEF IInv, TypeOK, ShownInv
<1>14. ASSUME NEW t \in Trials, ReportCancelled(t) PROVE ShownInv'
  <2>1. Goto(t, "exit") /\ pc[t] \notin Reported /\ status' = status
    BY <1>14 DEF ReportCancelled, Reported, trialVars
  <2>2. status[t] = "cancelled" /\ shown' = [shown EXCEPT !["cancelled"] = @ + 1]
    BY <1>14 DEF ReportCancelled, Count, IInv, ResultInv
  <2>3. \A s \in Terminal : t \notin ShownAs(s) /\
            ShownAs(s)' = IF s = "cancelled" THEN ShownAs(s) \cup {t} ELSE ShownAs(s)
    BY <2>1, <2>2, ShownMore DEF IInv, Reported, Terminal
  <2>4. \A s \in Terminal : Cardinality(ShownAs(s) \cup {t}) = Cardinality(ShownAs(s)) + 1
    BY <2>3, TrialSets, FS_AddElement DEF ShownAs
  <2> QED
    BY <2>2, <2>3, <2>4 DEF IInv, TypeOK, ShownInv
<1>15. ASSUME NEW t \in Trials, Release(t) PROVE ShownInv'
  <2>1. Goto(t, "exit")
    BY <1>15 DEF Release
  <2>2. \A s \in Terminal : ShownAs(s)' = ShownAs(s)
    BY <1>15, <2>1, ShownSame DEF Release, IInv, TypeOK, Reported, Places,
       Holding, InTrial
  <2> QED
    BY <1>15, <2>2 DEF Release, IInv, ShownInv, displayVars
<1>16. ASSUME NEW t \in Trials, Exit(t) PROVE ShownInv'
  <2>1. Goto(t, "done")
    BY <1>16 DEF Exit
  <2>2. \A s \in Terminal : ShownAs(s)' = ShownAs(s)
    BY <1>16, <2>1, ShownSame DEF Exit, IInv, TypeOK, Reported, Places,
       Holding, InTrial, trialVars
  <2> QED
    BY <1>16, <2>2 DEF Exit, IInv, ShownInv, displayVars
<1>17. CASE WaitReturns
  BY <1>17 DEF WaitReturns, IInv, ShownInv, ShownAs, trialVars, displayVars
<1>18. CASE FinalFlush
  BY <1>18 DEF FinalFlush, TakeBatch, IInv, ShownInv, ShownAs, trialVars,
     displayVars
<1>19. CASE FinalFlushed
  BY <1>19 DEF FinalFlushed, Settle, IInv, ShownInv, ShownAs, trialVars,
     displayVars
<1>20. CASE UNCHANGED vars
  BY <1>20 DEF IInv, ShownInv, ShownAs, vars, trialVars, displayVars
<1> QED
  BY <1>1, <1>2, <1>3, <1>4, <1>5, <1>6, <1>7, <1>8, <1>9, <1>10, <1>11, <1>12,
     <1>13, <1>14, <1>15, <1>16, <1>17, <1>18, <1>19, <1>20 DEF Next, MainStep,
     TrialStep, Finished

-----------------------------------------------------------------------------
(* The invariant. *)

LEMMA InitIInv == Init => IInv
<1> SUFFICES ASSUME Init PROVE IInv
  OBVIOUS
<1>1. TypeOK
  <2>1. /\ pc \in [Trials -> Places] /\ status \in [Trials -> Terminal \cup {"pending", "running"}]
        /\ results \in [Trials -> Terminal \cup {"pending"}]
        /\ outcome \in [Trials -> Outcomes \cup {"none"}]
    BY DEF Init, Places
  <2>2. /\ attempt \in [Trials -> Nat] /\ retryCount \in [Trials -> Nat]
        /\ lateCalls \in [Trials -> Nat] /\ shown \in [Terminal -> Nat]
        /\ taken \in [Flushers -> SUBSET Trials]
    BY DEF Init
  <2>3. /\ spawned \in 0..N /\ wg \in 0..N /\ sem \in 0..Concurrency
        /\ retriesShown \in Nat
    BY SMT DEF Init
  <2>4. /\ cancelled \in BOOLEAN
        /\ main \in {"spawn", "flush", "flushing", "finished"}
        /\ contexts \subseteq Trials /\ batch \subseteq Trials
    BY DEF Init
  <2> QED
    BY <2>1, <2>2, <2>3, <2>4 DEF TypeOK
<1>2. Holders = {} /\ Active = {} /\ \A s \in Terminal : ShownAs(s) = {}
  BY DEF Init, Holders, Active, ShownAs, Holding, InTrial, Reported
<1>3. SlotsInv /\ WaitInv /\ ShownInv
  BY <1>2, FS_EmptySet DEF Init, SlotsInv, WaitInv, ShownInv
<1>4. SpawnInv /\ ResultInv
  BY DEF Init, SpawnInv, ResultInv, Before, Trials
<1>5. UntouchedInv /\ LateInv /\ RetryInv
  BY DEF Init, UntouchedInv, Untouched, LateInv, RetryInv
<1>6. TelemetryInv /\ MainInv
  BY DEF Init, TelemetryInv, MainInv, Trials, Flushers
<1> QED
  BY <1>1, <1>3, <1>4, <1>5, <1>6 DEF IInv

LEMMA StepIInv == IInv /\ [Next]_vars => IInv'
  BY TypeStep, SlotsStep, WaitStep, SpawnStep, ResultStep, UntouchedStep,
     LateStep, RetryStep, TelemetryStep, FinishStep, ShownStep DEF IInv

\* The inductive invariant holds in every state of the executor.
THEOREM Invariant == Spec => []IInv
  BY InitIInv, StepIInv, PTL DEF Spec

\* Every variable keeps its type; in particular neither the WaitGroup nor the
\* semaphore goes below zero or above its limit.
THEOREM TypesHold == Spec => []TypeOK
<1>1. IInv => TypeOK
  BY DEF IInv
<1> QED
  BY <1>1, Invariant, PTL

-----------------------------------------------------------------------------
(* What follows from it. *)

\* Whatever the schedule and the interrupts, at most `concurrency` goroutines
\* hold a slot (executor.go, the channel sem).
THEOREM ConcurrencyIsBounded == Spec => []ConcurrencyBound
<1>1. IInv => ConcurrencyBound
  BY DEF IInv, TypeOK, SlotsInv, Holders, ConcurrencyBound
<1> QED
  BY <1>1, Invariant, PTL

\* A trial recorded as cancelled has left no trace: no call to its adapter, no
\* telemetry (executor.go, the ctx.Done case of the select).
THEOREM CancelledMeansNeverStarted == Spec => []CancelledNeverStarted
<1>1. IInv => CancelledNeverStarted
  BY DEF IInv, ResultInv, UntouchedInv, Untouched, CancelledNeverStarted,
     Holding
<1> QED
  BY <1>1, Invariant, PTL

\* However many retries are left, at most one call begins after the interrupt,
\* and its trial is not recorded as completed (runTrial, ctx.Err in the loop).
THEOREM OneCallAfterInterrupt == Spec => []OneCallAfterCancel
<1>1. IInv => OneCallAfterCancel
  BY DEF IInv, TypeOK, LateInv, OneCallAfterCancel
<1> QED
  BY <1>1, Invariant, PTL

\* When RunTrials has returned the display and the results agree on how many
\* trials ended in each status.
THEOREM DisplayAgrees == Spec => []DisplayMatchesResults
<1>1. ASSUME IInv PROVE DisplayMatchesResults
  <2> SUFFICES ASSUME main # "spawn", NEW s \in Terminal
               PROVE  shown[s] = Cardinality({t \in Trials : results[t] = s})
    BY DEF DisplayMatchesResults
  <2>1. \A t \in Trials : pc[t] = "done" /\ results[t] = status[t]
    BY <1>1 DEF IInv, MainInv, ResultInv, Before, Holding, InTrial
  <2>2. ShownAs(s) = {t \in Trials : results[t] = s}
    BY <2>1 DEF ShownAs, Reported
  <2> QED
    BY <1>1, <2>2 DEF IInv, ShownInv
<1> QED
  BY <1>1, Invariant, PTL

\* RunTrials returns only after every goroutine has ended, with every result
\* stored and every slot and telemetry context given back.
THEOREM ReturnComesLast == Spec => []ReturnsAfterAll
<1>1. ASSUME IInv PROVE ReturnsAfterAll
  <2> SUFFICES ASSUME main # "spawn" PROVE
          (\A t \in Trials : pc[t] = "done" /\ results[t] \in Terminal)
          /\ sem = 0 /\ contexts = {}
    BY DEF ReturnsAfterAll
  <2>1. \A t \in Trials : pc[t] = "done"
    BY <1>1 DEF IInv, MainInv
  <2>2. \A t \in Trials : results[t] \in Terminal
    BY <1>1, <2>1 DEF IInv, TypeOK, ResultInv, Before, Holding, InTrial
  <2>3. Holders = {}
    BY <2>1 DEF Holders, Holding, InTrial
  <2>4. sem = 0
    BY <1>1, <2>3, FS_EmptySet DEF IInv, SlotsInv
  <2>5. contexts = {}
    BY <1>1, <2>1 DEF IInv, TypeOK, TelemetryInv
  <2> QED
    BY <2>1, <2>2, <2>4, <2>5
<1> QED
  BY <1>1, Invariant, PTL

\* While the last Flush of Run is sending, no event is anywhere else.
THEOREM FinalFlushIsLast == Spec => []FinalFlushSeesAll
<1>1. IInv => FinalFlushSeesAll
  BY DEF IInv, MainInv, TelemetryInv, FinalFlushSeesAll
<1> QED
  BY <1>1, Invariant, PTL

\* A retry follows a failed call, is counted once, and stays within the
\* configured number (runTrial, the loop).
THEOREM RetriesFollowFailures == Spec => RetryAfterFailure
<1> DEFINE Step ==
        \A t \in Trials : retryCount'[t] # retryCount[t] =>
            /\ outcome[t] \in Outcomes \ {"ok"}
            /\ retryCount'[t] = attempt[t]
            /\ retryCount'[t] <= Retries
<1>1. ASSUME IInv, [Next]_vars PROVE [Step]_vars
  <2>1. ASSUME NEW t \in Trials, StartAttempt(t) PROVE Step
    BY <1>1, <2>1 DEF StartAttempt, IInv, TypeOK, RetryInv
  <2>2. CASE retryCount' = retryCount
    BY <2>2
  <2>3. retryCount' = retryCount \/ \E t \in Trials : StartAttempt(t)
    BY <1>1 DEF Next, MainStep, TrialStep, Finished, vars, trialVars, Spawn,
       Interrupt, Park, Acquire, ObserveCancel, Begin, AdapterReturns, Returns,
       Finish, Annotate, TrialFlush, TrialFlushed, Report, ReportCancelled,
       Release, Exit, WaitReturns, FinalFlush, FinalFlushed
  <2> QED
    BY <2>1, <2>2, <2>3
<1> QED
  BY <1>1, Invariant, PTL DEF Spec, RetryAfterFailure

-----------------------------------------------------------------------------
(* Refinement. *)

LEMMA InitRefines == Init => Benchmark!Init
  BY DEF Init, Benchmark!Init

\* Three steps decide something: the interrupt, the two places where a result
\* is stored, and the return of wg.Wait. All the others are stutters.
LEMMA StepRefines == IInv /\ [Next]_vars => [Benchmark!Next]_(Benchmark!vars)
<1> SUFFICES ASSUME IInv, [Next]_vars PROVE [Benchmark!Next]_(Benchmark!vars)
  OBVIOUS
<1> USE DEF Benchmark!vars
<1>1. CASE Interrupt
  BY <1>1 DEF Interrupt, mainVars, trialVars, Benchmark!Next,
     Benchmark!Interrupt
<1>2. ASSUME NEW t \in Trials, ObserveCancel(t) PROVE Benchmark!Next
  <2>1. results[t] = "pending" /\ cancelled
    BY <1>2 DEF ObserveCancel, IInv, ResultInv, Before
  <2>2. Benchmark!Decide(t, "cancelled")
    BY <1>2, <2>1 DEF ObserveCancel, mainVars, Benchmark!Decide
  <2> QED
    BY <2>2 DEF Benchmark!Next, Benchmark!Terminal
<1>3. ASSUME NEW t \in Trials, Release(t) PROVE Benchmark!Next
  <2>1. results[t] = "pending" /\ status[t] \in {"completed", "failed", "timeout"}
    BY <1>3 DEF Release, IInv, ResultInv, Holding
  <2>2. Benchmark!Decide(t, status[t])
    BY <1>3, <2>1 DEF Release, mainVars, Benchmark!Decide
  <2> QED
    BY <2>1, <2>2 DEF Benchmark!Next, Benchmark!Terminal
<1>4. CASE WaitReturns
  <2>1. main' # "spawn" /\ main = "spawn" /\ UNCHANGED <<results, cancelled, pc>>
    BY <1>4 DEF WaitReturns, trialVars
  <2>2. MainInv'
    BY FinishStep
  <2>3. \A t \in Trials : results[t] # "pending"
    BY <2>1, <2>2 DEF MainInv, IInv, ResultInv, Before, Holding, InTrial
  <2> QED
    BY <2>1, <2>3 DEF Benchmark!Next, Benchmark!Return
<1>5. CASE UNCHANGED <<results, cancelled>> /\ (main' # "spawn" <=> main # "spawn")
  BY <1>5
<1>6. \/ Interrupt \/ WaitReturns
      \/ \E t \in Trials : ObserveCancel(t) \/ Release(t)
      \/ UNCHANGED <<results, cancelled>> /\ (main' # "spawn" <=> main # "spawn")
  BY DEF Next, MainStep, TrialStep, Finished, vars, trialVars, mainVars, Spawn,
     Park, Acquire, Begin, StartAttempt, AdapterReturns, Returns, Finish,
     Annotate, TrialFlush, TrialFlushed, Report, ReportCancelled, Exit,
     FinalFlush, FinalFlushed
<1> QED
  BY <1>1, <1>2, <1>3, <1>4, <1>5, <1>6

\* The executor implements BenchmarkRun, for any number of trials: one terminal
\* status each, never changed, cancelled only after an interrupt, and a return
\* only when all are decided. (Its liveness is left to TLC.)
THEOREM Refinement == Spec => Benchmark!SafeSpec
  BY InitRefines, StepRefines, Invariant, PTL DEF Spec, Benchmark!SafeSpec
=============================================================================
