------------------------- MODULE MLflowTrial_proofs -------------------------
(***************************************************************************)
(* Proofs about MLflowTrial for all trials, scenarios and numbers of       *)
(* spans, finite or not: a trial's spans go to the experiment of its       *)
(* scenario, only a failure of its own keeps them from there, and none is  *)
(* left behind. The argument follows a span: it is not ended, queued,      *)
(* delivered or dropped, one of the four.                                  *)
(***************************************************************************)
EXTENDS MLflowTrial, TLAPS

USE TrialsAssumption

-----------------------------------------------------------------------------
(* The inductive invariant. *)

\* An id names the experiment of the scenario it is kept for, which exists.
ExperimentInv ==
    /\ \A s \in Scenarios :
           experimentIDs[s] # NoExperiment => experimentIDs[s] = s /\ s \in experiments
    /\ \A t \in Trials :
           experiment[t] # NoExperiment =>
               experiment[t] = ScenarioOf[t] /\ ScenarioOf[t] \in experiments

\* How far a trial is tells what it has: an experiment while it ends spans,
\* all its spans ended after that, and a failure where it has neither.
PhaseInv ==
    \A t \in Trials :
        /\ pc[t] \in {"new", "creating", "searching"} =>
               experiment[t] = NoExperiment /\ ended[t] = 0
        /\ pc[t] = "running" =>
               ended[t] = 0 /\ (experiment[t] # NoExperiment \/ t \in failures)
        /\ pc[t] = "ending" => experiment[t] # NoExperiment /\ ended[t] <= SpansOf[t]
        /\ pc[t] = "flushing" => experiment[t] # NoExperiment /\ ended[t] = SpansOf[t] + 1
        /\ pc[t] = "done" => ended[t] = SpansOf[t] + 1 \/ (ended[t] = 0 /\ t \in failures)

\* Nothing is queued for, or delivered to, an experiment of another scenario.
OwnInv ==
    /\ \A s \in Scenarios : \A span \in queue[s] : ScenarioOf[span[1]] = s
    /\ \A d \in delivered : d[2] = ScenarioOf[d[1][1]]

\* The places of the i-th span of t, which has ended or not.
HasEnded(t, i) == IF i = 0 THEN ended[t] = SpansOf[t] + 1 ELSE i <= ended[t]
Queued(t, i) == <<t, i>> \in queue[ScenarioOf[t]]
Delivered(t, i) == <<<<t, i>>, ScenarioOf[t]>> \in delivered
Dropped(t, i) == <<t, i>> \in dropped

\* A span that has ended is in exactly one place, any other in none, and none
\* of a trial that is done is queued.
PlaceInv ==
    \A t \in Trials : \A i \in 0..SpansOf[t] :
        /\ HasEnded(t, i) <=> Queued(t, i) \/ Delivered(t, i) \/ Dropped(t, i)
        /\ ~(Queued(t, i) /\ Delivered(t, i))
        /\ ~(Queued(t, i) /\ Dropped(t, i))
        /\ ~(Delivered(t, i) /\ Dropped(t, i))
        /\ pc[t] = "done" => ~Queued(t, i)

IInv == TypeOK /\ ExperimentInv /\ PhaseInv /\ OwnInv /\ PlaceInv

-----------------------------------------------------------------------------
(* The steps. *)

\* The invariant holds before the first trial starts.
LEMMA InitInv == Init => IInv
<1> SUFFICES ASSUME Init PROVE IInv
  OBVIOUS
<1>1. TypeOK
  BY DEF Init, TypeOK, AllSpans
<1>2. ExperimentInv /\ PhaseInv /\ OwnInv
  BY DEF Init, ExperimentInv, PhaseInv, OwnInv
<1>3. PlaceInv
  BY DEF Init, PlaceInv, HasEnded, Queued, Delivered, Dropped
<1> QED
  BY <1>1, <1>2, <1>3 DEF IInv

\* What StartTrial, its requests and its failures do to one trial: it has the
\* experiment of its scenario and that exists, or none and, if it is past
\* these steps, a failure. The caches keep to existing experiments.
StartStep(t) ==
    /\ pc[t] \in {"new", "creating", "searching"}
    /\ \E place \in {"creating", "searching", "running"} : Goto(t, place)
    /\ experiments \subseteq experiments' /\ experiments' \subseteq Scenarios
    /\ \/ UNCHANGED experimentIDs
       \/ /\ experimentIDs' = [experimentIDs EXCEPT ![ScenarioOf[t]] = ScenarioOf[t]]
          /\ ScenarioOf[t] \in experiments'
    /\ \/ /\ UNCHANGED experiment
          /\ pc'[t] = "running" => t \in failures'
       \/ /\ experiment' = [experiment EXCEPT ![t] = ScenarioOf[t]]
          /\ pc'[t] = "running"
          /\ ScenarioOf[t] \in experiments'
    /\ failures' \in {failures, failures \cup {t}}
    /\ UNCHANGED spanVars

\* ensureExperiment is such a step at each of its requests.
LEMMA StartSteps ==
    ASSUME IInv, NEW t \in Trials,
           StartTrial(t) \/ CreateExperiment(t) \/ GetExperimentByName(t)
    PROVE  StartStep(t)
<1> USE DEF StartStep, Goto, Trace, CacheAndTrace, LeaveUntraced, IInv, TypeOK, experimentVars
<1>1. CASE StartTrial(t)
  BY <1>1 DEF StartTrial, ExperimentInv
<1>2. CASE CreateExperiment(t)
  BY <1>2 DEF CreateExperiment, NameTaken
<1>3. CASE GetExperimentByName(t)
  BY <1>3 DEF GetExperimentByName, Matches
<1> QED
  BY <1>1, <1>2, <1>3

\* ensureExperiment keeps the invariant.
LEMMA StartKeeps ==
    ASSUME IInv, NEW t \in Trials, StartStep(t) PROVE IInv'
<1> USE DEF IInv, StartStep, Goto, spanVars
<1>1. TypeOK'
  BY DEF TypeOK
<1>2. ExperimentInv'
  BY DEF TypeOK, ExperimentInv
<1>3. PhaseInv'
  BY DEF TypeOK, PhaseInv
<1>4. OwnInv'
  BY DEF OwnInv
<1>5. PlaceInv'
  BY DEF TypeOK, PlaceInv, HasEnded, Queued, Delivered, Dropped
<1> QED
  BY <1>1, <1>2, <1>3, <1>4, <1>5

\* FinishTrial up to its spans.
LEMMA FinishKeeps ==
    ASSUME IInv, NEW t \in Trials, FinishTrial(t) PROVE IInv'
<1> USE DEF IInv, FinishTrial, GetOrCreateTracerProvider, Goto, experimentVars
<1>1. TypeOK'
  BY DEF TypeOK
<1>2. ExperimentInv'
  BY DEF ExperimentInv
<1>3. PhaseInv'
  BY DEF TypeOK, PhaseInv
<1>4. OwnInv'
  BY DEF OwnInv
<1>5. PlaceInv'
  \* a trial that is done here has ended no span
  <2>1. \A i \in 0..SpansOf[t] : ~HasEnded(t, i)
    BY DEF TypeOK, PhaseInv, HasEnded
  <2> QED
    BY <2>1 DEF TypeOK, PlaceInv, HasEnded, Queued, Delivered, Dropped
<1> QED
  BY <1>1, <1>2, <1>3, <1>4, <1>5

\* One span ends and is queued for the experiment of its trial, or dropped.
LEMMA EndSpanKeeps ==
    ASSUME IInv, NEW t \in Trials, EndSpan(t) PROVE IInv'
<1> DEFINE e == ScenarioOf[t]
           k == IF ended[t] = SpansOf[t] THEN 0 ELSE ended[t] + 1
<1>1. /\ e \in Scenarios /\ experiment[t] = e /\ pc[t] = "ending"
      /\ ended[t] \in 0..SpansOf[t] /\ k \in 0..SpansOf[t]
  BY DEF IInv, EndSpan, TypeOK, ExperimentInv, PhaseInv
<1>2. /\ ended' = [ended EXCEPT ![t] = ended[t] + 1]
      /\ \/ queue' = [queue EXCEPT ![e] = queue[e] \cup {<<t, k>>}] /\ dropped' = dropped
         \/ queue' = queue /\ dropped' = dropped \cup {<<t, k>>}
      /\ UNCHANGED <<experimentVars, tps, delivered, failures>>
  BY <1>1 DEF EndSpan, Enqueue
<1>3. /\ pc' \in [Trials -> {"new", "creating", "searching", "running",
                             "ending", "flushing", "done"}]
      /\ pc'[t] = IF ended[t] = SpansOf[t] THEN "flushing" ELSE "ending"
      /\ \A u \in Trials \ {t} : pc'[u] = pc[u]
  BY <1>1, <1>2 DEF IInv, TypeOK, EndSpan, Goto, AllEnded
<1>4. <<t, k>> \in AllSpans
  BY <1>1 DEF AllSpans, Spans
<1>5. TypeOK'
  <2>1. ended' \in [Trials -> Nat] /\ \A u \in Trials : ended'[u] <= SpansOf[u] + 1
    BY <1>1, <1>2 DEF IInv, TypeOK
  <2>2. queue' \in [Scenarios -> SUBSET AllSpans] /\ dropped' \subseteq AllSpans
    BY <1>2, <1>4 DEF IInv, TypeOK
  <2> QED
    BY <1>2, <1>3, <2>1, <2>2 DEF IInv, TypeOK, experimentVars
<1>6. ExperimentInv'
  BY <1>2 DEF IInv, ExperimentInv, experimentVars
<1>7. PhaseInv'
  BY <1>1, <1>2, <1>3 DEF IInv, TypeOK, PhaseInv, experimentVars
<1>8. OwnInv'
  BY <1>1, <1>2 DEF IInv, TypeOK, OwnInv
<1>9. PlaceInv'
  <2> SUFFICES ASSUME NEW u \in Trials, NEW i \in 0..SpansOf[u]
               PROVE  /\ HasEnded(u, i)' <=> Queued(u, i)' \/ Delivered(u, i)' \/ Dropped(u, i)'
                      /\ ~(Queued(u, i)' /\ Delivered(u, i)')
                      /\ ~(Queued(u, i)' /\ Dropped(u, i)')
                      /\ ~(Delivered(u, i)' /\ Dropped(u, i)')
                      /\ pc'[u] = "done" => ~Queued(u, i)'
    BY DEF PlaceInv
  <2>1. Delivered(u, i)' <=> Delivered(u, i)
    BY <1>2 DEF Delivered
  <2>2. \/ /\ Queued(u, i)' <=> Queued(u, i) \/ (u = t /\ i = k)
           /\ Dropped(u, i)' <=> Dropped(u, i)
        \/ /\ Queued(u, i)' <=> Queued(u, i)
           /\ Dropped(u, i)' <=> Dropped(u, i) \/ (u = t /\ i = k)
    <3>1. CASE queue' = queue /\ dropped' = dropped \cup {<<t, k>>}
      BY <3>1 DEF Queued, Dropped
    <3>2. CASE queue' = [queue EXCEPT ![e] = queue[e] \cup {<<t, k>>}] /\ dropped' = dropped
      BY <1>1, <3>2 DEF IInv, TypeOK, Queued, Dropped
    <3> QED
      BY <1>2, <3>1, <3>2
  <2>3. HasEnded(u, i)' <=> HasEnded(u, i) \/ (u = t /\ i = k)
    BY <1>1, <1>2 DEF IInv, TypeOK, HasEnded
  <2>4. ~HasEnded(t, k)
    BY <1>1 DEF HasEnded
  <2>5. pc'[u] = "done" => u # t /\ pc[u] = "done"
    BY <1>3
  <2> QED
    BY <1>1, <2>1, <2>2, <2>3, <2>4, <2>5 DEF IInv, PlaceInv
<1> QED
  BY <1>5, <1>6, <1>7, <1>8, <1>9 DEF IInv

\* A batch is exported or lost: each of its spans moves, and no other.
LEMMA ExportMoves ==
    ASSUME IInv, NEW e \in Scenarios, ExportBatch(e), UNCHANGED ended
    PROVE  /\ queue' \in [Scenarios -> SUBSET AllSpans]
           /\ delivered' \subseteq AllSpans \X Scenarios /\ dropped' \subseteq AllSpans
           /\ OwnInv'
           /\ \A t \in Trials : \A i \in 0..SpansOf[t] :
                  /\ HasEnded(t, i)' <=> Queued(t, i)' \/ Delivered(t, i)' \/ Dropped(t, i)'
                  /\ ~(Queued(t, i)' /\ Delivered(t, i)')
                  /\ ~(Queued(t, i)' /\ Dropped(t, i)')
                  /\ ~(Delivered(t, i)' /\ Dropped(t, i)')
                  /\ Queued(t, i)' => Queued(t, i) /\ ScenarioOf[t] # e
<1>1. /\ queue' = [queue EXCEPT ![e] = {}]
      /\ \/ delivered' = delivered \cup {<<span, e>> : span \in queue[e]} /\ UNCHANGED dropped
         \/ dropped' = dropped \cup queue[e] /\ UNCHANGED delivered
  BY DEF ExportBatch
<1>2. queue[e] \subseteq AllSpans
  BY DEF IInv, TypeOK
<1>3. /\ queue' \in [Scenarios -> SUBSET AllSpans]
      /\ delivered' \subseteq AllSpans \X Scenarios /\ dropped' \subseteq AllSpans
  BY <1>1, <1>2 DEF IInv, TypeOK
<1>4. OwnInv'
  BY <1>1 DEF IInv, TypeOK, OwnInv
<1>5. ASSUME NEW t \in Trials, NEW i \in 0..SpansOf[t]
      PROVE  /\ HasEnded(t, i)' <=> Queued(t, i)' \/ Delivered(t, i)' \/ Dropped(t, i)'
             /\ ~(Queued(t, i)' /\ Delivered(t, i)')
             /\ ~(Queued(t, i)' /\ Dropped(t, i)')
             /\ ~(Delivered(t, i)' /\ Dropped(t, i)')
             /\ Queued(t, i)' => Queued(t, i) /\ ScenarioOf[t] # e
  <2>1. HasEnded(t, i)' <=> HasEnded(t, i)
    BY DEF HasEnded
  <2>2. Queued(t, i)' <=> Queued(t, i) /\ ScenarioOf[t] # e
    BY <1>1 DEF IInv, TypeOK, Queued
  <2>3. \/ /\ Delivered(t, i)' <=> Delivered(t, i) \/ (Queued(t, i) /\ ScenarioOf[t] = e)
           /\ Dropped(t, i)' <=> Dropped(t, i)
        \/ /\ Dropped(t, i)' <=> Dropped(t, i) \/ (Queued(t, i) /\ ScenarioOf[t] = e)
           /\ Delivered(t, i)' <=> Delivered(t, i)
    <3>1. <<t, i>> \in queue[e] => ScenarioOf[t] = e
      BY DEF IInv, OwnInv
    <3> QED
      BY <1>1, <3>1 DEF Delivered, Dropped, Queued
  <2> QED
    BY <2>1, <2>2, <2>3 DEF IInv, PlaceInv
<1> QED
  BY <1>3, <1>4, <1>5

\* The batch goes out in the background.
LEMMA ExportKeeps ==
    ASSUME IInv, NEW e \in Scenarios, ExportInBackground(e) PROVE IInv'
<1>1. ExportBatch(e) /\ UNCHANGED <<pc, experimentVars, tps, ended, failures>>
  BY DEF ExportInBackground
<1>2. TypeOK' /\ OwnInv'
  BY <1>1, ExportMoves DEF IInv, TypeOK, experimentVars
<1>3. ExperimentInv' /\ PhaseInv'
  BY <1>1 DEF IInv, ExperimentInv, PhaseInv, experimentVars
<1>4. PlaceInv'
  BY <1>1, ExportMoves DEF IInv, PlaceInv
<1> QED
  BY <1>2, <1>3, <1>4 DEF IInv

\* FinishTrial returns after its flush.
LEMMA FlushKeeps ==
    ASSUME IInv, NEW t \in Trials, ForceFlush(t) PROVE IInv'
<1>1. /\ experiment[t] = ScenarioOf[t] /\ ScenarioOf[t] \in Scenarios
      /\ ended[t] = SpansOf[t] + 1
  BY DEF IInv, TypeOK, ExperimentInv, PhaseInv, ForceFlush
<1>2. /\ ExportBatch(ScenarioOf[t]) /\ pc' = [pc EXCEPT ![t] = "done"]
      /\ UNCHANGED <<experimentVars, tps, ended, failures>>
  BY <1>1 DEF ForceFlush, Goto
<1>3. TypeOK' /\ OwnInv'
  BY <1>1, <1>2, ExportMoves DEF IInv, TypeOK, experimentVars
<1>4. ExperimentInv' /\ PhaseInv'
  BY <1>1, <1>2 DEF IInv, TypeOK, ExperimentInv, PhaseInv, experimentVars
<1>5. PlaceInv'
  BY <1>1, <1>2, ExportMoves DEF IInv, TypeOK, PlaceInv
<1> QED
  BY <1>3, <1>4, <1>5 DEF IInv

\* Every step keeps the invariant.
LEMMA StepInv == IInv /\ [Next]_vars => IInv'
<1> SUFFICES ASSUME IInv, [Next]_vars PROVE IInv'
  OBVIOUS
<1>1. ASSUME NEW t \in Trials,
             StartTrial(t) \/ CreateExperiment(t) \/ GetExperimentByName(t)
      PROVE  IInv'
  BY <1>1, StartSteps, StartKeeps
<1>2. ASSUME NEW t \in Trials, FinishTrial(t) \/ EndSpan(t) \/ ForceFlush(t) PROVE IInv'
  BY <1>2, FinishKeeps, EndSpanKeeps, FlushKeeps
<1>3. ASSUME NEW e \in Scenarios, ExportInBackground(e) PROVE IInv'
  BY <1>3, ExportKeeps
<1>4. CASE UNCHANGED vars
  BY <1>4 DEF vars, experimentVars, spanVars, IInv, TypeOK, ExperimentInv, PhaseInv, OwnInv,
       PlaceInv, HasEnded, Queued, Delivered, Dropped
<1> QED
  BY <1>1, <1>2, <1>3, <1>4 DEF Next, AllDone

-----------------------------------------------------------------------------
(* The theorems. *)

\* IInv holds in every reachable state.
THEOREM Invariance == Spec => []IInv
  BY InitInv, StepInv, PTL DEF Spec

\* The state of the adapter has its types.
THEOREM TypeCorrect == Spec => []TypeOK
<1>1. IInv => TypeOK
  BY DEF IInv
<1> QED
  BY <1>1, Invariance, PTL

\* However the trials of a scenario race for its experiment, each span is
\* delivered to the experiment of its own scenario, and that exists.
THEOREM OwnExperiment == Spec => []SpansInOwnExperiment
<1>1. IInv => SpansInOwnExperiment
  BY DEF IInv, OwnInv, ExperimentInv, SpansInOwnExperiment
<1> QED
  BY <1>1, Invariance, PTL

\* A trial without a failed request or provider has ended all its spans when
\* FinishTrial returns.
THEOREM OnlyFailuresUnrecorded == Spec => []UnrecordedOnlyAfterFailure
<1>1. IInv => UnrecordedOnlyAfterFailure
  BY DEF IInv, PhaseInv, UnrecordedOnlyAfterFailure
<1> QED
  BY <1>1, Invariance, PTL

\* When FinishTrial returns after its flush, every span of its trial, the root
\* included, is delivered or dropped, not both.
THEOREM FlushedWhole == Spec => []NothingLeftBehind
<1>1. IInv => NothingLeftBehind
  <2> SUFFICES ASSUME IInv, NEW t \in Trials, pc[t] = "done", ended[t] > 0,
                      NEW i \in 0..SpansOf[t]
               PROVE  (\E e \in Scenarios : <<<<t, i>>, e>> \in delivered)
                          # (<<t, i>> \in dropped)
    BY DEF NothingLeftBehind, Spans
  <2>1. (\E e \in Scenarios : <<<<t, i>>, e>> \in delivered) <=> Delivered(t, i)
    BY DEF IInv, OwnInv, Delivered
  <2>2. HasEnded(t, i)
    BY DEF IInv, TypeOK, PhaseInv, HasEnded
  <2>3. Delivered(t, i) <=> ~Dropped(t, i)
    BY <2>2 DEF IInv, PlaceInv
  <2> QED
    BY <2>1, <2>3 DEF Dropped
<1> QED
  BY <1>1, Invariance, PTL
=============================================================================
