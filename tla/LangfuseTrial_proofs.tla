------------------------ MODULE LangfuseTrial_proofs ------------------------
(***************************************************************************)
(* Proofs about LangfuseTrial for every number of trials, sessions and     *)
(* lookups: a trial writes to its own trace only, scores every evaluation  *)
(* once and in order, shares the creation of a score config with nobody it *)
(* did not race, never replaces a loaded one, and sends the empty id only  *)
(* after a failure.                                                        *)
(***************************************************************************)
EXTENDS LangfuseTrial, TLAPS

USE TrialAssumption DEF Trials, Sessions

-----------------------------------------------------------------------------
(* The inductive invariant. *)

\* A trace that was found or made is the trial's, and so is a cached one of
\* every trial of its session; the server has it.
TraceInv ==
    /\ \A t \in Trials : trace[t] # NoTrace => trace[t] = Own(t) /\ trace[t] \in stored
    /\ \A s \in Sessions : traceCache[s] # NoTrace =>
           agent # "claude" /\ traceCache[s] = PluginTrace(s) /\ PluginTrace(s) \in stored
    /\ \A a \in annotated : a[2] = Own(a[1]) /\ a[2] \in stored

\* How far a trial is tells whether it has its trace, and how many of its
\* evaluations have a score.
PhaseOf(t) ==
    /\ pc[t] \in {"started", "lookup", "direct"} => trace[t] = NoTrace /\ scores[t] = << >>
    /\ pc[t] = "lookup" => agent # "claude" /\ session[t] \in Sessions
    /\ pc[t] = "direct" => agent = "claude"
    /\ pc[t] = "annotate" => trace[t] # NoTrace /\ scores[t] = << >>
    /\ pc[t] \in {"config", "create"} =>
           trace[t] # NoTrace /\ Len(scores[t]) < Len(Evaluations(t))
    /\ pc[t] = "done" =>
           Len(scores[t]) = IF trace[t] = NoTrace THEN 0 ELSE Len(Evaluations(t))

PhaseInv == \A t \in Trials : PhaseOf(t)

\* The scores of a trial are on its trace, in the order of its evaluations.
ScoresOf(t) ==
    \A i \in 1..Len(scores[t]) :
        /\ trace[t] # NoTrace
        /\ i <= Len(Evaluations(t))
        /\ scores[t][i].name = Evaluations(t)[i]
        /\ scores[t][i].trace = trace[t]

ScoresInv == \A t \in Trials : ScoresOf(t)

\* The empty id is where a creation failed, in the cache and in the scores.
MissingInv ==
    /\ \A e \in Evaluators : NoConfig \in scoreConfigs[e] => e \in refused
    /\ \A t \in Trials : \A i \in 1..Len(scores[t]) :
           scores[t][i].config = NoConfig => scores[t][i].name \in refused

\* t is waiting for the answer to its creation of the config of e.
Creating(e, t) == pc[t] = "create" /\ Current(t) = e

\* An answer is cached for good, so whoever waits for another one asked before
\* it came, and any two who waited together are on record. Nobody waits for
\* the config of an evaluator that has a loaded one.
RaceInv ==
    /\ \A e \in loaded : \A t \in Trials : ~Creating(e, t)
    /\ \A a \in answered : scoreConfigs[a[1]] # {}
    /\ \A e \in Evaluators : \A t, u \in Trials :
           t # u /\ Creating(e, t) /\ (Creating(e, u) \/ <<e, u>> \in answered) =>
               <<e, t, u>> \in overlap /\ <<e, u, t>> \in overlap
    /\ OnlyRacersCreateTwice

IInv == TypeOK /\ TraceInv /\ PhaseInv /\ ScoresInv /\ MissingInv /\ RaceInv

-----------------------------------------------------------------------------
(* The evaluations of a trial, and its traces. *)

\* There are two or three evaluations.
LEMMA EvaluationsType ==
    ASSUME NEW t \in Trials
    PROVE  Evaluations(t) \in Seq(Evaluators) /\ Len(Evaluations(t)) \in {2, 3}
<1>1. CASE t \in Graded
  <2>1. Evaluations(t) = <<"completion", "non_empty">> \o <<"accuracy">>
    BY <1>1 DEF Evaluations
  <2> QED
    BY <2>1 DEF Evaluators
<1>2. CASE t \notin Graded
  <2>1. Evaluations(t) = <<"completion", "non_empty">> \o << >>
    BY <1>2 DEF Evaluations
  <2> QED
    BY <2>1 DEF Evaluators
<1> QED
  BY <1>1, <1>2

\* The same of their number alone.
LEMMA EvaluationsCount == \A t \in Trials : Len(Evaluations(t)) \in {2, 3}
  BY EvaluationsType

\* A trial with evaluations to go is at one of them.
LEMMA CurrentType ==
    ASSUME TypeOK, NEW t \in Trials, Len(scores[t]) < Len(Evaluations(t))
    PROVE  Current(t) \in Evaluators
<1>1. Len(scores[t]) \in Nat
  BY DEF TypeOK
<1> QED
  BY <1>1, EvaluationsType DEF Current

\* The traces of sessions and of trials are traces, and none is the other's.
LEMMA TraceTypes ==
    /\ \A s \in Sessions : PluginTrace(s) \in Traces /\ PluginTrace(s) # NoTrace
    /\ \A t \in Trials : DirectTrace(t) \in Traces /\ DirectTrace(t) # NoTrace
  BY DEF Traces, PluginTrace, DirectTrace, NoTrace

\* As long as no trial of the evaluator moves, those who wait for it stay.
LEMMA CreatingSame ==
    ASSUME NEW t, pc'[t] = pc[t], scores'[t] = scores[t]
    PROVE  \A e : Creating(e, t)' <=> Creating(e, t)
  BY DEF Creating, Current

\* What is known of a trial stays known when it does not move.
LEMMA OthersSame ==
    ASSUME IInv, NEW t, UNCHANGED <<agent, session>>,
           \A u \in Trials \ {t} :
               pc'[u] = pc[u] /\ trace'[u] = trace[u] /\ scores'[u] = scores[u]
    PROVE  \A u \in Trials \ {t} : PhaseOf(u)' /\ ScoresOf(u)'
  BY DEF IInv, PhaseInv, PhaseOf, ScoresInv, ScoresOf

-----------------------------------------------------------------------------
(* The steps on the traces, which touch no score. *)

\* The invariant holds at the start, whatever configs were loaded.
LEMMA InitInv == Init => IInv
<1> SUFFICES ASSUME Init PROVE IInv
  OBVIOUS
<1>1. /\ loaded \in SUBSET Evaluators
      /\ scoreConfigs = [e \in Evaluators |-> IF e \in loaded THEN {<<e, 0>>} ELSE {}]
  BY DEF Init, LoadScoreConfigs
<1>2. TypeOK
  <2>1. \A t \in Trials : scores[t] \in Seq(ScoreType)
    BY DEF Init
  <2>2. scoreConfigs \in [Evaluators -> SUBSET (Configs \cup {NoConfig})]
    BY <1>1 DEF Configs
  <2> QED
    BY <1>1, <2>1, <2>2 DEF Init, TypeOK
<1>3. TraceInv /\ PhaseInv /\ ScoresInv
  BY DEF Init, TraceInv, PhaseInv, PhaseOf, ScoresInv, ScoresOf
<1>4. MissingInv
  <2>1. \A e \in Evaluators : NoConfig # <<e, 0>>
    BY DEF NoConfig, Evaluators
  <2>2. \A e \in Evaluators : NoConfig \notin scoreConfigs[e]
    BY <1>1, <2>1
  <2> QED
    BY <2>2 DEF Init, MissingInv
<1>5. RaceInv
  BY <1>1 DEF Init, RaceInv, Creating, OnlyRacersCreateTwice
<1> QED
  BY <1>2, <1>3, <1>4, <1>5 DEF IInv

\* A step that leaves the configs and the scores alone, and moves only a trial
\* that does not wait for a creation to a place where it does not either.
LEMMA ScoresUntouched ==
    ASSUME IInv, UNCHANGED configVars,
           \A t \in Trials : pc'[t] = "create" <=> pc[t] = "create"
    PROVE  MissingInv' /\ RaceInv'
<1>1. \A e \in Evaluators : \A t \in Trials : Creating(e, t)' <=> Creating(e, t)
  BY DEF configVars, Creating, Current
<1> QED
  BY <1>1 DEF configVars, IInv, TypeOK, MissingInv, RaceInv, OnlyRacersCreateTwice

\* The plugin exports the trace of a session.
LEMMA ExportKeeps ==
    ASSUME IInv, NEW s \in Sessions, PluginExports(s) PROVE IInv'
<1> USE DEF IInv, PluginExports, resolveVars, configVars
<1>1. TypeOK'
  BY TraceTypes DEF TypeOK
<1>2. TraceInv'
  BY DEF TraceInv, Own
<1>3. PhaseInv' /\ ScoresInv'
  BY DEF PhaseInv, PhaseOf, ScoresInv, ScoresOf
<1>4. MissingInv' /\ RaceInv'
  BY ScoresUntouched
<1> QED
  BY <1>1, <1>2, <1>3, <1>4

\* FinishTrial chooses how to find the trace.
LEMMA FinishKeeps ==
    ASSUME IInv, NEW t \in Trials, FinishTrial(t) PROVE IInv'
<1>1. /\ pc[t] = "started" /\ trace[t] = NoTrace /\ scores[t] = << >>
      /\ UNCHANGED <<agent, session, lookups, traceCache, configVars, serverVars>>
      /\ UNCHANGED <<scores, stored, annotated>>
  BY DEF FinishTrial, IInv, PhaseInv, PhaseOf, configVars, serverVars
<1>2. PICK place \in {"lookup", "direct", "annotate", "done"} :
          /\ Goto(t, place)
          /\ place = "direct" => agent = "claude"
          /\ place = "lookup" => agent # "claude" /\ session[t] \in Sessions
          /\ \/ place # "annotate" /\ UNCHANGED trace
             \/ /\ place \in {"annotate", "lookup"} /\ agent # "claude"
                /\ session[t] \in Sessions
                /\ trace' = [trace EXCEPT ![t] = traceCache[session[t]]]
                /\ place = IF trace'[t] = NoTrace THEN "lookup" ELSE "annotate"
  BY DEF FinishTrial, IInv, TypeOK, NoSession
<1>3. /\ pc' = [pc EXCEPT ![t] = place]
      /\ pc'[t] = place /\ \A u \in Trials \ {t} : pc'[u] = pc[u]
  BY <1>2 DEF Goto, IInv, TypeOK
<1>4. /\ trace' \in [Trials -> Traces \cup {NoTrace}]
      /\ \A u \in Trials \ {t} : trace'[u] = trace[u]
      /\ (trace'[t] # NoTrace) <=> (place = "annotate")
      /\ trace'[t] # NoTrace => trace'[t] = Own(t) /\ trace'[t] \in stored
  <2>1. CASE UNCHANGED trace
    BY <1>1, <1>2, <2>1 DEF IInv, TypeOK
  <2>2. CASE ~UNCHANGED trace
    <3> DEFINE found == traceCache[session[t]]
    <3>1. /\ trace' = [trace EXCEPT ![t] = found] /\ found \in Traces \cup {NoTrace}
          /\ place = IF trace'[t] = NoTrace THEN "lookup" ELSE "annotate"
          /\ found # NoTrace => found = Own(t) /\ found \in stored
      BY <1>2, <2>2 DEF IInv, TypeOK, TraceInv, Own
    <3>2. trace \in [Trials -> Traces \cup {NoTrace}]
      BY DEF IInv, TypeOK
    <3> HIDE DEF found
    <3> QED
      BY <3>1, <3>2
  <2> QED
    BY <2>1, <2>2
<1>5. TypeOK'
  BY <1>1, <1>3, <1>4 DEF IInv, TypeOK, configVars, serverVars
<1>6. TraceInv'
  BY <1>1, <1>4 DEF IInv, TypeOK, TraceInv, Own, serverVars
<1>7. PhaseInv'
  <2>1. PhaseOf(t)'
    BY <1>1, <1>2, <1>3, <1>4 DEF PhaseOf
  <2> QED
    BY <1>1, <1>3, <1>4, <2>1, OthersSame DEF PhaseInv
<1>8. ScoresInv'
  <2>1. ScoresOf(t)'
    BY <1>1 DEF ScoresOf
  <2> QED
    BY <1>1, <1>3, <1>4, <2>1, OthersSame DEF ScoresInv
<1>9. MissingInv' /\ RaceInv'
  BY <1>1, <1>3, ScoresUntouched
<1> QED
  BY <1>5, <1>6, <1>7, <1>8, <1>9 DEF IInv

\* One attempt to find the trace of the session.
LEMMA LookupKeeps ==
    ASSUME IInv, NEW t \in Trials, LookupTrace(t) PROVE IInv'
<1>1. /\ pc[t] = "lookup" /\ trace[t] = NoTrace /\ scores[t] = << >>
      /\ agent # "claude" /\ session[t] \in Sessions
      /\ UNCHANGED <<agent, session, configVars, serverVars>>
      /\ UNCHANGED <<scores, stored, annotated>>
  BY DEF LookupTrace, IInv, PhaseInv, PhaseOf, configVars, serverVars
<1>2. PICK found \in stored \cup {NoTrace} :
        \/ /\ Accept(t, found)
           /\ trace' = [trace EXCEPT ![t] = found]
           /\ traceCache' = [traceCache EXCEPT ![session[t]] = found]
           /\ Goto(t, "annotate")
           /\ UNCHANGED lookups
        \/ /\ ~Accept(t, found)
           /\ IF GiveUp(t)
              THEN Goto(t, "done") /\ UNCHANGED lookups
              ELSE CountLookup(t) /\ UNCHANGED pc
           /\ UNCHANGED <<trace, traceCache>>
  BY DEF LookupTrace
<1>3. CASE Accept(t, found)
  <2>1. /\ found = PluginTrace(session[t]) /\ found = Own(t) /\ found # NoTrace
        /\ found \in stored /\ found \in Traces
    BY <1>1, <1>3, TraceTypes DEF Accept, Own
  <2>2. /\ trace' = [trace EXCEPT ![t] = found]
        /\ traceCache' = [traceCache EXCEPT ![session[t]] = found]
        /\ pc' = [pc EXCEPT ![t] = "annotate"]
        /\ UNCHANGED lookups
    BY <1>2, <1>3 DEF Goto
  <2>3. TypeOK'
    BY <1>1, <2>1, <2>2 DEF IInv, TypeOK, configVars, serverVars
  <2>4. TraceInv'
    BY <1>1, <2>1, <2>2 DEF IInv, TypeOK, TraceInv, Own
  <2>5. PhaseInv' /\ ScoresInv'
    <3>1. /\ pc'[t] = "annotate" /\ trace'[t] = found /\ scores'[t] = << >>
          /\ \A u \in Trials \ {t} :
                 pc'[u] = pc[u] /\ trace'[u] = trace[u] /\ scores'[u] = scores[u]
      BY <1>1, <2>2 DEF IInv, TypeOK
    <3>2. PhaseOf(t)' /\ ScoresOf(t)'
      BY <2>1, <3>1 DEF PhaseOf, ScoresOf
    <3> QED
      BY <1>1, <3>1, <3>2, OthersSame DEF PhaseInv, ScoresInv
  <2>6. MissingInv' /\ RaceInv'
    BY <1>1, <2>2, ScoresUntouched DEF IInv, TypeOK
  <2> QED
    BY <2>3, <2>4, <2>5, <2>6 DEF IInv
<1>4. CASE ~Accept(t, found)
  <2>1. /\ UNCHANGED <<trace, traceCache>>
        /\ \/ pc' = [pc EXCEPT ![t] = "done"] /\ UNCHANGED lookups
           \/ /\ ~GiveUp(t)
              /\ lookups' = [lookups EXCEPT ![t] = lookups[t] + 1]
              /\ UNCHANGED pc
    BY <1>2, <1>4 DEF Goto, CountLookup
  <2>2. lookups' \in [Trials -> 0..MaxLookups - 1]
    <3>1. lookups \in [Trials -> 0..MaxLookups - 1]
      BY DEF IInv, TypeOK
    <3> QED
      BY <2>1, <3>1 DEF GiveUp
  <2>3. TypeOK'
    BY <1>1, <2>1, <2>2 DEF IInv, TypeOK, configVars, serverVars
  <2>4. TraceInv'
    BY <1>1, <2>1 DEF IInv, TraceInv, Own
  <2>5. PhaseInv' /\ ScoresInv'
    <3>1. /\ pc'[t] \in {"done", "lookup"} /\ trace'[t] = NoTrace /\ scores'[t] = << >>
          /\ \A u \in Trials \ {t} :
                 pc'[u] = pc[u] /\ trace'[u] = trace[u] /\ scores'[u] = scores[u]
      BY <1>1, <2>1 DEF IInv, TypeOK
    <3>2. PhaseOf(t)' /\ ScoresOf(t)'
      BY <1>1, <3>1 DEF PhaseOf, ScoresOf
    <3> QED
      BY <1>1, <3>1, <3>2, OthersSame DEF PhaseInv, ScoresInv
  <2>6. MissingInv' /\ RaceInv'
    BY <1>1, <2>1, ScoresUntouched DEF IInv, TypeOK
  <2> QED
    BY <2>3, <2>4, <2>5, <2>6 DEF IInv
<1> QED
  BY <1>3, <1>4

\* The trace of a run of claude is made.
LEMMA DirectKeeps ==
    ASSUME IInv, NEW t \in Trials, CreateDirectTrace(t) PROVE IInv'
<1>1. /\ pc[t] = "direct" /\ trace[t] = NoTrace /\ scores[t] = << >> /\ agent = "claude"
      /\ UNCHANGED <<agent, session, lookups, traceCache, configVars, annotated>>
      /\ UNCHANGED scores
  BY DEF CreateDirectTrace, IInv, PhaseInv, PhaseOf, configVars
<1>2. PICK send \in Sends :
        /\ stored' = IF send.arrives THEN stored \cup {DirectTrace(t)} ELSE stored
        /\ \/ /\ send.answered
              /\ trace' = [trace EXCEPT ![t] = DirectTrace(t)]
              /\ pc' = [pc EXCEPT ![t] = "annotate"]
           \/ /\ pc' = [pc EXCEPT ![t] = "done"]
              /\ UNCHANGED trace
  BY DEF CreateDirectTrace, Goto
<1>3. send.answered => send.arrives
  BY DEF Sends
<1>4. stored \subseteq stored' /\ stored' \subseteq Traces
  BY <1>2, TraceTypes DEF IInv, TypeOK
<1>5. TypeOK'
  <2>1. /\ trace \in [Trials -> Traces \cup {NoTrace}]
        /\ pc \in [Trials -> {"started", "lookup", "direct", "annotate",
                             "config", "create", "done"}]
    BY DEF IInv, TypeOK
  <2>2. /\ trace' \in [Trials -> Traces \cup {NoTrace}]
        /\ pc' \in [Trials -> {"started", "lookup", "direct", "annotate",
                              "config", "create", "done"}]
    BY <1>2, <2>1, TraceTypes
  <2> QED
    BY <1>1, <1>4, <2>2 DEF IInv, TypeOK, configVars
<1>6. TraceInv'
  <2>1. \A u \in Trials : trace'[u] # trace[u] =>
            u = t /\ trace'[u] = DirectTrace(t) /\ DirectTrace(t) \in stored'
    BY <1>2, <1>3 DEF IInv, TypeOK
  <2> QED
    BY <1>1, <1>4, <2>1 DEF IInv, TraceInv, Own
<1>7. PhaseInv' /\ ScoresInv'
  <2>1. /\ scores'[t] = << >>
        /\ \/ pc'[t] = "annotate" /\ trace'[t] # NoTrace
           \/ pc'[t] = "done" /\ trace'[t] = NoTrace
        /\ \A u \in Trials \ {t} :
               pc'[u] = pc[u] /\ trace'[u] = trace[u] /\ scores'[u] = scores[u]
    BY <1>1, <1>2, TraceTypes DEF IInv, TypeOK
  <2>2. PhaseOf(t)' /\ ScoresOf(t)'
    BY <2>1 DEF PhaseOf, ScoresOf
  <2> QED
    BY <1>1, <2>1, <2>2, OthersSame DEF PhaseInv, ScoresInv
<1>8. MissingInv' /\ RaceInv'
  BY <1>1, <1>2, ScoresUntouched DEF IInv, TypeOK
<1> QED
  BY <1>5, <1>6, <1>7, <1>8 DEF IInv

\* The trace is annotated, or the request is lost.
LEMMA AnnotateKeeps ==
    ASSUME IInv, NEW t \in Trials, AnnotateTrace(t) PROVE IInv'
<1>1. /\ pc[t] = "annotate" /\ trace[t] # NoTrace /\ scores[t] = << >>
      /\ pc' = [pc EXCEPT ![t] = "config"]
      /\ annotated' \in {annotated, annotated \cup {<<t, trace[t]>>}}
      /\ UNCHANGED <<agent, session, resolveVars, configVars, stored>>
      /\ UNCHANGED <<scores, trace, traceCache>>
  BY DEF AnnotateTrace, Goto, IInv, PhaseInv, PhaseOf, configVars, resolveVars
<1>2. TypeOK'
  <2>1. trace[t] \in Traces
    BY <1>1 DEF IInv, TypeOK
  <2>2. annotated' \subseteq Trials \X Traces
    <3>1. annotated \subseteq Trials \X Traces
      BY DEF IInv, TypeOK
    <3> QED
      BY <1>1, <2>1, <3>1
  <2> QED
    BY <1>1, <2>2 DEF IInv, TypeOK, resolveVars, configVars
<1>3. TraceInv'
  BY <1>1 DEF IInv, TraceInv, Own
<1>4. PhaseInv' /\ ScoresInv'
  <2>1. /\ pc'[t] = "config" /\ trace'[t] # NoTrace /\ scores'[t] = << >>
        /\ \A u \in Trials \ {t} :
               pc'[u] = pc[u] /\ trace'[u] = trace[u] /\ scores'[u] = scores[u]
    BY <1>1 DEF IInv, TypeOK
  <2>2. PhaseOf(t)'
    BY <2>1, EvaluationsCount DEF PhaseOf
  <2>3. ScoresOf(t)'
    BY <2>1 DEF ScoresOf
  <2> QED
    BY <1>1, <2>1, <2>2, <2>3, OthersSame DEF PhaseInv, ScoresInv
<1>5. MissingInv' /\ RaceInv'
  BY <1>1, ScoresUntouched DEF IInv, TypeOK
<1> QED
  BY <1>2, <1>3, <1>4, <1>5 DEF IInv

-----------------------------------------------------------------------------
(* The steps on the scores. *)

\* addScore appends the score of the current evaluation.
LEMMA QueueScoreAppends ==
    ASSUME IInv, NEW t \in Trials, pc[t] \in {"config", "create"},
           NEW config \in Configs \cup {NoConfig}, QueueScore(t, config),
           UNCHANGED <<agent, session, resolveVars>>
    PROVE  /\ scores' \in [Trials -> Seq(ScoreType)]
           /\ pc' \in [Trials -> {"started", "lookup", "direct", "annotate",
                                  "config", "create", "done"}]
           /\ pc'[t] # "create"
           /\ \A u \in Trials \ {t} : pc'[u] = pc[u] /\ scores'[u] = scores[u]
           /\ Len(scores'[t]) = Len(scores[t]) + 1
           /\ \A i \in 1..Len(scores[t]) : scores'[t][i] = scores[t][i]
           /\ scores'[t][Len(scores[t]) + 1] =
                  [name |-> Current(t), trace |-> trace[t], config |-> config]
           /\ PhaseInv' /\ ScoresInv'
<1> DEFINE n == Len(scores[t])
           score == [name |-> Current(t), trace |-> trace[t], config |-> config]
<1>1. /\ scores[t] \in Seq(ScoreType) /\ n \in Nat /\ n < Len(Evaluations(t))
      /\ trace[t] # NoTrace /\ trace[t] \in Traces
  BY DEF IInv, TypeOK, PhaseInv, PhaseOf
<1>2. score \in ScoreType
  BY <1>1, CurrentType DEF IInv, ScoreType
<1>3. /\ scores' = [scores EXCEPT ![t] = Append(scores[t], score)]
      /\ pc' = [pc EXCEPT ![t] = AfterScore(t)]
      /\ trace' = trace
  BY DEF QueueScore, Goto, resolveVars
<1> HIDE DEF score
<1>4. /\ scores' \in [Trials -> Seq(ScoreType)]
      /\ scores'[t] = Append(scores[t], score)
      /\ \A u \in Trials \ {t} : scores'[u] = scores[u]
  BY <1>1, <1>2, <1>3 DEF IInv, TypeOK
<1>5. /\ Len(scores'[t]) = n + 1
      /\ \A i \in 1..n : scores'[t][i] = scores[t][i]
      /\ scores'[t][n + 1] = score
  BY <1>1, <1>2, <1>4
<1>6. /\ pc'[t] = IF n + 1 = Len(Evaluations(t)) THEN "done" ELSE "config"
      /\ \A u \in Trials \ {t} : pc'[u] = pc[u]
      /\ pc' \in [Trials -> {"started", "lookup", "direct", "annotate",
                             "config", "create", "done"}]
  BY <1>3, <1>5 DEF IInv, TypeOK, AfterScore
<1>7. PhaseOf(t)'
  <2>1. Len(Evaluations(t)) \in Nat
    BY EvaluationsCount
  <2> QED
    BY <1>1, <1>3, <1>5, <1>6, <2>1 DEF PhaseOf
<1>8. ScoresOf(t)'
  <2> SUFFICES ASSUME NEW i \in 1..n + 1
               PROVE  /\ trace[t] # NoTrace
                      /\ i <= Len(Evaluations(t))
                      /\ scores'[t][i].name = Evaluations(t)[i]
                      /\ scores'[t][i].trace = trace[t]
    BY <1>3, <1>5 DEF ScoresOf
  <2>1. CASE i = n + 1
    BY <1>1, <1>5, <2>1, EvaluationsType DEF score, Current
  <2>2. CASE i \in 1..n
    BY <1>5, <2>2 DEF IInv, ScoresInv, ScoresOf
  <2> QED
    BY <1>1, <2>1, <2>2
<1>9. PhaseInv' /\ ScoresInv'
  BY <1>3, <1>4, <1>6, <1>7, <1>8, OthersSame DEF PhaseInv, ScoresInv
<1> QED
  BY <1>4, <1>5, <1>6, <1>9 DEF score

\* What the score of t is sent with keeps MissingInv, if a missing id is that
\* of an evaluator the creation of whose config failed.
LEMMA MissingKept ==
    ASSUME IInv, NEW t \in Trials, NEW config, Current(t) \in Evaluators,
           Len(scores'[t]) = Len(scores[t]) + 1,
           \A u \in Trials \ {t} : scores'[u] = scores[u],
           \A i \in 1..Len(scores[t]) : scores'[t][i] = scores[t][i],
           scores'[t][Len(scores[t]) + 1] =
               [name |-> Current(t), trace |-> trace[t], config |-> config],
           refused \subseteq refused',
           config = NoConfig => Current(t) \in refused',
           \A e \in Evaluators : NoConfig \in scoreConfigs'[e] => e \in refused'
    PROVE  MissingInv'
<1> SUFFICES ASSUME NEW u \in Trials, NEW i \in 1..Len(scores'[u]),
                    scores'[u][i].config = NoConfig
             PROVE  scores'[u][i].name \in refused'
  BY DEF MissingInv
<1>1. CASE u # t
  BY <1>1 DEF IInv, MissingInv
<1>2. CASE u = t /\ i \in 1..Len(scores[t])
  BY <1>2 DEF IInv, MissingInv
<1>3. CASE u = t /\ i = Len(scores[t]) + 1
  BY <1>3
<1>4. Len(scores[t]) \in Nat
  BY DEF IInv, TypeOK
<1> QED
  BY <1>1, <1>2, <1>3, <1>4

\* The config is read: sent if there is one, created if there is none.
LEMMA ReadKeeps ==
    ASSUME IInv, NEW t \in Trials, ReadConfig(t) PROVE IInv'
<1> DEFINE e == Current(t)
<1>1. /\ pc[t] = "config" /\ e \in Evaluators
      /\ UNCHANGED <<agent, session, resolveVars, scoreConfigs, loaded, answered, refused,
                   serverVars>>
      /\ UNCHANGED <<lookups, trace, traceCache, stored, annotated>>
  BY CurrentType DEF ReadConfig, IInv, PhaseInv, PhaseOf, resolveVars, serverVars
<1>2. TraceInv'
  BY <1>1 DEF IInv, TraceInv, Own
<1>3. CASE scoreConfigs[e] = {} /\ StartCreation(t)
  <2> DEFINE racing == {u \in Trials : Creating(e, u)}
  <2>1. /\ pc' = [pc EXCEPT ![t] = "create"] /\ scores' = scores
        /\ overlap' = overlap \cup {<<e, t, u>> : u \in racing} \cup {<<e, u, t>> : u \in racing}
    BY <1>3 DEF StartCreation, Goto, Creating
  <2>2. /\ pc'[t] = "create" /\ \A u \in Trials \ {t} : pc'[u] = pc[u]
        /\ pc' \in [Trials -> {"started", "lookup", "direct", "annotate",
                               "config", "create", "done"}]
    BY <2>1 DEF IInv, TypeOK
  <2>3. TypeOK'
    <3>1. overlap' \subseteq Evaluators \X Trials \X Trials
      <4>1. overlap \subseteq Evaluators \X Trials \X Trials
        BY DEF IInv, TypeOK
      <4> QED
        BY <1>1, <2>1, <4>1
    <3> QED
      BY <1>1, <2>1, <2>2, <3>1 DEF IInv, TypeOK
  <2>4. PhaseInv' /\ ScoresInv'
    <3>1. PhaseOf(t)' /\ ScoresOf(t)'
      BY <1>1, <2>1, <2>2 DEF IInv, PhaseInv, PhaseOf, ScoresInv, ScoresOf
    <3> QED
      BY <1>1, <2>1, <2>2, <3>1, OthersSame DEF PhaseInv, ScoresInv
  <2>5. MissingInv'
    BY <1>1, <2>1 DEF IInv, MissingInv
  <2>6. RaceInv'
    <3>1. /\ \A f \in Evaluators : Creating(f, t)' => f = e
          /\ \A f \in Evaluators : \A u \in Trials \ {t} : Creating(f, u)' <=> Creating(f, u)
      BY <2>1, <2>2 DEF Creating, Current
    <3>2. \A u \in Trials : <<e, u>> \notin answered
      BY <1>3 DEF IInv, RaceInv
    <3>3. overlap \subseteq overlap' /\ \A u \in racing : <<e, t, u>> \in overlap' /\ <<e, u, t>> \in overlap'
      BY <2>1
    <3>4. /\ \A a \in answered : scoreConfigs[a[1]] # {}
          /\ \A f \in Evaluators : \A v, u \in Trials :
                v # u /\ Creating(f, v) /\ (Creating(f, u) \/ <<f, u>> \in answered) =>
                    <<f, v, u>> \in overlap /\ <<f, u, v>> \in overlap
          /\ OnlyRacersCreateTwice
          /\ \A f \in loaded : \A u \in Trials : ~Creating(f, u)
          /\ loaded \subseteq Evaluators
      BY DEF IInv, TypeOK, RaceInv
    <3>5. ASSUME NEW f \in Evaluators, NEW v \in Trials, NEW u \in Trials, v # u,
                 Creating(f, v)', Creating(f, u)' \/ <<f, u>> \in answered
          PROVE  <<f, v, u>> \in overlap' /\ <<f, u, v>> \in overlap'
      <4>1. CASE v # t /\ u # t
        BY <3>1, <3>3, <3>4, <3>5, <4>1
      <4>2. CASE v = t
        BY <3>1, <3>2, <3>3, <3>5, <4>2
      <4>3. CASE u = t
        BY <3>1, <3>3, <3>4, <3>5, <4>3
      <4> QED
        BY <4>1, <4>2, <4>3
    <3>6. OnlyRacersCreateTwice'
      BY <1>1, <3>3, <3>4 DEF OnlyRacersCreateTwice
    <3>7. e \notin loaded
      BY <1>3, <3>4 DEF OnlyRacersCreateTwice
    <3>8. \A f \in loaded : \A u \in Trials : ~Creating(f, u)'
      BY <3>1, <3>4, <3>7
    <3> QED
      BY <1>1, <3>4, <3>5, <3>6, <3>8 DEF RaceInv
  <2> QED
    BY <1>2, <2>3, <2>4, <2>5, <2>6 DEF IInv
<1>4. ASSUME NEW config \in scoreConfigs[e], QueueScore(t, config), UNCHANGED overlap
      PROVE  IInv'
  <2>1. config \in Configs \cup {NoConfig} /\ (config = NoConfig => e \in refused)
    BY <1>1, <1>4 DEF IInv, TypeOK, MissingInv
  <2>2. /\ scores' \in [Trials -> Seq(ScoreType)]
        /\ pc' \in [Trials -> {"started", "lookup", "direct", "annotate",
                               "config", "create", "done"}]
        /\ pc'[t] # "create"
        /\ \A u \in Trials \ {t} : pc'[u] = pc[u] /\ scores'[u] = scores[u]
        /\ Len(scores'[t]) = Len(scores[t]) + 1
        /\ \A i \in 1..Len(scores[t]) : scores'[t][i] = scores[t][i]
        /\ scores'[t][Len(scores[t]) + 1] =
               [name |-> Current(t), trace |-> trace[t], config |-> config]
        /\ PhaseInv' /\ ScoresInv'
    BY <1>1, <1>4, <2>1, QueueScoreAppends
  <2>3. TypeOK'
    BY <1>1, <1>4, <2>2 DEF IInv, TypeOK
  <2>4. MissingInv'
    <3>1. \A f \in Evaluators : NoConfig \in scoreConfigs'[f] => f \in refused'
      BY <1>1 DEF IInv, MissingInv
    <3> QED
      BY <1>1, <2>1, <2>2, <3>1, MissingKept
  <2>5. RaceInv'
    <3>1. /\ \A f : ~Creating(f, t)'
          /\ \A f : \A u \in Trials \ {t} : Creating(f, u)' <=> Creating(f, u)
      BY <2>2, CreatingSame DEF Creating
    <3> QED
      BY <1>1, <1>4, <3>1 DEF IInv, RaceInv, OnlyRacersCreateTwice
  <2> QED
    BY <1>2, <2>2, <2>3, <2>4, <2>5 DEF IInv
<1> QED
  BY <1>3, <1>4 DEF ReadConfig

\* The creation is answered, with an id or without, or it is not.
LEMMA AnswerKeeps ==
    ASSUME IInv, NEW t \in Trials, ConfigAnswered(t) \/ ConfigUnanswered(t) PROVE IInv'
<1> DEFINE e == Current(t)
<1>1. /\ pc[t] = "create" /\ e \in Evaluators
      /\ UNCHANGED <<agent, session, resolveVars, loaded, overlap, serverVars>>
      /\ UNCHANGED <<lookups, trace, traceCache, stored, annotated>>
  BY CurrentType DEF ConfigAnswered, ConfigUnanswered, IInv, PhaseInv, PhaseOf, resolveVars,
     serverVars
<1>2. PICK config \in {<<e, t>>, NoConfig} :
        /\ QueueScore(t, config)
        /\ refused' = IF config = NoConfig THEN refused \cup {e} ELSE refused
        /\ \/ UNCHANGED <<scoreConfigs, answered>>
           \/ /\ scoreConfigs' = [scoreConfigs EXCEPT ![e] = {config}]
              /\ answered' = answered \cup {<<e, t>>}
  BY DEF ConfigAnswered, ConfigUnanswered, CacheConfig
<1>3. <<e, t>> \in Configs /\ config \in Configs \cup {NoConfig}
  BY <1>1, <1>2 DEF Configs
<1>4. /\ scores' \in [Trials -> Seq(ScoreType)]
      /\ pc' \in [Trials -> {"started", "lookup", "direct", "annotate",
                             "config", "create", "done"}]
      /\ pc'[t] # "create"
      /\ \A u \in Trials \ {t} : pc'[u] = pc[u] /\ scores'[u] = scores[u]
      /\ Len(scores'[t]) = Len(scores[t]) + 1
      /\ \A i \in 1..Len(scores[t]) : scores'[t][i] = scores[t][i]
      /\ scores'[t][Len(scores[t]) + 1] =
             [name |-> Current(t), trace |-> trace[t], config |-> config]
      /\ PhaseInv' /\ ScoresInv'
  BY <1>1, <1>2, <1>3, QueueScoreAppends
<1>5. scoreConfigs \in [Evaluators -> SUBSET (Configs \cup {NoConfig})]
  BY DEF IInv, TypeOK
<1>6. /\ scoreConfigs' \in [Evaluators -> SUBSET (Configs \cup {NoConfig})]
      /\ answered \subseteq answered' /\ answered' \subseteq answered \cup {<<e, t>>}
      /\ \A f \in Evaluators : scoreConfigs[f] # {} => scoreConfigs'[f] # {}
      /\ <<e, t>> \in answered' => <<e, t>> \in answered \/ scoreConfigs'[e] # {}
      /\ \A f \in Evaluators : NoConfig \in scoreConfigs'[f] =>
             NoConfig \in scoreConfigs[f] \/ (f = e /\ config = NoConfig)
  BY <1>1, <1>2, <1>3, <1>5
<1>7. TypeOK'
  <2>1. /\ answered \subseteq Evaluators \X Trials
        /\ refused \subseteq Evaluators
    BY DEF IInv, TypeOK
  <2>2. /\ answered' \subseteq Evaluators \X Trials
        /\ refused' \subseteq Evaluators
    BY <1>1, <1>2, <1>6, <2>1
  <2> QED
    BY <1>1, <1>4, <1>6, <2>2 DEF IInv, TypeOK
<1>8. TraceInv'
  BY <1>1 DEF IInv, TraceInv, Own
<1>9. MissingInv'
  <2>1. \A f \in Evaluators : NoConfig \in scoreConfigs'[f] => f \in refused'
    BY <1>2, <1>6 DEF IInv, MissingInv
  <2> QED
    BY <1>1, <1>2, <1>4, <2>1, MissingKept
<1>10. RaceInv'
  <2>1. /\ \A f : ~Creating(f, t)'
        /\ \A f : \A u \in Trials \ {t} : Creating(f, u)' <=> Creating(f, u)
    BY <1>4, CreatingSame DEF Creating
  <2>2. Creating(e, t)
    BY <1>1 DEF Creating
  <2>3. /\ \A a \in answered : a[1] \in Evaluators /\ a[2] \in Trials /\ a = <<a[1], a[2]>>
    BY DEF IInv, TypeOK
  <2>4. /\ \A a \in answered : scoreConfigs[a[1]] # {}
        /\ \A f \in Evaluators : \A v, u \in Trials :
              v # u /\ Creating(f, v) /\ (Creating(f, u) \/ <<f, u>> \in answered) =>
                  <<f, v, u>> \in overlap /\ <<f, u, v>> \in overlap
        /\ OnlyRacersCreateTwice
        /\ \A f \in loaded : \A u \in Trials : ~Creating(f, u)
    BY DEF IInv, RaceInv
  <2>5. \A a \in answered' : scoreConfigs'[a[1]] # {}
    BY <1>6, <2>3, <2>4
  <2>6. ASSUME NEW f \in Evaluators, NEW v \in Trials, NEW u \in Trials, v # u,
               Creating(f, v)', Creating(f, u)' \/ <<f, u>> \in answered'
        PROVE  <<f, v, u>> \in overlap /\ <<f, u, v>> \in overlap
    <3>1. v # t /\ Creating(f, v)
      BY <2>1, <2>6
    <3>2. Creating(f, u) \/ <<f, u>> \in answered
      BY <1>6, <2>1, <2>2, <2>6
    <3> QED
      BY <2>3, <2>4, <2>6, <3>1, <3>2
  <2>7. OnlyRacersCreateTwice'
    <3>1. e \notin loaded
      BY <2>2, <2>3, <2>4
    <3>2. \A a \in answered' : a[1] \notin loaded'
      BY <1>1, <1>6, <2>3, <2>4, <3>1 DEF OnlyRacersCreateTwice
    <3>3. \A f \in loaded' : scoreConfigs'[f] = {<<f, 0>>}
      <4>1. \A f \in loaded : f \in Evaluators /\ f # e /\ scoreConfigs[f] = {<<f, 0>>}
        BY <2>3, <2>4, <3>1 DEF OnlyRacersCreateTwice, IInv, TypeOK
      <4> QED
        BY <1>1, <1>2, <1>5, <4>1
    <3> SUFFICES ASSUME NEW a \in answered', NEW b \in answered', a[1] = b[1], a[2] # b[2]
                 PROVE  <<a[1], a[2], b[2]>> \in overlap
      BY <1>1, <3>2, <3>3 DEF OnlyRacersCreateTwice
    <3>4. CASE a \in answered /\ b \in answered
      BY <2>3, <2>4, <3>4 DEF OnlyRacersCreateTwice
    <3>5. CASE a = <<e, t>> /\ b \in answered
      BY <1>1, <2>2, <2>3, <2>4, <3>5
    <3>6. CASE a \in answered /\ b = <<e, t>>
      BY <1>1, <2>2, <2>3, <2>4, <3>6
    <3>7. CASE a = <<e, t>> /\ b = <<e, t>>
      BY <3>7
    <3> QED
      BY <1>6, <3>4, <3>5, <3>6, <3>7
  <2>8. \A f \in loaded : \A u \in Trials : ~Creating(f, u)'
    BY <2>1, <2>3, <2>4
  <2> QED
    BY <1>1, <2>5, <2>6, <2>7, <2>8 DEF RaceInv
<1> QED
  BY <1>4, <1>7, <1>8, <1>9, <1>10 DEF IInv

\* Every step keeps the invariant.
LEMMA StepInv == IInv /\ [Next]_vars => IInv'
<1> SUFFICES ASSUME IInv, [Next]_vars PROVE IInv'
  OBVIOUS
<1>1. ASSUME NEW t \in Trials, Step(t) PROVE IInv'
  BY <1>1, FinishKeeps, LookupKeeps, DirectKeeps, AnnotateKeeps, ReadKeeps, AnswerKeeps DEF Step
<1>2. ASSUME NEW s \in Sessions, PluginExports(s) PROVE IInv'
  BY <1>2, ExportKeeps
<1>3. CASE UNCHANGED vars
  <2> USE <1>3 DEF vars, resolveVars, configVars, serverVars, IInv
  <2>1. TypeOK'
    BY DEF TypeOK
  <2>2. TraceInv'
    BY DEF TraceInv, Own
  <2>3. PhaseInv' /\ ScoresInv'
    BY DEF PhaseInv, PhaseOf, ScoresInv, ScoresOf
  <2>4. MissingInv' /\ RaceInv'
    BY ScoresUntouched
  <2> QED
    BY <2>1, <2>2, <2>3, <2>4
<1> QED
  BY <1>1, <1>2, <1>3 DEF Next, AllFinished

-----------------------------------------------------------------------------
(* The theorems. *)

\* IInv holds in every reachable state.
THEOREM Invariance == Spec => []IInv
  BY InitInv, StepInv, PTL DEF Spec

\* The state of the adapter and of the server has its types.
THEOREM TypeCorrect == Spec => []TypeOK
<1>1. IInv => TypeOK
  BY DEF IInv
<1> QED
  BY <1>1, Invariance, PTL

\* FinishTrial writes the annotation and the scores of a trial to its own trace
\* and only when the server has that, whatever the lookups answer.
THEOREM OwnTraceOnly == Spec => []OwnTrace
<1>1. IInv => OwnTrace
  <2> SUFFICES ASSUME IInv PROVE OwnTrace
    OBVIOUS
  <2>1. ASSUME NEW t \in Trials, NEW i \in DOMAIN scores[t]
        PROVE  scores[t][i].trace = Own(t) /\ Own(t) \in stored
    <3>1. i \in 1..Len(scores[t])
      BY DEF IInv, TypeOK
    <3> QED
      BY <3>1 DEF IInv, ScoresInv, ScoresOf, TraceInv
  <2>2. \A a \in annotated : a[2] = Own(a[1]) /\ a[2] \in stored
    BY DEF IInv, TraceInv
  <2> QED
    BY <2>1, <2>2 DEF OwnTrace
<1> QED
  BY <1>1, Invariance, PTL

\* A trial that is done has one score per evaluation, in their order, if it
\* has a trace, and no score if it has none.
THEOREM EveryEvaluationScored == Spec => []AllScored
<1>1. IInv => AllScored
  <2> SUFFICES ASSUME IInv, NEW t \in Trials, pc[t] = "done"
               PROVE  [i \in DOMAIN scores[t] |-> scores[t][i].name] =
                          IF trace[t] = NoTrace THEN << >> ELSE Evaluations(t)
    BY DEF AllScored
  <2>1. scores[t] \in Seq(ScoreType) /\ DOMAIN scores[t] = 1..Len(scores[t])
    BY DEF IInv, TypeOK
  <2>2. Len(scores[t]) = IF trace[t] = NoTrace THEN 0 ELSE Len(Evaluations(t))
    BY DEF IInv, PhaseInv, PhaseOf
  <2>3. \A i \in 1..Len(scores[t]) : scores[t][i].name = Evaluations(t)[i]
    BY DEF IInv, ScoresInv, ScoresOf
  <2>4. CASE trace[t] = NoTrace
    BY <2>1, <2>2, <2>4
  <2>5. CASE trace[t] # NoTrace
    <3>1. Evaluations(t) = [i \in 1..Len(Evaluations(t)) |-> Evaluations(t)[i]]
      BY EvaluationsType
    <3> QED
      BY <2>1, <2>2, <2>3, <2>5, <3>1
  <2> QED
    BY <2>4, <2>5
<1> QED
  BY <1>1, Invariance, PTL

\* Two trials cache a score config of their own for one evaluator only if both
\* were waiting for theirs at once; a loaded one stays, and nobody caches
\* another for its evaluator.
THEOREM OnlyRacers == Spec => []OnlyRacersCreateTwice
<1>1. IInv => OnlyRacersCreateTwice
  BY DEF IInv, RaceInv
<1> QED
  BY <1>1, Invariance, PTL

\* A score goes out without a config id only for an evaluator the creation of
\* whose config failed.
THEOREM OnlyFailuresMissing == Spec => []MissingOnlyAfterFailure
<1>1. IInv => MissingOnlyAfterFailure
  <2>1. IInv => \A t \in Trials : DOMAIN scores[t] = 1..Len(scores[t])
    BY DEF IInv, TypeOK
  <2> QED
    BY <2>1 DEF IInv, MissingInv, MissingOnlyAfterFailure
<1> QED
  BY <1>1, Invariance, PTL
=============================================================================
