----------------------------- MODULE MLflowTrial -----------------------------
(***************************************************************************)
(* MLflowAdapter: the experiment of a scenario, found or created by the    *)
(* first of its trials, the tracer provider of an experiment, and the      *)
(* spans FinishTrial ends and flushes. StartTrial and FinishTrial run in   *)
(* the goroutines of the trials; the mutex guards the maps and is not held *)
(* during a request.                                                       *)
(*                                                                         *)
(* External: the tracking server, which keeps the names of experiments     *)
(* unique, and OpenTelemetry's batching span processor, which exports what *)
(* it has queued on a timer or when flushed, drops a batch it cannot       *)
(* export, and drops a span when its queue is full. A batch that arrived   *)
(* and was not answered counts as delivered: what the SDK thinks of it     *)
(* changes nothing in this program. An experiment is identified with the   *)
(* scenario it is named for: the rest of its name is the same for the      *)
(* whole run.                                                              *)
(***************************************************************************)
EXTENDS Integers, FiniteSets

CONSTANTS
    Trials,
    Scenarios,
    ScenarioOf,   \* ScenarioOf[t]
    SpansOf,      \* SpansOf[t]: the steps and evaluations of t
    QueueSize,    \* spans the queue of a provider holds
    NoExperiment

ASSUME TrialsAssumption ==
    /\ ScenarioOf \in [Trials -> Scenarios]
    /\ SpansOf \in [Trials -> Nat]
    /\ QueueSize \in Nat
    /\ NoExperiment \notin Scenarios

\* Span 0 is the root, which FinishTrial ends after the others.
Spans(t) == {<<t, i>> : i \in 0..SpansOf[t]}
AllSpans == UNION {Spans(t) : t \in Trials}

VARIABLES
    pc,             \* pc[t]
    experiments,    \* server: the experiments it has
    experimentIDs,  \* the keys of the cache; a key stands for its id
    experiment,     \* experiment[t]: ExperimentID of traces[t]
    tps,            \* the experiments with a tracer provider
    ended,          \* ended[t]: the number of spans of t that have ended
    queue,          \* queue[e]: spans ended and not exported
    delivered,      \* server: <<span, experiment>>
    dropped,        \* spans that were not exported
    failures        \* history: trials a request or provider of which failed

experimentVars == <<experiments, experimentIDs, experiment>>
spanVars == <<tps, ended, queue, delivered, dropped>>
vars == <<pc, experimentVars, spanVars, failures>>

TypeOK ==
    /\ pc \in [Trials -> {"new", "creating", "searching", "running",
                          "ending", "flushing", "done"}]
    /\ experiments \subseteq Scenarios
    /\ experimentIDs \in [Scenarios -> Scenarios \cup {NoExperiment}]
    /\ experiment \in [Trials -> Scenarios \cup {NoExperiment}]
    /\ tps \subseteq Scenarios
    /\ ended \in [Trials -> Nat]
    /\ \A t \in Trials : ended[t] <= SpansOf[t] + 1
    /\ queue \in [Scenarios -> SUBSET AllSpans]
    /\ delivered \subseteq AllSpans \X Scenarios
    /\ dropped \subseteq AllSpans
    /\ failures \subseteq Trials

Init ==
    /\ pc = [t \in Trials |-> "new"]
    /\ experiments = {}
    /\ experimentIDs = [s \in Scenarios |-> NoExperiment]
    /\ experiment = [t \in Trials |-> NoExperiment]
    /\ tps = {}
    /\ ended = [t \in Trials |-> 0]
    /\ queue = [s \in Scenarios |-> {}]
    /\ delivered = {} /\ dropped = {} /\ failures = {}

Goto(t, place) == pc' = [pc EXCEPT ![t] = place]

-----------------------------------------------------------------------------
(* StartTrial: ensureExperiment, then the entry in `traces`. *)

\* The end of StartTrial with the id of an experiment.
Trace(t, e) ==
    /\ experiment' = [experiment EXCEPT ![t] = e]
    /\ Goto(t, "running")
    /\ UNCHANGED failures

CacheAndTrace(t, e) ==
    /\ experimentIDs' = [experimentIDs EXCEPT ![ScenarioOf[t]] = e]
    /\ Trace(t, e)

\* StartTrial returns on an error without an entry; the trial runs all the same.
LeaveUntraced(t) ==
    /\ failures' = failures \cup {t}
    /\ Goto(t, "running")
    /\ UNCHANGED <<experimentIDs, experiment>>

\* ensureExperiment up to its request.
StartTrial(t) ==
    /\ pc[t] = "new"
    /\ LET e == experimentIDs[ScenarioOf[t]]
       IN  \/ e # NoExperiment /\ Trace(t, e)
           \/ e = NoExperiment /\ Goto(t, "creating") /\ UNCHANGED <<experiment, failures>>
    /\ UNCHANGED <<experiments, experimentIDs, spanVars>>

\* As if the name being taken were an error like any other.
ReportTaken(t) ==
    /\ Goto(t, "running")
    /\ UNCHANGED <<experimentIDs, experiment, failures>>

\* RESOURCE_ALREADY_EXISTS: another trial was first, or the answer to an
\* earlier creation was lost.
NameTaken(t) ==
    /\ Goto(t, "searching")
    /\ UNCHANGED <<experimentIDs, experiment, failures>>

CreateExperiment(t) ==
    /\ pc[t] = "creating"
    /\ LET s == ScenarioOf[t]
       IN  \/ \* created, with or without an answer
              /\ s \notin experiments
              /\ experiments' = experiments \cup {s}
              /\ CacheAndTrace(t, s) \/ LeaveUntraced(t)
           \/ /\ s \in experiments
              /\ NameTaken(t)
              /\ UNCHANGED experiments
           \/ /\ LeaveUntraced(t)
              /\ UNCHANGED experiments
    /\ UNCHANGED spanVars

\* As if the search had no filter.
MatchesAny(t) == experiments

\* filter: name = '...'
Matches(t) == experiments \cap {ScenarioOf[t]}

\* getExperimentByName
GetExperimentByName(t) ==
    /\ pc[t] = "searching"
    /\ \/ \E e \in Matches(t) : CacheAndTrace(t, e)
       \/ LeaveUntraced(t)
    /\ UNCHANGED <<experiments, spanVars>>

-----------------------------------------------------------------------------
(* FinishTrial. *)

\* Under the mutex; a provider that cannot be made ends FinishTrial.
GetOrCreateTracerProvider(t) ==
    \/ /\ tps' = tps \cup {experiment[t]}
       /\ Goto(t, "ending")
       /\ UNCHANGED failures
    \/ /\ experiment[t] \notin tps
       /\ failures' = failures \cup {t}
       /\ Goto(t, "done")
       /\ UNCHANGED tps

\* The entry is taken out of `traces`, and the provider looked for.
FinishTrial(t) ==
    /\ pc[t] = "running"
    /\ \/ /\ experiment[t] = NoExperiment
          /\ Goto(t, "done")
          /\ UNCHANGED <<tps, failures>>
       \/ /\ experiment[t] # NoExperiment
          /\ GetOrCreateTracerProvider(t)
    /\ UNCHANGED <<experimentVars, ended, queue, delivered, dropped>>

\* As if the flush came before the end of the root span.
AllEndedButRoot(t) == ended'[t] = SpansOf[t]

AllEnded(t) == ended'[t] = SpansOf[t] + 1

\* What the span processor does with a span that has ended.
Enqueue(span, e) ==
    \/ /\ Cardinality(queue[e]) < QueueSize
       /\ queue' = [queue EXCEPT ![e] = @ \cup {span}]
       /\ UNCHANGED dropped
    \/ /\ Cardinality(queue[e]) >= QueueSize
       /\ dropped' = dropped \cup {span}
       /\ UNCHANGED queue

\* emitStepSpan and emitEvalSpan in turn, then End of the root.
EndSpan(t) ==
    /\ pc[t] = "ending"
    /\ ended' = [ended EXCEPT ![t] = @ + 1]
    /\ Enqueue(<<t, IF ended[t] = SpansOf[t] THEN 0 ELSE ended[t] + 1>>, experiment[t])
    /\ Goto(t, IF AllEnded(t) THEN "flushing" ELSE "ending")
    /\ UNCHANGED <<experimentVars, tps, delivered, failures>>

\* The queue of a provider is sent, or lost when the server does not take it.
ExportBatch(e) ==
    /\ queue' = [queue EXCEPT ![e] = {}]
    /\ \/ delivered' = delivered \cup {<<span, e>> : span \in queue[e]} /\ UNCHANGED dropped
       \/ dropped' = dropped \cup queue[e] /\ UNCHANGED delivered

\* The timer of the batch, the ForceFlush of another trial, or Flush.
ExportInBackground(e) ==
    /\ queue[e] # {}
    /\ ExportBatch(e)
    /\ UNCHANGED <<pc, experimentVars, tps, ended, failures>>

\* tp.ForceFlush, the last statement of FinishTrial.
ForceFlush(t) ==
    /\ pc[t] = "flushing"
    /\ ExportBatch(experiment[t])
    /\ Goto(t, "done")
    /\ UNCHANGED <<experimentVars, tps, ended, failures>>

-----------------------------------------------------------------------------

AllDone == (\A t \in Trials : pc[t] = "done") /\ UNCHANGED vars

Next ==
    \/ \E t \in Trials :
           \/ StartTrial(t) \/ CreateExperiment(t) \/ GetExperimentByName(t)
           \/ FinishTrial(t) \/ EndSpan(t) \/ ForceFlush(t)
    \/ \E e \in Scenarios : ExportInBackground(e)
    \/ AllDone

Spec == Init /\ [][Next]_vars

-----------------------------------------------------------------------------
(* Properties. *)

\* All trials of a scenario are recorded in its one experiment, whichever of
\* them created it, found it in the cache or lost the race and searched.
SpansInOwnExperiment ==
    /\ \A d \in delivered : d[2] = ScenarioOf[d[1][1]]
    /\ \A t \in Trials : experiment[t] # NoExperiment => experiment[t] \in experiments

\* A trial goes unrecorded only when a request of its own failed: neither
\* losing the race for the experiment nor a lost answer to another trial's
\* creation costs it its trace.
UnrecordedOnlyAfterFailure ==
    \A t \in Trials : pc[t] = "done" /\ t \notin failures => ended[t] = SpansOf[t] + 1

\* When FinishTrial returns nothing of its trial is left in a queue, the root
\* included: every span was exported once or given up, so the end of the
\* program loses none.
NothingLeftBehind ==
    \A t \in Trials : pc[t] = "done" /\ ended[t] > 0 =>
        \A span \in Spans(t) :
            (\E e \in Scenarios : <<span, e>> \in delivered) # (span \in dropped)
=============================================================================
