---------------------------- MODULE LangfuseTrial ----------------------------
(***************************************************************************)
(* What LangfuseAdapter.FinishTrial does for one trial before its events   *)
(* are in the queue (LangfuseQueue): find or create the trace, annotate    *)
(* it, and give every evaluation a score config. The goroutines of the     *)
(* trials run it at the same time on two maps, the cache of traces and the *)
(* cache of score configs, and hold the mutex only to read or write a map, *)
(* never during a request.                                                 *)
(*                                                                         *)
(* The server and the agent's plugin are external: a request may fail at   *)
(* any time, the plugin's trace of a session arrives late or never, and a  *)
(* lookup may return another session's observation (langfuse#15636).       *)
(***************************************************************************)
EXTENDS Integers, Sequences, FiniteSets

CONSTANTS
    N,           \* trials
    S,           \* agent sessions
    Graded,      \* the trials whose scenario has an expected output
    MaxLookups   \* attempts of resolveTrace, 10 in the code

ASSUME TrialAssumption ==
    /\ N \in Nat
    /\ S \in Nat
    /\ Graded \subseteq 1..N
    /\ MaxLookups \in Nat \ {0}

Trials == 1..N
Sessions == 1..S
NoSession == 0

\* RunEvaluations: every evaluation has a score, and accuracy is evaluated
\* when the scenario says what to expect.
Evaluators == {"completion", "non_empty", "accuracy"}
Evaluations(t) ==
    <<"completion", "non_empty">> \o (IF t \in Graded THEN <<"accuracy">> ELSE << >>)

NoTrace == <<"none", 0>>
PluginTrace(s) == <<"session", s>>
DirectTrace(t) == <<"trial", t>>
Traces == {PluginTrace(s) : s \in Sessions} \cup {DirectTrace(t) : t \in Trials}

\* A config is named by the evaluator and the trial whose request made it;
\* 0 is a config that was there before the run. NoConfig is the empty id.
NoConfig == <<"", 0>>
Configs == Evaluators \X (0..N)

VARIABLES
    agent,          \* the adapter of the run
    session,        \* session[t]: the session id the agent printed
    pc,             \* pc[t]
    lookups,        \* lookups[t]: `attempt` of resolveTrace
    trace,          \* trace[t]: `resolved`
    traceCache,     \* traceCache[s]: NoTrace when the map has no entry
    scoreConfigs,   \* scoreConfigs[e]: a set with the id, empty without entry
    loaded,         \* history: the evaluators whose config was loaded
    scores,         \* scores[t]: the score-create events of t, in order
    stored,         \* server: the traces it has
    annotated,      \* server: <<t, trace>> for the annotations it took
    overlap,        \* history: <<e, t, u>> when t and u both created e's config
    answered,       \* history: <<e, t>> when the answer to t was cached
    refused         \* history: evaluators a creation of whose config failed

resolveVars == <<lookups, trace, traceCache>>
configVars == <<scoreConfigs, loaded, scores, overlap, answered, refused>>
serverVars == <<stored, annotated>>
vars == <<agent, session, pc, resolveVars, configVars, serverVars>>

ScoreType == [name : Evaluators, trace : Traces, config : Configs \cup {NoConfig}]

TypeOK ==
    /\ agent \in {"claude", "opencode", "other"}
    /\ session \in [Trials -> Sessions \cup {NoSession}]
    /\ pc \in [Trials -> {"started", "lookup", "direct", "annotate", "config", "create", "done"}]
    /\ lookups \in [Trials -> 0..MaxLookups - 1]
    /\ trace \in [Trials -> Traces \cup {NoTrace}]
    /\ traceCache \in [Sessions -> Traces \cup {NoTrace}]
    /\ scoreConfigs \in [Evaluators -> SUBSET (Configs \cup {NoConfig})]
    /\ loaded \subseteq Evaluators
    /\ scores \in [Trials -> Seq(ScoreType)]
    /\ stored \subseteq Traces
    /\ annotated \subseteq Trials \X Traces
    /\ overlap \subseteq Evaluators \X Trials \X Trials
    /\ answered \subseteq Evaluators \X Trials
    /\ refused \subseteq Evaluators

\* loadScoreConfigs: some configs are on the server, and the request gets some
\* of them, at most one page, or nothing.
LoadScoreConfigs ==
    /\ loaded \in SUBSET Evaluators
    /\ scoreConfigs = [e \in Evaluators |-> IF e \in loaded THEN {<<e, 0>>} ELSE {}]

Init ==
    /\ agent \in {"claude", "opencode", "other"}
    /\ session \in [Trials -> Sessions \cup {NoSession}]
    /\ pc = [t \in Trials |-> "started"]
    /\ lookups = [t \in Trials |-> 0]
    /\ trace = [t \in Trials |-> NoTrace]
    /\ traceCache = [s \in Sessions |-> NoTrace]
    /\ LoadScoreConfigs
    /\ scores = [t \in Trials |-> << >>]
    /\ stored = {} /\ annotated = {}
    /\ overlap = {} /\ answered = {} /\ refused = {}

Goto(t, place) == pc' = [pc EXCEPT ![t] = place]

-----------------------------------------------------------------------------
(* resolveTrace and createDirectTrace. *)

\* The plugin of opencode exports the trace of its session on its own.
PluginExports(s) ==
    /\ agent = "opencode"
    /\ PluginTrace(s) \notin stored
    /\ \E t \in Trials : session[t] = s
    /\ stored' = stored \cup {PluginTrace(s)}
    /\ UNCHANGED <<agent, session, pc, resolveVars, configVars, annotated>>

\* FinishTrial up to the first request. The removal of the context and the
\* read of the cache are two critical sections, but the first concerns no
\* other trial.
FinishTrial(t) ==
    /\ pc[t] = "started"
    /\ \/ /\ agent = "claude"
          /\ Goto(t, "direct")
          /\ UNCHANGED trace
       \/ /\ agent # "claude"
          /\ session[t] = NoSession
          /\ Goto(t, "done")
          /\ UNCHANGED trace
       \/ /\ agent # "claude"
          /\ session[t] # NoSession
          /\ trace' = [trace EXCEPT ![t] = traceCache[session[t]]]
          /\ Goto(t, IF trace'[t] = NoTrace THEN "lookup" ELSE "annotate")
    /\ UNCHANGED <<agent, session, lookups, traceCache, configVars, serverVars>>

\* As if the session of the observation were not compared.
AcceptAny(t, found) == found # NoTrace

\* lookupTraceBySession takes an observation only when it is the session's.
Accept(t, found) == found = PluginTrace(session[t])

GiveUp(t) == lookups[t] + 1 >= MaxLookups

\* As if a failed attempt were not counted.
KeepCount(t) == UNCHANGED lookups

CountLookup(t) == lookups' = [lookups EXCEPT ![t] = @ + 1]

\* One attempt of resolveTrace; `found` is what the first observation of the
\* answer belongs to, NoTrace when there is no answer or no observation.
LookupTrace(t) ==
    /\ pc[t] = "lookup"
    /\ \E found \in stored \cup {NoTrace} :
        \/ /\ Accept(t, found)
           /\ trace' = [trace EXCEPT ![t] = found]
           /\ traceCache' = [traceCache EXCEPT ![session[t]] = found]
           /\ Goto(t, "annotate")
           /\ UNCHANGED lookups
        \/ /\ ~Accept(t, found)
           /\ IF GiveUp(t)
              THEN Goto(t, "done") /\ UNCHANGED lookups
              ELSE CountLookup(t) /\ UNCHANGED pc
           /\ UNCHANGED <<trace, traceCache>>
    /\ UNCHANGED <<agent, session, configVars, serverVars>>

\* The outcomes of sendOTLP: a request whose answer is lost has its effect.
Sends == [arrives : BOOLEAN, answered : BOOLEAN] \ {[arrives |-> FALSE, answered |-> TRUE]}

CreateDirectTrace(t) ==
    /\ pc[t] = "direct"
    /\ \E send \in Sends :
        /\ stored' = IF send.arrives THEN stored \cup {DirectTrace(t)} ELSE stored
        /\ \/ /\ send.answered
              /\ trace' = [trace EXCEPT ![t] = DirectTrace(t)]
              /\ Goto(t, "annotate")
           \/ /\ ~send.answered
              /\ Goto(t, "done")
              /\ UNCHANGED trace
    /\ UNCHANGED <<agent, session, lookups, traceCache, configVars, annotated>>

\* annotateTrace; FinishTrial goes on whatever sendOTLP returns.
AnnotateTrace(t) ==
    /\ pc[t] = "annotate"
    /\ \E send \in Sends :
        annotated' = IF send.arrives THEN annotated \cup {<<t, trace[t]>>} ELSE annotated
    /\ Goto(t, "config")
    /\ UNCHANGED <<agent, session, resolveVars, configVars, stored>>

-----------------------------------------------------------------------------
(* addScore and ensureScoreConfig. *)

Current(t) == Evaluations(t)[Len(scores[t]) + 1]

\* As if the loop of FinishTrial ended before the last evaluation.
AfterScoreEarly(t) == IF Len(scores'[t]) >= 2 THEN "done" ELSE "config"

AfterScore(t) == IF Len(scores'[t]) = Len(Evaluations(t)) THEN "done" ELSE "config"

\* The rest of addScore: the event is in the batch, the next evaluation next.
QueueScore(t, config) ==
    /\ scores' = [scores EXCEPT ![t] =
                      Append(@, [name |-> Current(t), trace |-> trace[t], config |-> config])]
    /\ Goto(t, AfterScore(t))

\* As if a name without entry had the empty id, like a Go map read unchecked.
ReadUnchecked(t) ==
    /\ QueueScore(t, NoConfig)
    /\ UNCHANGED overlap

\* The request is about to be sent. Nothing marks the name as being created.
StartCreation(t) ==
    /\ Goto(t, "create")
    /\ LET e == Current(t)
           racing == {u \in Trials : pc[u] = "create" /\ Current(u) = e}
       IN  overlap' = overlap \cup {<<e, t, u>> : u \in racing} \cup {<<e, u, t>> : u \in racing}
    /\ UNCHANGED scores

\* ensureScoreConfig up to its request.
ReadConfig(t) ==
    /\ pc[t] = "config"
    /\ \/ /\ scoreConfigs[Current(t)] = {}
          /\ StartCreation(t)
       \/ \E config \in scoreConfigs[Current(t)] :
              QueueScore(t, config) /\ UNCHANGED overlap
    /\ UNCHANGED <<agent, session, resolveVars, scoreConfigs, loaded, answered, refused,
                   serverVars>>

\* As if the id were returned and not kept.
ForgetConfig(e, config) == UNCHANGED scoreConfigs

CacheConfig(e, config) == scoreConfigs' = [scoreConfigs EXCEPT ![e] = {config}]

\* The answer has a JSON body. The status is not looked at: an error without
\* an id in its body leaves the empty id in the cache.
ConfigAnswered(t) ==
    /\ pc[t] = "create"
    /\ \E config \in {<<Current(t), t>>, NoConfig} :
        /\ CacheConfig(Current(t), config)
        /\ refused' = IF config = NoConfig THEN refused \cup {Current(t)} ELSE refused
        /\ answered' = answered \cup {<<Current(t), t>>}
        /\ QueueScore(t, config)
    /\ UNCHANGED <<agent, session, resolveVars, loaded, overlap, serverVars>>

\* No answer, or none that can be decoded: nothing is cached.
ConfigUnanswered(t) ==
    /\ pc[t] = "create"
    /\ refused' = refused \cup {Current(t)}
    /\ QueueScore(t, NoConfig)
    /\ UNCHANGED <<agent, session, resolveVars, scoreConfigs, loaded, overlap, answered,
                   serverVars>>

-----------------------------------------------------------------------------

Step(t) ==
    \/ FinishTrial(t) \/ LookupTrace(t) \/ CreateDirectTrace(t) \/ AnnotateTrace(t)
    \/ ReadConfig(t) \/ ConfigAnswered(t) \/ ConfigUnanswered(t)

AllFinished == (\A t \in Trials : pc[t] = "done") /\ UNCHANGED vars

Next ==
    \/ \E t \in Trials : Step(t)
    \/ \E s \in Sessions : PluginExports(s)
    \/ AllFinished

\* Every request ends with the 30 s timeout of the client, so a goroutine in
\* FinishTrial goes on. The plugin owes nothing.
Spec == Init /\ [][Next]_vars /\ \A t \in Trials : WF_vars(Step(t))

-----------------------------------------------------------------------------
(* Properties. *)

\* The trace a trial may write to.
Own(t) == IF agent = "claude" THEN DirectTrace(t) ELSE PluginTrace(session[t])

\* A trial's scores and annotation are on its own trace, and the server has
\* it: neither an answer about another session nor a creation that failed
\* makes FinishTrial write elsewhere.
OwnTrace ==
    /\ \A t \in Trials : \A i \in DOMAIN scores[t] :
           scores[t][i].trace = Own(t) /\ Own(t) \in stored
    /\ \A a \in annotated : a[2] = Own(a[1]) /\ a[2] \in stored

\* FinishTrial queues one score per evaluation, in their order, for a trial
\* whose trace it has found, and none for any other.
AllScored ==
    \A t \in Trials : pc[t] = "done" =>
        LET names == [i \in DOMAIN scores[t] |-> scores[t][i].name]
        IN  names = (IF trace[t] = NoTrace THEN << >> ELSE Evaluations(t))

\* ensureScoreConfig checks and creates in two critical sections. Two trials
\* both cache a config of their own for one evaluator only if their requests
\* overlapped, and no trial caches one of its own for an evaluator whose config
\* had been loaded: the entry that was there stays for the whole run.
OnlyRacersCreateTwice ==
    /\ \A a, b \in answered :
           (a[1] = b[1] /\ a[2] # b[2]) => <<a[1], a[2], b[2]>> \in overlap
    /\ \A a \in answered : a[1] \notin loaded
    /\ \A e \in loaded : scoreConfigs[e] = {<<e, 0>>}

\* A score is sent without a config id only if the creation of the config of
\* its evaluator failed, in this trial or an earlier one: the empty id of an
\* error stays in the cache.
MissingOnlyAfterFailure ==
    \A t \in Trials : \A i \in DOMAIN scores[t] :
        scores[t][i].config = NoConfig => scores[t][i].name \in refused

\* FinishTrial ends, whatever the server and the plugin do: the trial's slot
\* is not held for ever by a trace that never arrives.
FinishTrialEnds == \A t \in Trials : <>(pc[t] = "done")
=============================================================================
