------------------------------ MODULE Progress ------------------------------
(***************************************************************************)
(* Who counts a trial, and where: expandTrials makes the trials, the       *)
(* display keeps one ComboProgress per (model, scenario) and finds it      *)
(* again by a key made of the two names, and the report groups the results *)
(* by the same key.                                                        *)
(*                                                                         *)
(* A name is the sequence of its parts between the slashes, and a key is   *)
(* two names joined by one more slash. Scenarios and models are positions  *)
(* in the lists of the config: Validate rejects a repeated scenario id, but*)
(* neither a repeated model name nor two pairs of names with one key.      *)
(***************************************************************************)
EXTENDS Integers, Sequences, FiniteSets, FiniteSetsExt

CONSTANTS
    Scenarios,       \* sequence of scenario ids, distinct
    Models,          \* sequence of model names
    TrialsPerCombo,  \* benchmark.trials, at least 1
    IsTTY            \* the output is a terminal

ASSUME ProgressAssumption ==
    /\ Len(Scenarios) \in Nat /\ DOMAIN Scenarios = 1..Len(Scenarios)
    /\ Len(Models) \in Nat /\ DOMAIN Models = 1..Len(Models)
    /\ \A i, j \in DOMAIN Scenarios : Scenarios[i] = Scenarios[j] => i = j
    /\ TrialsPerCombo \in Nat \ {0}
    /\ IsTTY \in BOOLEAN

BarWidth == 16

Terminal == {"completed", "failed", "timeout", "cancelled"}

\* NewDisplay makes one combo for every entry of the two lists.
Combos == (DOMAIN Scenarios) \X (DOMAIN Models)

\* expandTrials
Trials == {<<c[1], c[2], i>> : c \in Combos, i \in 1..TrialsPerCombo}

\* ScenarioModelKey
KeyOf(t) == Scenarios[t[1]] \o Models[t[2]]

\* Where NewDisplay puts the combo: the models are the outer loop.
Position(c) == (c[2] - 1) * Len(Scenarios) + c[1]

\* comboIdx with the model alone as key.
ComboOfModel(key) ==
    CHOOSE c \in Combos :
        /\ \E d \in Combos : KeyOf(d) = key /\ d[2] = c[2]
        /\ c[1] = Len(Scenarios)

\* comboIdx: a later combo of the same key replaces an earlier one.
ComboOf(key) ==
    CHOOSE c \in Combos :
        /\ KeyOf(c) = key
        /\ \A d \in Combos : KeyOf(d) = key => Position(d) <= Position(c)

VARIABLES
    results,    \* results[t]: "pending" or terminal status
    counts,     \* counts[c][s]: the counters of combo c
    completed,  \* d.completed
    panicked    \* strings.Repeat was called with a negative count

vars == <<results, counts, completed, panicked>>

TypeOK ==
    /\ results \in [Trials -> Terminal \cup {"pending"}]
    /\ counts \in [Combos -> [Terminal -> Nat]]
    /\ completed \in Nat
    /\ panicked \in BOOLEAN

Init ==
    /\ results = [t \in Trials |-> "pending"]
    /\ counts = [c \in Combos |-> [s \in Terminal |-> 0]]
    /\ completed = 0
    /\ panicked = FALSE

Total == Cardinality(Combos) * TrialsPerCombo

Done(count) ==
    count["completed"] + count["failed"] + count["timeout"] + count["cancelled"]

\* progressBar: the filled and the empty part are both repeat counts.
BarFits(done, total) == total = 0 \/ (done * BarWidth) \div total <= BarWidth

\* drawProgress, which only a terminal gets.
DrawPanics(newCounts, newCompleted) ==
    /\ IsTTY
    /\ \/ \E c \in Combos : ~BarFits(Done(newCounts[c]), TrialsPerCombo)
       \/ ~BarFits(newCompleted, Total)

CountOne(count, s) == [count EXCEPT ![s] = @ + 1]

\* OnTrialComplete, under the display's mutex.
OnTrialComplete(t, s) ==
    /\ ~panicked
    /\ results[t] = "pending"
    /\ results' = [results EXCEPT ![t] = s]
    /\ counts' = [counts EXCEPT ![ComboOf(KeyOf(t))] = CountOne(@, s)]
    /\ completed' = completed + 1
    /\ panicked' = DrawPanics(counts', completed')

AllReported == \A t \in Trials : results[t] # "pending"

Stopped == (AllReported \/ panicked) /\ UNCHANGED vars

Next ==
    \/ \E t \in Trials, s \in Terminal : OnTrialComplete(t, s)
    \/ Stopped

Spec == Init /\ [][Next]_vars /\ WF_vars(\E t \in Trials, s \in Terminal : OnTrialComplete(t, s))

-----------------------------------------------------------------------------
(* The groups of buildSummaries. *)

Keys == {KeyOf(t) : t \in Trials}

Group(key) == {t \in Trials : KeyOf(t) = key}

\* CountTrialStatuses over the group.
SummaryCount(key, s) == Cardinality({t \in Group(key) : results[t] = s})

-----------------------------------------------------------------------------
(* Properties. *)

\* The progress lines of the terminal and the summaries of the report, kept by
\* two packages in two maps, say the same of every scenario and model.
DisplayAgreesWithSummaries ==
    \A key \in Keys : \A s \in Terminal :
        counts[ComboOf(key)][s] = SummaryCount(key, s)

\* "Trials per scenario x model" (README_en.md:312): no line shows more trials
\* done than it has, and drawing one does not panic.
WithinTotals ==
    /\ ~panicked
    /\ \A c \in Combos : Done(counts[c]) <= TrialsPerCombo
=============================================================================
