------------------------------ MODULE Comparison ------------------------------
(***************************************************************************)
(* A benchmark run, its summaries, and `trimetry compare` against the      *)
(* summary.json of an earlier run: the trials of Progress end in any       *)
(* order, the report groups them by key, and Compare visits two maps in    *)
(* the order Go happens to choose.                                         *)
(*                                                                         *)
(* One metric stands for all of metrics.Fields: a trial that was not       *)
(* cancelled may have a value for it or not.                               *)
(***************************************************************************)
EXTENDS Progress, SequencesExt, Statistics

CONSTANTS
    ValueOf,    \* ValueOf[t]: the metric of trial t, if it is measured
    Baselines,  \* summaries of earlier runs: by key
                \* [scenario, version, trials, samples]
    KeyOrder,   \* all keys, in the order of their strings
    MinSample   \* trials below which Compare warns; the code says 5

Version == 1  \* of every scenario in the run

ASSUME ComparisonAssumption ==
    /\ ValueOf \in [Trials -> Nat]
    /\ {KeyOf(t) : t \in Trials} \subseteq ToSet(KeyOrder)
    /\ Len(KeyOrder) \in Nat /\ DOMAIN KeyOrder = 1..Len(KeyOrder)
    /\ IsInjective(KeyOrder)
    /\ \A b \in Baselines : DOMAIN b \subseteq ToSet(KeyOrder)
    /\ \A b \in Baselines : \A k \in DOMAIN b :
           /\ b[k].samples \in Seq(Nat)
           /\ Sorted(b[k].samples)
           /\ Len(b[k].samples) <= b[k].trials
    /\ MinSample \in Nat

Nil == -1

VARIABLES
    metric,       \* metric[t]: the value of a trial that has one, or Nil
    baseline,     \* the earlier summary, once it is loaded
    stage,        \* "run" | "baseline" | "candidate" | "done"
    toVisit,      \* keys of the map the loop has not visited
    comparisons,  \* keys of report.Comparisons
    warnings,     \* report.Warnings, what the texts say
    exitCode      \* of compare, Nil before it returns

reportVars == <<comparisons, warnings>>
compareVars == <<metric, baseline, stage, toVisit, reportVars, exitCode>>

CompareInit ==
    /\ Init
    /\ metric = [t \in Trials |-> Nil]
    /\ baseline = <<>>
    /\ stage = "run"
    /\ toVisit = {}
    /\ comparisons = <<>>
    /\ warnings = <<>>
    /\ exitCode = Nil

\* A cancelled trial has no metrics at all.
EndTrial(t, s) ==
    /\ stage = "run"
    /\ OnTrialComplete(t, s)
    /\ \E v \in IF s = "cancelled" THEN {Nil} ELSE {Nil, ValueOf[t]} :
           metric' = [metric EXCEPT ![t] = v]
    /\ UNCHANGED <<baseline, stage, toVisit, reportVars, exitCode>>

-----------------------------------------------------------------------------
(* What Summarize and aggregateMetrics make of each group; its other parts   *)
(* are the version, Cardinality(Group(key)) trials, and the counts.          *)

Measured(key) == {t \in Group(key) : metric[t] # Nil}

\* The sorted values computeStats works on.
Samples(key) ==
    LET values(order) == [i \in DOMAIN order |-> metric[order[i]]]
    IN  values(CHOOSE order \in SetToSeqs(Measured(key)) : Sorted(values(order)))

-----------------------------------------------------------------------------
(* compare *)

\* A file that cannot be read or parsed ends the command.
LoadFails ==
    /\ stage = "run"
    /\ AllReported
    /\ stage' = "done"
    /\ exitCode' = 1
    /\ UNCHANGED <<vars, metric, baseline, toVisit, reportVars>>

LoadSummaries(summary) ==
    /\ stage = "run"
    /\ AllReported
    /\ baseline' = summary
    /\ stage' = "baseline"
    /\ toVisit' = DOMAIN summary
    /\ UNCHANGED <<vars, metric, reportVars, exitCode>>

\* What the text of a warning says. That a key is missing or new names the key,
\* the other two only the scenario of the earlier summary, not its model: two
\* models of one scenario can be told of in the same words.
Says(earlier, kind, key) ==
    CASE kind \in {"missing", "new"} -> <<kind, key>>
      [] kind = "version" -> <<kind, earlier[key].scenario, earlier[key].version, Version>>
      [] kind = "sample" ->
             <<kind, earlier[key].scenario, earlier[key].trials, Cardinality(Group(key))>>

Warn(kind, key) == Append(warnings, Says(baseline, kind, key))

\* One turn of the loop over the baseline.
VisitBaseline(key) ==
    /\ stage = "baseline"
    /\ key \in toVisit
    /\ toVisit' = toVisit \ {key}
    /\ \/ /\ key \notin Keys
          /\ warnings' = Warn("missing", key)
          /\ UNCHANGED comparisons
       \/ /\ key \in Keys
          /\ warnings' = IF baseline[key].version = Version THEN warnings
                         ELSE Warn("version", key)
          /\ comparisons' = Append(comparisons, key)
    /\ UNCHANGED <<vars, metric, baseline, stage, exitCode>>

BaselineVisited ==
    /\ stage = "baseline"
    /\ toVisit = {}
    /\ stage' = "candidate"
    /\ toVisit' = Keys
    /\ UNCHANGED <<vars, metric, baseline, reportVars, exitCode>>

\* The second loop looks a key up among the comparisons it has made.
VisitUnwarned(key) ==
    /\ stage = "candidate"
    /\ key \in toVisit
    /\ toVisit' = toVisit \ {key}
    /\ warnings' = IF comparisons # <<>> THEN warnings
                   ELSE Warn("new", key)
    /\ UNCHANGED <<vars, metric, baseline, stage, comparisons, exitCode>>

VisitCandidate(key) ==
    /\ stage = "candidate"
    /\ key \in toVisit
    /\ toVisit' = toVisit \ {key}
    /\ warnings' = IF key \in DOMAIN baseline THEN warnings
                   ELSE Warn("new", key)
    /\ UNCHANGED <<vars, metric, baseline, stage, comparisons, exitCode>>

SmallSample(key) == baseline[key].trials < MinSample \/ Cardinality(Group(key)) < MinSample

\* A set of keys, sorted.
InOrder(set) ==
    LET upTo[i \in 0..Len(KeyOrder)] ==
            IF i = 0 THEN <<>>
            ELSE IF KeyOrder[i] \in set THEN Append(upTo[i - 1], KeyOrder[i])
            ELSE upTo[i - 1]
    IN  upTo[Len(KeyOrder)]

\* The loop over the comparisons that warns about small samples.
SampleWarnings(keys) ==
    LET small == InOrder({key \in keys : SmallSample(key)})
    IN  [i \in DOMAIN small |-> Says(baseline, "sample", small[i])]

\* sort.Slice by key, and the loop that follows, which has that order.
Sort ==
    /\ stage = "candidate"
    /\ toVisit = {}
    /\ stage' = "done"
    /\ comparisons' = InOrder(ToSet(comparisons))
    /\ warnings' = warnings \o SampleWarnings(ToSet(comparisons))
    /\ exitCode' = 0
    /\ UNCHANGED <<vars, metric, baseline, toVisit>>

Returned == stage = "done" /\ UNCHANGED <<vars, compareVars>>

CompareNext ==
    \/ \E t \in Trials, s \in Terminal : EndTrial(t, s)
    \/ LoadFails
    \/ \E summary \in Baselines : LoadSummaries(summary)
    \/ \E key \in toVisit : VisitBaseline(key) \/ VisitCandidate(key)
    \/ BaselineVisited \/ Sort \/ Returned

CompareSpec == CompareInit /\ [][CompareNext]_<<vars, compareVars>>

-----------------------------------------------------------------------------
(* Properties. *)

Compared == stage = "done" /\ exitCode = 0

\* A key is missing in the candidate, or new there; its version changed; or its
\* sample is small.
Warnings == {"missing", "new", "version", "sample"}

Expected(kind, key) ==
    CASE kind = "missing" -> key \in DOMAIN baseline \ Keys
      [] kind = "new" -> key \in Keys \ DOMAIN baseline
      [] kind = "version" -> key \in DOMAIN baseline \cap Keys /\ baseline[key].version # Version
      [] kind = "sample" -> key \in DOMAIN baseline \cap Keys /\ SmallSample(key)

\* The order of the strings.
Before(key1, key2) ==
    \E a, b \in DOMAIN KeyOrder : a < b /\ KeyOrder[a] = key1 /\ KeyOrder[b] = key2

\* Who is to be warned of, and of what; and how often a text was printed.
AllDue == {w \in Warnings \X ToSet(KeyOrder) : Expected(w[1], w[2])}

DueSaying(text) == {w \in AllDue : Says(baseline, w[1], w[2]) = text}

Times(text) == Cardinality({i \in DOMAIN warnings : warnings[i] = text})

\* Whatever order the two maps were visited in, every key of either summary is
\* compared, once and in the order of the keys, or reported missing or new; and
\* a text is printed as often as there are keys to say it of: for a missing or
\* a new key once, for a version or a small sample once for every model of the
\* scenario, be it in the same words (comparator.go:84-148).
EveryKeyAccounted ==
    Compared =>
        /\ ToSet(comparisons) = DOMAIN baseline \cap Keys
        /\ \A i, j \in DOMAIN comparisons : i < j => Before(comparisons[i], comparisons[j])
        /\ \A text \in ToSet(warnings) \cup {Says(baseline, w[1], w[2]) : w \in AllDue} :
               Times(text) = Cardinality(DueSaying(text))

Shown == IF Compared
         THEN {baseline[key].samples : key \in DOMAIN baseline} \cup {Samples(key) : key \in Keys}
         ELSE {}

AtMost(samples, x) == Cardinality({i \in DOMAIN samples : Leq(<<samples[i], 1>>, x)})

AtLeast(samples, x) == Cardinality({i \in DOMAIN samples : Leq(x, <<samples[i], 1>>)})

\* The percentiles of a summary lie between its extremes in their order, and
\* each divides the samples as its name says: at least p % of the way from the
\* first to the last lies below it, and the rest above (aggregator.go:176).
PercentilesFit ==
    \A samples \in Shown \ {<<>>} :
        LET n == Len(samples)
            P(p) == Percentile(samples, p)
        IN  /\ Leq(<<samples[1], 1>>, P(50)) /\ Leq(P(50), P(90))
            /\ Leq(P(90), P(95)) /\ Leq(P(95), <<samples[n], 1>>)
            /\ \A p \in {50, 90, 95} :
                   /\ AtMost(samples, P(p)) * 100 >= p * (n - 1)
                   /\ AtLeast(samples, P(p)) * 100 >= (100 - p) * (n - 1)
            /\ n % 2 = 0 =>
                   Leq(P(50), <<samples[n \div 2] + samples[n \div 2 + 1], 2>>)
                   /\ Leq(<<samples[n \div 2] + samples[n \div 2 + 1], 2>>, P(50))

Units == {1, 1000}

\* The mean a summary shows is within half a percent of the real one, however
\* small the metric is, and a whole-numbered metric never has a mean outside
\* its extremes (aggregator.go:161).
MeanFaithful ==
    \A samples \in Shown \ {<<>>} :
        /\ \A unit \in Units :
               LET mean == Mean(samples, unit)
                   exact == ExactMean(samples, unit)
                   error == mean[1] * exact[2] - exact[1] * mean[2]
               IN  200 * error \in -(exact[1] * mean[2])..(exact[1] * mean[2])
        /\ Leq(<<samples[1], 1>>, Mean(samples, 1))
        /\ Leq(Mean(samples, 1), <<samples[Len(samples)], 1>>)

\* A difference is computed from means that were rounded to different digits:
\* it never has the wrong sign, a change of more than one percent is never
\* shown as none, and the percentage has the sign of the difference
\* (comparator.go:164-173).
DiffDirection ==
    Compared =>
        \A key \in ToSet(comparisons) : \A unit \in Units :
            LET base == baseline[key].samples
                cand == Samples(key)
            IN  base # <<>> /\ cand # <<>> =>
                    LET diff == Diff(Mean(base, unit), Mean(cand, unit))
                        b == ExactMean(base, unit)
                        c == ExactMean(cand, unit)
                    IN  /\ Leq(b, c) => diff.abs[1] >= 0 /\ diff.percent[1] >= 0
                        /\ Leq(c, b) => diff.abs[1] <= 0 /\ diff.percent[1] <= 0
                        /\ ~Leq(<<100 * c[1], c[2]>>, <<101 * b[1], b[2]>>) => diff.abs[1] > 0
                        /\ ~Leq(<<100 * b[1], b[2]>>, <<101 * c[1], c[2]>>) => diff.abs[1] < 0
=============================================================================
