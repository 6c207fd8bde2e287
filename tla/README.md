# Verification of trimetry

trimetry runs a benchmark: every scenario with every model, several trials
each, by driving an agent command line program (opencode, claude, codex,
cursor), measuring what it prints, reporting to Langfuse or MLflow, and writing
a report. This directory holds TLA+ models of the parts of it that carry logic
of their own, the TLC configurations that check them, and proofs that hold for every
size of benchmark, length of output and number of retries.

Paths below are relative to the repository.

## The system

| Part | Source | State | Operations |
| --- | --- | --- | --- |
| Runner, executor | `internal/runner` | the slice of results, the channel `sem`, the WaitGroup, per goroutine a copy of its trial and the loop variable | `Run`, `RunTrials`, `runTrial`, `applyOutcome` |
| CLI call | `internal/adapter/base.go`, `fake.go` | child process, its pipes, a context with deadline | `runCLI`, `toExecutionResult`, `Execute` |
| Parsers | `internal/adapter/{claude,opencode,codex,cursor}.go` | pending generation, pending tools, the map from call ids to tools, step list | `parseClaudeJSON`, `parseOpencodeJSON`, ... |
| Langfuse | `internal/telemetry/langfuse.go` | `batch`, `trialContexts`, `traceCache`, `scoreConfigs`, one mutex | `StartTrial`, `FinishTrial`, `Flush` |
| MLflow | `internal/telemetry/mlflow.go` | `experimentIDs`, `traces`, tracer providers, one mutex | the same three |
| Display | `internal/ui/display.go` | one counter record per combo, a map from key to combo, `completed` | `OnTrialComplete`, `OnRetry`, `Finalize` |
| Config | `internal/config` | the parsed file | `Load`, `Validate`, `ApplyDryRun` |
| Report, statistics | `internal/report`, `internal/aggregator`, `internal/metrics` | the files of a run | `Write`, `Summarize`, `BuildTrialMetrics` |
| Comparator | `internal/comparator` | none | `LoadSummary`, `Compare` |
| Command line | `cmd/trimetry/main.go` | exit code | `run`, `validate`, `compare` |

How they meet: `main` builds config, adapter and telemetry and calls `Run`;
`RunTrials` starts a goroutine per trial; each takes a slot of `sem`, calls
`StartTrial`, `Execute` (several times when it fails), `FinishTrial`, perhaps
`Flush`, and `OnTrialComplete`, and stores its result. `wg.Wait`, a last
`Flush` and `Generator.Write` follow. One interrupt cancels the context that
the select of the executor, its retry loop and every child process share.

What is hard about it: the interrupt against the select, against the retry
loop and against a child that is just ending; callbacks into shared objects in
an order that differs from path to path; parsers that must put a stream of events,
cut off anywhere, into the right steps; a file that outlives the attempt that
wrote it; `Flush`, which gives up its mutex
while it sends; caches that are looked up and filled in two critical sections;
a child that leaves a descendant behind; a report cut short. `PROJECT.json`
lists each hazard at its line, with the property that covers it.

What makes each part correct:

- executor: the limit on concurrency; every trial gets one status, which
  display and results agree on; what "cancelled" means; nothing runs after the
  return.
- CLI call: success is the child's own, a timeout is called a timeout, a call
  returns once.
- Langfuse queue: an event is in one place, and leaves it for one reason.
- Langfuse trial: scores and annotations are on the trial's own trace and
  complete; the two caches cost no more than a race explains.
- MLflow: one experiment per scenario, no trial unrecorded for another's race,
  nothing left in a queue.
- command: what exit code 0 says about the files; nothing happens before the
  config is valid; a dry run stays local.
- display and summaries: two packages that count in two maps say the same.
- parsers: every tool call ends in one step, in order; a result is stored with
  its own call; thinking stays with its answer; times lie within the call.
- enrichment: reasoning goes to the generation it belongs to.
- statistics: what is rounded stays close to what it stands for, percentiles
  divide the sample as they say.
- comparator: every key of either run is accounted for once, in any order of
  the maps; a difference has the right sign.

## The modules

| Module | What it is |
| --- | --- |
| `BenchmarkRun` | abstract: a run decides every trial once and returns after the last one |
| `TrialExecutor` | `Run`, `RunTrials` and `runTrial`, with the interrupt; the inductive invariant `IInv` |
| `MCTrialExecutor` | the module the two executor runs check |
| `AdapterCall` | abstract: one call to `Execute`, as the executor relies on it |
| `CliProcess` | `runCLI` and the parts of `os/exec` it uses |
| `EventDelivery` | abstract: the fate of an ingestion event |
| `LangfuseQueue` | `addEvent`, `Flush`, chunks and retries, by several goroutines |
| `LangfuseTrial` | `FinishTrial` of the Langfuse adapter: lookups, direct traces, annotations, score configs |
| `MLflowTrial` | experiments, providers, spans and flushes of the MLflow adapter |
| `CallLog` | abstract: what becomes of the tool calls in a stream |
| `ClaudeParser`, `OpencodeParser` | the two parsers that build steps |
| `AgentOutput` | the agent's lines, a parser, retries, the enrichment file and its merge, the times of a trial; contains both parsers |
| `Progress` | trials, combos, keys, counters and summary groups |
| `RunCommand` | the commands `run` and `validate`; contains `Progress` |
| `Statistics` | `computeStats`, `percentile`, `roundSig`, and the difference of two means |
| `Comparison` | trials with a metric, their summaries, `compare`; extends `Progress` and `Statistics` |
| `TrialExecutor_proofs`, `CliProcess_proofs`, `LangfuseQueue_proofs`, `LangfuseTrial_proofs`, `MLflowTrial_proofs`, `RunCommand_proofs`, `AgentOutput_proofs` | the inductive invariants and theorems of the module each is named after |
| `Comparison_proofs` | the theorems about `Comparison` and `Progress` |
| `MCRunCommand`, `MCProgress`, `MCMLflowTrial`, `MCAgentOutput`, `MCComparison` | values for their constants |

### TrialExecutor

One process per trial, whose position in the code is `pc[t]`, and `main`. A
step ends where another goroutine can see a difference: a channel operation, a
lock, a call that blocks, the start or return of `Execute`. `Park` is the
select with no ready case, `Acquire` and `ObserveCancel` its two cases; with a
free slot and a cancelled context both are enabled, as in Go. `Interrupt`
hands every parked goroutine the `ctx.Done` case, so one that was parked and
woken cannot take a slot any more. `StartAttempt` is the head of the retry loop
and the beginning of `Execute`; `AdapterReturns` its end and the decision of
the loop. `Finish`, `Annotate`, `TrialFlush`/`TrialFlushed`, `Report` and
`Release` follow the calls of `runTrial`; `Exit` is the deferred `wg.Done`.
Data is reduced to what decides something: the outcome of a call is success,
exit code -1, or any other failure. A call that begins with a cancelled context
cannot succeed; `CliProcess` shows that of the CLI adapters
(`ImplementsAdapterCall`), and `FakeAdapter` waits for the context too.

### CliProcess

`exec.Cmd` is outside the repository, so `Start`, `Watch` (the goroutine that
kills the child when the context ends), `Reap` and `Collect` are modelled from
the way `runCLI` uses it and marked external in the map. `Classify` and
`Return` are the code of `base.go`. The child may exit with any status, fork a
descendant that keeps its stdout, or run until it is killed.

### LangfuseQueue

A flush is a process with three parts: `Take` under the mutex, one request per
step for the head of its chunks, `Requeue` under the mutex. The three kinds of
answer are a 2xx with any partition of the chunk into taken, retryable and
permanently failed events (`Accepted`), a status that is not retryable
(`Refused`), and 5xx, 429 or no answer (`Unavailable`). `tries` is a history
variable.

### LangfuseTrial

`FinishTrial(t)` to `QueueScore(t, config)` are what the goroutine of a trial
does between its critical sections: `ReadConfig` ends where `ensureScoreConfig`
gives up the mutex and `ConfigAnswered` starts where it takes it again, so every
interleaving of the check and the creation is explored. Requests have four
outcomes, one of them an effect on the server without an answer. The spans of a
direct trace go in one request and are one step. A config id is the pair of an
evaluator and the trial whose request made it; the empty id, which an error
with a JSON body leaves in the cache because the status is not looked at, is
`NoConfig`. Two trials may print one session id, since it is whatever the
agent's output says; otherwise the cache of traces would never be hit.
`overlap`, `answered`, `loaded` and `refused` are history variables. `loaded`
are the evaluators whose config was in the cache from the start: `OnlyRacersCreateTwice`
says that nobody creates one of theirs, and that a config is created twice only
by overlapping requests.

### MLflowTrial

An experiment is identified with its scenario. The server keeps names unique;
the loser of a race, or of a creation whose answer was lost, gets
`RESOURCE_ALREADY_EXISTS` and searches. The timer of the span processor, the
`ForceFlush` of other trials and `Flush` are one action, `ExportInBackground`.
`Enqueue` drops a span when the queue of its provider is full, as the batching
processor does. A batch that arrived and was not answered counts as delivered:
what the SDK then thinks of it has no effect on this program.
`failures` is a history variable.

### AgentOutput and the parsers

The parser runs over a buffer once the agent has ended. The model reads each
line when it is written, which yields the same steps and lets the output end
after any line. A line is reduced to what the automata look at: for claude
whether an assistant event thinks, says something and how many tools it calls,
the call a result answers, and the time of the event, 0 when it carries none;
for opencode the kind of the event, its time and the times of a tool.
`gen` is `pendingGen` (no generation or one), `toolMap` is `pendingToolMap`,
`pending` is `pendingTools`. `turns`, `by`, `answer` and `number` in the steps
record where something came from, for the properties; the code has no such
fields. Times are small numbers; `Started` is 1 so that 0 can stand for no time,
as it does in the code. `Retry` starts a new output and leaves the enrichment
file alone; `FinishTrial` merges the file into the steps and removes it.

Claude's events carry times in one of four ways: all of them, those of the
turns only (as in the fixtures of `claude_test.go:22-25`), none, or user and
result events only. Of opencode the model assumes that a tool call and the end
of a step lie between a `step_start` and its `step_finish` (`inStep`); the code
does not ask for it, and would use the times of an earlier step or zero.

Four properties say what they exclude. `ResultOnOwnTool` holds until an agent
goes on after a result event (`resumed`): then the map of the closed generation
is still there, and a late result is stored in another tool or indexes past the
list. `ReasoningOfOwnGeneration` holds unless the file starts with the entries
of an attempt that failed. `StepTimesFit` leaves out the fourth way to stamp,
where a tool that ends at a time and starts at none has a duration counted from
the epoch (`claude.go:248`), and `LatencyWithinWall` speaks of claude's output only when
every event has its time. All four cases are reachable in the model.

### Statistics and Comparison

Numbers are fractions, so floating point error is left out. A metric is counted
in a unit: 1 for milliseconds and tokens, 1000 for small ratios and costs, where
`roundSig` uses more digits. `Comparison` adds to every trial of `Progress` a
value or none, and the summaries are operators over the trials, as in
`Summarize`. The loops of `Compare` over the two maps take the keys in any
order, one per step. A warning is the text that is printed: for a missing or a new
key it names the key, for another version or a small sample only the scenario
id and the versions or counts (`comparator.go:93-95`, `144-146`), so two models
of one scenario may be warned of in the same words. `EveryKeyAccounted`
therefore counts: a text is printed as often as there are keys to say it of.
An earlier summary stands for the sorted samples it was
made of, since `summary.json` is written by a run like this one; a file edited
by hand is not covered. `PowerOf10` and `Sorted` are definitions of their own
because the proofs are about them. All scenarios of the run have version 1; earlier summaries
may have another.

### Progress and RunCommand

A name is the sequence of its parts between slashes, because the key is made
with `"%s/%s"` and is therefore not unique. `RunCommand` follows `runBenchmark`
step by step; a config is reduced to what its checks tell apart. A file is
absent, partial or complete: JSON writers return their error, the markdown
writer drops it except for the one of `os.Create` (`WriteUnseen`).

## The runs

| Run | Configuration | Shows |
| --- | --- | --- |
| `trial_executor` | 3 trials, 2 slots, no retries | types, `ConcurrencyBound`, `CancelledNeverStarted`, `DisplayMatchesResults`, `ReturnsAfterAll`, and the refinement of `BenchmarkRun` with liveness |
| `trial_retries` | 2 trials, 2 slots, 2 retries, flush after each trial | `OneCallAfterCancel`, `FinalFlushSeesAll`, `RetryAfterFailure` |
| `cli_process` | one call | `SuccessIsGenuine`, `KilledAtDeadlineIsTimeout`, refinement of `AdapterCall` with liveness |
| `langfuse_queue` | 2 trials x 2 events, chunks of 2, 1 retry, limit 2 | `EventInOnePlace`, `AbandonedOnlyAfterRetries`, `RequeueWithinLimit`, `FlushesEnd`, refinement of `EventDelivery` |
| `langfuse_trial` | 2 trials, 2 sessions, 2 lookups, one trial with 3 evaluators | `OwnTrace`, `AllScored`, `OnlyRacersCreateTwice`, `MissingOnlyAfterFailure`, `FinishTrialEnds` |
| `mlflow_trial` | 3 trials of 2 scenarios, at most 4 spans per experiment, queues of 2 spans | `SpansInOwnExperiment`, `UnrecordedOnlyAfterFailure`, `NothingLeftBehind` |
| `run_command` | 2 scenarios x 1 model x 2 trials, every config | `ZeroMeansReported`, `SummaryImpliesTrials`, `NothingRunsUnvalidated` (of the config the command works with, in a dry run the changed one), `CommandEnds` |
| `agent_output` | claude: 5 events, opencode: 7 events and 1 retry, 2 ms | `ResultOnOwnTool`, `ThinkingWithItsAnswer`, `StepTimesFit`, `LatencyWithinWall`, `ReasoningOfOwnGeneration`, refinement of `CallLog` |
| `comparison` | 2 scenario ids x 2 model names, two pairs with one key; 8 earlier summaries | `DisplayAgreesWithSummaries`, `EveryKeyAccounted`, `PercentilesFit`, `MeanFaithful`, `DiffDirection` |
| `cli_interrupt`, `run_exit_code`, `progress_duplicates` | | three places where the documentation says something else (below) |

Why the bounds are enough. Three trials on two slots is the least with a
goroutine that has to wait while two others run, one released by a slot and
one by the interrupt. Two retries are the least where a retry follows a retry;
two trials suffice for two flushes to overlap with each other and the last
one to follow. The queue with four events, chunks of two and a limit of two has
partial failures, several chunks, an overflow and a requeue in front of new
events. Two trials race for every cache of `LangfuseTrial`, and a second session
is one to be mistaken for the first; two lookups are the least with a failed one
before one that counts. In `MLflowTrial` two trials share an experiment and the
third has another to be mistaken for it; their four spans overflow a queue
of two. Five claude events are the least for
thinking, its answer with two calls, a result, the next turn and a late result;
seven of opencode have two steps with a tool each and one given up. 2 ms
tell tools apart that run one after the other from those side by side. The
earlier summaries have samples of no value to five values, with ties, zeros and
outliers, an even and an odd number of them, a key the run has not, and another
version, once of two models of one scenario. No run has a bound inside an action: every counter is bounded by a
constant of the model (`MaxEvents`, `MaxMs`, `MaxAttempts` bound the agent in
`AgentOutput`). TLC explores the whole state space of each passing run.
No symmetry is used: trials are numbered, and liveness is checked.

Deadlock is checked in every run. The last states loop through an explicit
disjunct (`Finished`, `Returned`, `Exited`, `Stopped`).

Fairness. Goroutines are weakly fair because Go schedules every runnable one,
and a call to `Execute` returns because of its deadline; the latter is an
assumption of `TrialExecutor`. `cli_process` makes it plain: `runCLI` sets no
`WaitDelay`, so after the timeout has killed the child `Run` still waits for
every descendant that inherited the pipes, and returns only because
`DescendantEnds` is assumed to be weakly fair. Without that assumption the call,
its slot and the run hang; nothing in the code prevents it. The queue's flushes are fair because the HTTP client has a
30 s timeout; so are the steps of `LangfuseTrial`. A child process, a user, the
agent's plugin and a server owe nothing.

## Where the documentation and the code differ

1. `README_en.md:574` says running trials continue after Ctrl+C; the interrupt
   kills their children (`cli_interrupt`).
2. `README_en.md:402` says a failed trial gives exit code 1; `run` returns 0
   (`run_exit_code`). `HasFailedTrials` exists and has no caller.
3. `README_en.md:312` counts trials per scenario and model; two entries with
   one model name share a line, which overflows (`progress_duplicates`).

Seen while reading, without a run of its own:

- `README_en.md:188` runs `validate --dry-run` on a config of a real adapter with
  the comment "No env vars needed", `README_en.md:195` says that with
  `--dry-run` both `validate` and `run` work without Langfuse or MLflow
  variables, and `CHANGELOG.md:105` and `:114` call it free of credentials. The code
  validates the config as it was given, telemetry keys included
  (`main.go:99`), before `ApplyDryRun` changes it (`main.go:107-109`), and
  `runValidate` (`main.go:150-175`) does not look at the flag. A config that names
  Langfuse or MLflow is thus refused in a dry run when the keys are not set.
  `RunCommand` does what the code does. `NothingRunsUnvalidated` does not ask for
  this: it speaks of the config the command works with, which in a dry run needs no
  keys, and says that nothing runs that this config does not allow.
- `README_en.md:362` announces a tool count for cursor, whose parser ignores
  `tool_call`.

## The proofs

Each theorem holds for every value of the constants that the assumption named
in its module admits; no proof uses any other assumption. Every safety
property that a passing run checks is a theorem, by the same pattern: the inductive invariant `IInv`, a conjunction of named parts, holds
initially, one lemma per action or per part keeps it, and it implies the
property. `PROJECT.json` names the theorem of each property.

| Module | Theorems | For every |
| --- | --- | --- |
| `TrialExecutor_proofs` | `TypesHold`, `ConcurrencyIsBounded`, `CancelledMeansNeverStarted`, `OneCallAfterInterrupt`, `DisplayAgrees`, `ReturnComesLast`, `FinalFlushIsLast`, `RetriesFollowFailures`, `Refinement` of `BenchmarkRun` | number of trials, slots, retries (also a negative one) |
| `CliProcess_proofs` | `GenuineSuccess`, `KilledIsTimeout`, `KeepsContract` (the safety part of `AdapterCall`) | one call; the state is finite |
| `LangfuseQueue_proofs` | `OnePlace`, `AbandonedWereRetried`, `RefillWithinLimit`, `Refinement` of `EventDelivery` | trials, events, chunk size, retries, limit |
| `LangfuseTrial_proofs` | `OwnTraceOnly`, `EveryEvaluationScored`, `OnlyRacers`, `OnlyFailuresMissing` | trials, sessions, lookups |
| `MLflowTrial_proofs` | `OwnExperiment`, `OnlyFailuresUnrecorded`, `FlushedWhole` | trials, scenarios, spans, finite or not |
| `RunCommand_proofs` | `ZeroIsReported`, `TrialsBeforeSummary`, `OnlyValidatedRuns` | lists of scenarios and models, number of trials |
| `AgentOutput_proofs` | `ResultsFit`, `ThinkingStays`, `TimesOfSteps`, `LatencyFits`, `ReasoningFits`, `KeepsCallLog` (the refinement of `CallLog`) | set of turns, length of an output, number of attempts |
| `Comparison_proofs` | `CountsKept`, `LinesWithinTotals`, `SummariesAgree`, `KeysAccounted`, `PercentilesDivide`, `MeansFaithful`, `DiffsDirected` | lists of scenarios and models, numbers of trials, values of the metric, earlier summaries |

`Invariance` (`Invariant` for the executor) is the theorem that `IInv` holds,
and `TypeCorrect` its part about types where a module has one.

The properties are not inductive by themselves. What each argument needs:

- Executor. `ConcurrencyBound` needs to
  know that `sem` is the number of goroutines between `Acquire` and `Release`
  (`SlotsInv`); `ReturnsAfterAll` needs the same of the WaitGroup (`WaitInv`) and
  that goroutines are started in order (`SpawnInv`), so that a counter of zero
  after the loop means that all have ended; `DisplayMatchesResults` needs the
  counters as sizes of sets of reported trials (`ShownInv`) and where a result is
  stored (`ResultInv`); `CancelledNeverStarted` needs that a trial outside
  `runTrial` is untouched (`UntouchedInv`); `OneCallAfterCancel` and
  `RetryAfterFailure` need the state of the loop (`LateInv`, `RetryInv`). The two
  counters and the display need `Moves`, `ShownSame` and `ShownMore`, which say
  what a change of one `pc` does to the counted sets.
- CLI call. What a kill says about the context and the watcher (`KillInv`)
  and what the error of `Run` says about both (`ErrorInv`).
- Queue. Counting is replaced by membership: every sequence is without
  repetition (`OnceInv`) and a queued event is at one of the places batch,
  flush, chunk, fate (`PlaceInv`); `TriesInv` says what the attempts so far
  have cost each event, and `LastInv` that after the last `Flush` has begun
  nobody else refills the batch. The same invariant gives the refinement:
  a step moves events only between places whose fates `EventDelivery` connects.
- Langfuse trial. `TraceInv` follows a trace from the server through the cache
  to the trial; `ScoresInv` and `PhaseInv` count the evaluations already scored;
  `RaceInv` says that whoever waits for an answer asked before any other answer
  came, which is why two configs imply an overlap.
- MLflow. A span is not ended, queued, delivered or dropped, one of the four
  (`PlaceInv`), and none of a trial that is done is queued; `PhaseInv` ties the
  place in the code to the experiment and to a failure.
- Command. `ConfigInv` and `AdapterInv` say which config, behind which stage,
  made the adapters; `FilesInv` states the order of `Generator.Write`.
- Parsers. For each agent one invariant about the pending part and one about the
  steps already out. `MapInv` says that `pendingToolMap` leads to the pending
  tools until an agent goes on after a result event; `TimesInv` is about
  the steps with stamps, or all without times until the backfill gives them
  theirs, and about a last step that a result without a time has closed; `LatencyInv`
  places the model time so far before the pending step and says that no
  generation is without an end (`AllTimed`), so the backfill adds none;
  `LogIn` says that the calls out and the calls held are all calls, in order.
- Display and `compare`. Counters are the sizes of sets of trials (`CountInv`).
  `WithinTotals` is false in general (`progress_duplicates`); with `DistinctKeys`,
  that no two combos have one key, it is a theorem, so shared keys are the only
  cause of an overflow. `CompareInv` says what the loops have told when they have
  visited some of the keys (`Due`). `Tells` relates that to the texts: there is one
  list of kinds and keys without repetition behind them, and each text is what
  is said of its entry; `SaidOften` counts a text by counting the entries it is
  said of.
- Statistics. `ShownInv` says where the samples of a comparison come from, and
  `OrderExists` that the values of finitely many trials can be sorted, so that
  every sample is a sorted sequence of numbers. The rest is about one such
  sequence, or two. A percentile is on the `Line` between two neighbours
  (`LineBounds`, `LineOrder`, `LineDivides`). `Rounds` says what `roundSig`
  does: it moves a value by half a unit of its last digit at most, that unit
  is at most a hundredth of the value, and a value below 1 has no more than
  three digits, or 1.00 after rounding up. `MeanOf` follows, with `SumBounds`.
  `DiffOf` brings both means over one denominator. With the same digits,
  rounding keeps their order (`SameDigits`); the larger mean never has more
  digits (`FewerDigits`); and if it has fewer, the smaller one has at most
  1000 of its units and the larger one at least that much (`OtherDigits`). The
  narrow case is a change of one percent across a power of ten.

Several definitions are recursive functions (`RetryableRest`, `Total`,
`InOrder`, `Sum`, `PowerOf10`). The provers cannot instantiate the library's
induction, so what such a function returns is proved from `Least`: a set of
numbers that is not empty has a least element, here the least counterexample.

Only model-checked:

- liveness, for want of `ENABLED`: `CommandEnds`, `FlushesEnd`,
  `FinishTrialEnds`, and the fairness of `BenchmarkRun` and `AdapterCall` in
  `ImplementsBenchmarkRun` and `ImplementsAdapterCall`, whose safety parts are
  the theorems `Refinement` and `KeepsContract`.

The statistics are proved for fractions: that the floating point operations of
the code come close enough to them is neither proved nor checked.

## Not modelled

- The text of prompts, outputs, reports and log lines, delays between retries,
  wall-clock durations.
- Of the parsers of claude and opencode: text, tokens, cost, time to the first
  token, the status and output of a tool, the input of a generation. The parsers
  of codex and cursor add up tokens and join text; there is no state an order of
  events could spoil.
- The attributes of the spans inside a direct trace.
- Standard deviation, failure rate, accuracy rate and output samples of a
  summary; the printed table of `compare` and its flags.
- Of the evaluator only the list of evaluations is modelled; the rest is
  stateless string matching.
- A negative `retries`: TLC's configurations cannot hold it; the theorems about
  the executor cover it.
- Docker images and compose files.

## Plan

No safety property waits for a proof. A continuation would model what is listed
above as left out, the standard deviation and the attributes of the spans
first, and bound the floating point error of `computeStats` and `roundSig`,
whose sums and logarithms can be off by one unit at a power of ten.
