---------------------------- MODULE TrialExecutor ----------------------------
(***************************************************************************)
(* Runner.Run and Executor.RunTrials: one goroutine per trial, a buffered  *)
(* channel `sem` as counting semaphore, a WaitGroup, the retry loop of     *)
(* runTrial, the callbacks into the display and the telemetry adapter, and *)
(* the interrupt that cancels the context they all share.                  *)
(*                                                                         *)
(* A trial is its index in the slice expandTrials returns. The adapter is  *)
(* seen through Execute: a call that starts, and later returns one of      *)
(* Outcomes. The telemetry adapter is seen through its batch of events     *)
(* (one element per trial that queued any); LangfuseQueue is that part in  *)
(* detail. Process 0 is the goroutine of main, 1..N are the trials.        *)
(***************************************************************************)
EXTENDS Integers, FiniteSets

CONSTANTS
    N,               \* scenarios x models x trials
    Concurrency,     \* benchmark.concurrency
    Retries,         \* benchmark.retries; nothing rejects a negative value
    FlushOnTrialEnd  \* telemetry.flushOnTrialEnd

ASSUME NAssumption == N \in Nat
ASSUME ConcurrencyAssumption == Concurrency \in Nat \ {0}
ASSUME RetriesAssumption == Retries \in Int
ASSUME FlushAssumption == FlushOnTrialEnd \in BOOLEAN

Trials == 1..N
Flushers == 0..N
Terminal == {"completed", "failed", "timeout", "cancelled"}

(* How a call to Execute ends: success; result.Error with ExitCode -1; any  *)
(* other failure (execErr, or result.Error with another exit code).         *)
Outcomes == {"ok", "sentinel", "failure"}

VARIABLES
    main,        \* "spawn" | "flush" | "flushing" | "finished"
    spawned,     \* iterations of the loop that starts the goroutines
    wg,          \* the counter of the WaitGroup
    sem,         \* elements in the channel `sem`
    cancelled,   \* ctx.Err() # nil
    pc,          \* pc[t]: where the goroutine of trial t is
    attempt,     \* attempt[t]: the loop variable of runTrial
    retryCount,  \* retryCount[t]: what runTrial hands to BuildTrialMetrics
    outcome,     \* outcome[t]: result and execErr of the last call to Execute
    status,      \* status[t]: ExecutionStatus of the goroutine's copy of the trial
    results,     \* results[t]: ExecutionStatus in the slice RunTrials returns
    lateCalls,   \* lateCalls[t]: calls to Execute that began with ctx cancelled
    contexts,    \* keys of the adapter's trialContexts map
    batch,       \* trials with events in the adapter's batch
    taken,       \* taken[p]: the events Flush copied, when process p is sending
    shown,       \* shown[s]: trials the display counts under status s
    retriesShown \* retry notices printed

trialVars == <<attempt, retryCount, outcome, status, results, lateCalls>>
telemetryVars == <<contexts, batch, taken>>
displayVars == <<shown, retriesShown>>
mainVars == <<main, spawned>>
vars == <<mainVars, wg, sem, cancelled, pc, trialVars, telemetryVars, displayVars>>

(* The places of a goroutine: the ones inside runTrial, the ones where it   *)
(* holds an element of `sem`, and all of them.                              *)
InTrial == {"begin", "attempt", "executing", "finish", "annotate", "flush",
            "flushing", "report"}
Holding == InTrial \cup {"release"}
Places == Holding \cup {"unspawned", "select", "parked", "woken",
                      "reportCancelled", "exit", "done"}

TypeOK ==
    /\ main \in {"spawn", "flush", "flushing", "finished"}
    /\ spawned \in 0..N
    /\ wg \in 0..N
    /\ sem \in 0..Concurrency
    /\ cancelled \in BOOLEAN
    /\ pc \in [Trials -> Places]
    /\ attempt \in [Trials -> Nat]
    /\ retryCount \in [Trials -> Nat]
    /\ outcome \in [Trials -> Outcomes \cup {"none"}]
    /\ status \in [Trials -> Terminal \cup {"pending", "running"}]
    /\ results \in [Trials -> Terminal \cup {"pending"}]
    /\ lateCalls \in [Trials -> Nat]
    /\ contexts \subseteq Trials
    /\ batch \subseteq Trials
    /\ taken \in [Flushers -> SUBSET Trials]
    /\ shown \in [Terminal -> Nat]
    /\ retriesShown \in Nat

Init ==
    /\ main = "spawn"
    /\ spawned = 0
    /\ wg = 0
    /\ sem = 0
    /\ cancelled = FALSE
    /\ pc = [t \in Trials |-> "unspawned"]
    /\ attempt = [t \in Trials |-> 0]
    /\ retryCount = [t \in Trials |-> 0]
    /\ outcome = [t \in Trials |-> "none"]
    /\ status = [t \in Trials |-> "pending"]
    /\ results = [t \in Trials |-> "pending"]
    /\ lateCalls = [t \in Trials |-> 0]
    /\ contexts = {}
    /\ batch = {}
    /\ taken = [p \in Flushers |-> {}]
    /\ shown = [s \in Terminal |-> 0]
    /\ retriesShown = 0

Goto(t, place) == pc' = [pc EXCEPT ![t] = place]

-----------------------------------------------------------------------------
(* The loop of RunTrials that starts the goroutines, and the context that   *)
(* signal.NotifyContext cancels on the first interrupt.                     *)

\* wg.Add(1) inside the goroutine instead of before `go`.
SpawnWithoutAdd ==
    /\ main = "spawn"
    /\ spawned < N
    /\ spawned' = spawned + 1
    /\ Goto(spawned + 1, "select")
    /\ UNCHANGED <<main, wg, sem, cancelled, trialVars, telemetryVars, displayVars>>

Spawn ==
    /\ main = "spawn"
    /\ spawned < N
    /\ spawned' = spawned + 1
    /\ wg' = wg + 1
    /\ Goto(spawned + 1, "select")
    /\ UNCHANGED <<main, sem, cancelled, trialVars, telemetryVars, displayVars>>

\* Closing ctx.Done hands every goroutine blocked in the select that case.
Interrupt ==
    /\ main # "finished"
    /\ ~cancelled
    /\ cancelled' = TRUE
    /\ pc' = [t \in Trials |-> IF pc[t] = "parked" THEN "woken" ELSE pc[t]]
    /\ UNCHANGED <<mainVars, wg, sem, trialVars, telemetryVars, displayVars>>

-----------------------------------------------------------------------------
(* The goroutine of trial t: the select. With a free slot and a cancelled   *)
(* context both cases are ready and Go picks either; with neither the       *)
(* goroutine blocks, and takes whichever case becomes ready first.          *)

Park(t) ==
    /\ pc[t] = "select"
    /\ sem = Concurrency
    /\ ~cancelled
    /\ Goto(t, "parked")
    /\ UNCHANGED <<mainVars, wg, sem, cancelled, trialVars, telemetryVars, displayVars>>

\* A semaphore one element too large.
AcquireOneTooMany(t) ==
    /\ pc[t] \in {"select", "parked"}
    /\ sem <= Concurrency
    /\ sem' = sem + 1
    /\ Goto(t, "begin")
    /\ UNCHANGED <<mainVars, wg, cancelled, trialVars, telemetryVars, displayVars>>

Acquire(t) ==
    /\ pc[t] \in {"select", "parked"}
    /\ sem < Concurrency
    /\ sem' = sem + 1
    /\ Goto(t, "begin")
    /\ UNCHANGED <<mainVars, wg, cancelled, trialVars, telemetryVars, displayVars>>

\* The cancelled branch without its early return: the trial runs as well.
CancelAndRunOn(t) ==
    /\ pc[t] = "woken" \/ (pc[t] = "select" /\ cancelled)
    /\ status' = [status EXCEPT ![t] = "cancelled"]
    /\ results' = [results EXCEPT ![t] = "cancelled"]
    /\ Goto(t, "begin")
    /\ UNCHANGED <<mainVars, wg, sem, cancelled, attempt, retryCount, outcome,
                   lateCalls, telemetryVars, displayVars>>

ObserveCancel(t) ==
    /\ pc[t] = "woken" \/ (pc[t] = "select" /\ cancelled)
    /\ status' = [status EXCEPT ![t] = "cancelled"]
    /\ results' = [results EXCEPT ![t] = "cancelled"]
    /\ Goto(t, "reportCancelled")
    /\ UNCHANGED <<mainVars, wg, sem, cancelled, attempt, retryCount, outcome,
                   lateCalls, telemetryVars, displayVars>>

-----------------------------------------------------------------------------
(* runTrial. *)

Begin(t) ==
    /\ pc[t] = "begin"
    /\ status' = [status EXCEPT ![t] = "running"]
    /\ contexts' = contexts \cup {t}
    /\ Goto(t, IF Retries < 0 THEN "finish" ELSE "attempt")
    /\ UNCHANGED <<mainVars, wg, sem, cancelled, attempt, retryCount, outcome,
                   results, lateCalls, batch, taken, displayVars>>

\* The head of the loop and the call to Execute.
StartAttempt(t) ==
    LET again == IF attempt[t] > 0 THEN 1 ELSE 0 IN
    /\ pc[t] = "attempt"
    /\ retryCount' = [retryCount EXCEPT ![t] = @ + again]
    /\ retriesShown' = retriesShown + again
    /\ lateCalls' = [lateCalls EXCEPT ![t] = @ + (IF cancelled THEN 1 ELSE 0)]
    /\ Goto(t, "executing")
    /\ UNCHANGED <<mainVars, wg, sem, cancelled, attempt, outcome, status,
                   results, telemetryVars, shown>>

(* Execute returns and the loop decides. A call that began with a cancelled *)
(* context cannot succeed: exec.Cmd.Start refuses to start the child, and   *)
(* FakeAdapter waits on ctx.Done.                                           *)
Returns(t, o) ==
    /\ pc[t] = "executing"
    /\ lateCalls[t] > 0 => o # "ok"
    /\ outcome' = [outcome EXCEPT ![t] = o]
    /\ UNCHANGED <<mainVars, wg, sem, cancelled, retryCount, status, results,
                   lateCalls, telemetryVars, displayVars>>

LeaveLoop(t) ==
    /\ Goto(t, "finish")
    /\ UNCHANGED attempt

\* attempt++, and the loop condition attempt <= Retries.
NextAttempt(t) ==
    /\ attempt' = [attempt EXCEPT ![t] = @ + 1]
    /\ Goto(t, IF attempt[t] + 1 <= Retries THEN "attempt" ELSE "finish")

\* The loop without the check of ctx.Err().
DecideIgnoringContext(t, o) ==
    IF o = "ok" THEN LeaveLoop(t) ELSE NextAttempt(t)

\* The loop without the break on success.
DecideIgnoringSuccess(t, o) ==
    IF cancelled THEN LeaveLoop(t) ELSE NextAttempt(t)

DecideAfter(t, o) ==
    IF o = "ok" \/ cancelled THEN LeaveLoop(t) ELSE NextAttempt(t)

AdapterReturns(t, o) == Returns(t, o) /\ DecideAfter(t, o)

ApplyOutcome(o) ==
    CASE o = "ok" -> "completed"
      [] o = "sentinel" -> "timeout"
      [] OTHER -> "failed"

\* applyOutcome, and FinishTrial up to the removal of the stored context.
Finish(t) ==
    /\ pc[t] = "finish"
    /\ status' = [status EXCEPT ![t] = ApplyOutcome(outcome[t])]
    /\ contexts' = contexts \ {t}
    /\ Goto(t, "annotate")
    /\ UNCHANGED <<mainVars, wg, sem, cancelled, attempt, retryCount, outcome,
                   results, lateCalls, batch, taken, displayVars>>

\* The rest of FinishTrial queues events, or none when no trace is found.
Annotate(t) ==
    /\ pc[t] = "annotate"
    /\ batch' \in {batch, batch \cup {t}}
    /\ Goto(t, IF FlushOnTrialEnd THEN "flush" ELSE "report")
    /\ UNCHANGED <<mainVars, wg, sem, cancelled, trialVars, contexts, taken, displayVars>>

-----------------------------------------------------------------------------
(* Flush, by a trial or by main: under the lock the batch is copied and     *)
(* emptied, the copy is sent without the lock, and the events that failed   *)
(* in a retryable way are put back.                                         *)

TakeBatch(p) ==
    /\ taken' = [taken EXCEPT ![p] = batch]
    /\ batch' = {}
    /\ UNCHANGED contexts

Settle(p) ==
    /\ \E failed \in SUBSET taken[p] : batch' = batch \cup failed
    /\ taken' = [taken EXCEPT ![p] = {}]
    /\ UNCHANGED contexts

TrialFlush(t) ==
    /\ pc[t] = "flush"
    /\ TakeBatch(t)
    /\ Goto(t, IF batch = {} THEN "report" ELSE "flushing")
    /\ UNCHANGED <<mainVars, wg, sem, cancelled, trialVars, displayVars>>

TrialFlushed(t) ==
    /\ pc[t] = "flushing"
    /\ Settle(t)
    /\ Goto(t, "report")
    /\ UNCHANGED <<mainVars, wg, sem, cancelled, trialVars, displayVars>>

-----------------------------------------------------------------------------
(* OnTrialComplete, the write to results, and the deferred calls in the     *)
(* order Go runs them: the slot first, the WaitGroup last.                  *)

Count(s) == shown' = [shown EXCEPT ![s] = @ + 1]

Report(t) ==
    /\ pc[t] = "report"
    /\ Count(status[t])
    /\ Goto(t, "release")
    /\ UNCHANGED <<mainVars, wg, sem, cancelled, trialVars, telemetryVars, retriesShown>>

\* The cancelled branch forgets OnTrialComplete.
SkipReportCancelled(t) ==
    /\ pc[t] = "reportCancelled"
    /\ Goto(t, "exit")
    /\ UNCHANGED <<mainVars, wg, sem, cancelled, trialVars, telemetryVars, displayVars>>

ReportCancelled(t) ==
    /\ pc[t] = "reportCancelled"
    /\ Count("cancelled")
    /\ Goto(t, "exit")
    /\ UNCHANGED <<mainVars, wg, sem, cancelled, trialVars, telemetryVars, retriesShown>>

\* The slot is not given back.
KeepSlot(t) ==
    /\ pc[t] = "release"
    /\ results' = [results EXCEPT ![t] = status[t]]
    /\ Goto(t, "exit")
    /\ UNCHANGED <<mainVars, wg, sem, cancelled, attempt, retryCount, outcome,
                   status, lateCalls, telemetryVars, displayVars>>

Release(t) ==
    /\ pc[t] = "release"
    /\ results' = [results EXCEPT ![t] = status[t]]
    /\ sem' = sem - 1
    /\ Goto(t, "exit")
    /\ UNCHANGED <<mainVars, wg, cancelled, attempt, retryCount, outcome,
                   status, lateCalls, telemetryVars, displayVars>>

Exit(t) ==
    /\ pc[t] = "exit"
    /\ wg' = wg - 1
    /\ Goto(t, "done")
    /\ UNCHANGED <<mainVars, sem, cancelled, trialVars, telemetryVars, displayVars>>

-----------------------------------------------------------------------------
(* main: wg.Wait, then the last Flush of Runner.Run. *)

\* The loop has started every goroutine and nobody waits for them.
ReturnUnwaited ==
    /\ main = "spawn"
    /\ spawned = N
    /\ main' = "flush"
    /\ UNCHANGED <<spawned, wg, sem, cancelled, pc, trialVars, telemetryVars, displayVars>>

WaitReturns ==
    /\ main = "spawn"
    /\ spawned = N
    /\ wg = 0
    /\ main' = "flush"
    /\ UNCHANGED <<spawned, wg, sem, cancelled, pc, trialVars, telemetryVars, displayVars>>

FinalFlush ==
    /\ main = "flush"
    /\ TakeBatch(0)
    /\ main' = IF batch = {} THEN "finished" ELSE "flushing"
    /\ UNCHANGED <<spawned, wg, sem, cancelled, pc, trialVars, displayVars>>

FinalFlushed ==
    /\ main = "flushing"
    /\ Settle(0)
    /\ main' = "finished"
    /\ UNCHANGED <<spawned, wg, sem, cancelled, pc, trialVars, displayVars>>

-----------------------------------------------------------------------------
TrialStep(t) ==
    \/ Park(t) \/ Acquire(t) \/ ObserveCancel(t)
    \/ Begin(t) \/ StartAttempt(t)
    \/ \E o \in Outcomes : AdapterReturns(t, o)
    \/ Finish(t) \/ Annotate(t) \/ TrialFlush(t) \/ TrialFlushed(t)
    \/ Report(t) \/ ReportCancelled(t) \/ Release(t) \/ Exit(t)

MainStep == Spawn \/ WaitReturns \/ FinalFlush \/ FinalFlushed

\* Run has returned: the process goes on to the report.
Finished == main = "finished" /\ UNCHANGED vars

Next ==
    \/ MainStep
    \/ Interrupt
    \/ \E t \in Trials : TrialStep(t)
    \/ Finished

(* Goroutines are scheduled, and a call to Execute returns. Nobody owes the *)
(* run an interrupt.                                                        *)
Fairness ==
    /\ WF_vars(MainStep)
    /\ \A t \in Trials : WF_vars(TrialStep(t))

Spec == Init /\ [][Next]_vars /\ Fairness

-----------------------------------------------------------------------------
(* Properties. *)

\* No more trials run their adapter, or hold a slot for any other reason,
\* than `concurrency` allows (executor.go: the channel sem).
ConcurrencyBound == Cardinality({t \in Trials : pc[t] \in Holding}) <= Concurrency

\* A trial recorded as cancelled was interrupted before it started: the
\* adapter was not called for it and telemetry never heard of it.
CancelledNeverStarted ==
    \A t \in Trials : results[t] = "cancelled" =>
        /\ cancelled
        /\ outcome[t] = "none" /\ attempt[t] = 0 /\ lateCalls[t] = 0
        /\ t \notin contexts \cup batch
        /\ pc[t] \notin InTrial

\* After an interrupt a trial calls its adapter at most once more, whatever
\* retries are left, and such a trial is not recorded as completed.
OneCallAfterCancel ==
    \A t \in Trials :
        /\ lateCalls[t] <= 1
        /\ lateCalls[t] = 1 => status[t] # "completed"

\* When RunTrials returns, the display has counted every trial once, under
\* the status the results hold, although the callback runs before the result
\* of a trial is stored, and after it for a cancelled one.
DisplayMatchesResults ==
    main # "spawn" =>
        \A s \in Terminal : shown[s] = Cardinality({t \in Trials : results[t] = s})

\* wg.Wait separates the trials from what follows: no goroutine is inside a
\* trial, every result is stored, every slot and telemetry context returned.
ReturnsAfterAll ==
    main # "spawn" =>
        /\ \A t \in Trials : pc[t] = "done" /\ results[t] \in Terminal
        /\ sem = 0
        /\ contexts = {}

\* The last Flush of Run takes everything that is left: while it sends, no
\* event is in the batch and none is in the hands of a trial's own flush,
\* which could put it back after the last chance to send it.
FinalFlushSeesAll ==
    main = "flushing" => batch = {} /\ \A t \in Trials : taken[t] = {}

\* An attempt follows only a failed one, and the recorded number of retries
\* never passes the configured one.
RetryAfterFailure ==
    [][\A t \in Trials : retryCount'[t] # retryCount[t] =>
           /\ outcome[t] \in Outcomes \ {"ok"}
           /\ retryCount'[t] = attempt[t]
           /\ retryCount'[t] <= Retries]_vars

\* The executor keeps the promise of BenchmarkRun, its liveness included.
Benchmark == INSTANCE BenchmarkRun WITH
    outcome <- results,
    interrupted <- cancelled,
    returned <- main # "spawn"
ImplementsBenchmarkRun == Benchmark!Spec

-----------------------------------------------------------------------------
(* The inductive invariant: what the state says between any two steps.      *)

\* Places before the adapter and telemetry have heard of the trial.
Before == {"unspawned", "select", "parked", "woken"}
\* Places after OnTrialComplete.
Reported == {"release", "exit", "done"}

Holders == {t \in Trials : pc[t] \in Holding}
Active == {t \in Trials : pc[t] \notin {"unspawned", "done"}}
ShownAs(s) == {t \in Trials : pc[t] \in Reported /\ status[t] = s}

Untouched(t) ==
    /\ outcome[t] = "none" /\ attempt[t] = 0 /\ lateCalls[t] = 0
    /\ t \notin contexts /\ t \notin batch
    /\ \A p \in Flushers : t \notin taken[p]

\* The two counters Go keeps are the numbers of goroutines they stand for.
SlotsInv == sem = Cardinality(Holders)
WaitInv == wg = Cardinality(Active)
SpawnInv == \A t \in Trials : t > spawned <=> pc[t] = "unspawned"

\* A result is stored at the select of a cancelled trial, at the release of
\* another one, and it is the status the goroutine has by then.
ResultInv ==
    \A t \in Trials :
        /\ results[t] = "pending" <=> pc[t] \in Before \cup Holding
        /\ results[t] # "pending" => results[t] = status[t]
        /\ pc[t] \in {"annotate", "flush", "flushing", "report", "release"} =>
               status[t] \in {"completed", "failed", "timeout"}
        /\ pc[t] \in {"woken", "reportCancelled"} => cancelled
        /\ pc[t] = "reportCancelled" => results[t] = "cancelled"

UntouchedInv ==
    \A t \in Trials :
        /\ pc[t] \in Before \cup {"reportCancelled"} => Untouched(t)
        /\ pc[t] = "begin" => attempt[t] = 0 /\ lateCalls[t] = 0 /\ outcome[t] = "none"
        /\ results[t] = "cancelled" => cancelled /\ Untouched(t)

LateInv ==
    \A t \in Trials :
        /\ lateCalls[t] > 0 => cancelled /\ lateCalls[t] = 1 /\ pc[t] # "attempt"
        /\ lateCalls[t] > 0 /\ pc[t] # "executing" => outcome[t] # "ok"
        /\ status[t] = "completed" =>
               /\ outcome[t] = "ok"
               /\ pc[t] \notin {"begin", "attempt", "executing", "finish"}

\* Before an attempt the count is one behind the loop variable, once the call
\* has begun they agree; a loop that goes round has seen a failure.
RetryInv ==
    \A t \in Trials :
        /\ pc[t] \in Before \cup {"begin"} => retryCount[t] = 0
        /\ pc[t] = "attempt" =>
               /\ attempt[t] <= Retries
               /\ attempt[t] = 0 => retryCount[t] = 0
               /\ attempt[t] > 0 => retryCount[t] = attempt[t] - 1
                                    /\ outcome[t] \in Outcomes \ {"ok"}
        /\ pc[t] = "executing" => retryCount[t] = attempt[t]

TelemetryInv ==
    /\ \A t \in Trials : t \in contexts <=> pc[t] \in {"attempt", "executing", "finish"}
    /\ \A t \in Trials : pc[t] # "flushing" => taken[t] = {}

MainInv ==
    /\ main # "spawn" => \A t \in Trials : pc[t] = "done"
    /\ main = "flushing" => batch = {}

ShownInv == \A s \in Terminal : shown[s] = Cardinality(ShownAs(s))

IInv ==
    /\ TypeOK
    /\ SlotsInv /\ WaitInv /\ SpawnInv /\ ResultInv /\ UntouchedInv
    /\ LateInv /\ RetryInv /\ TelemetryInv /\ MainInv /\ ShownInv
=============================================================================
