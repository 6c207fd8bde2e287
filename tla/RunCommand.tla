----------------------------- MODULE RunCommand -----------------------------
(***************************************************************************)
(* The commands `trimetry run` and `trimetry validate`: the steps of       *)
(* runBenchmark and runValidate in their order, each early return, the     *)
(* files Generator.Write leaves behind, and the exit code. The trials      *)
(* between them are Progress.                                              *)
(***************************************************************************)
EXTENDS Integers, Sequences, FiniteSets

CONSTANTS Scenarios, Models, TrialsPerCombo, IsTTY

VARIABLES
    command,   \* "run" | "validate"
    dryRun,    \* the flag --dry-run
    given,     \* the Config as Load returns it
    cfg,       \* the Config as later steps see it
    stage,     \* the next step of the command
    app, tel,  \* the adapters in use, "none" before
    format,    \* position in cfg.formats of the loop in Generator.Write
    files,     \* files[f]: "absent" | "partial" | "complete"
    summary,   \* Finalize has printed the results
    exitCode,  \* 0, 1, or -1 while the command runs
    results, counts, completed, panicked  \* of Progress

P == INSTANCE Progress

progressVars == <<results, counts, completed, panicked>>
inputVars == <<command, dryRun, given>>
adapterVars == <<app, tel>>
reportVars == <<format, files>>
vars == <<inputVars, cfg, stage, adapterVars, reportVars, summary, exitCode, progressVars>>

Supported == {"opencode", "claude", "codex", "cursor", "fake"}
Files == {"run-manifest.json", "trials.jsonl", "errors.jsonl", "summary.json", "summary.md"}

FileOf(kind) == IF kind = "json" THEN "summary.json" ELSE "summary.md"

(* What a config can say, as far as the command tells it apart: `readable`  *)
(* for os.ReadFile and the YAML parser, `sound` for every other check of    *)
(* Validate, `keys` for the settings an enabled provider needs.             *)
Configs ==
    [readable : BOOLEAN, sound : BOOLEAN,
     adapter : {"claude", "unknown"},
     telemetry : {"off", "langfuse", "mlflow", "unknown"}, keys : BOOLEAN,
     formats : {<<"json">>, <<"json", "markdown">>, <<"pdf">>}]

TypeOK ==
    /\ command \in {"run", "validate"}
    /\ dryRun \in BOOLEAN
    /\ given \in Configs
    /\ cfg.adapter \in {"claude", "unknown", "fake"}
    /\ stage \in {"load", "validate", "dryRun", "adapter", "telemetry", "trials",
                  "mkdir", "run-manifest.json", "trials.jsonl", "errors.jsonl",
                  "formats", "finalize", "exited"}
    /\ app \in Supported \cup {"none"}
    /\ tel \in {"none", "noop", "langfuse", "mlflow"}
    /\ files \in [Files -> {"absent", "partial", "complete"}]
    /\ format \in 1..3
    /\ summary \in BOOLEAN
    /\ exitCode \in {-1, 0, 1}
    /\ P!TypeOK

Init ==
    /\ command \in {"run", "validate"}
    /\ dryRun \in BOOLEAN
    /\ given \in Configs
    /\ cfg = given
    /\ stage = "load"
    /\ app = "none" /\ tel = "none"
    /\ format = 1
    /\ files = [f \in Files |-> "absent"]
    /\ summary = FALSE
    /\ exitCode = -1
    /\ P!Init

Goto(s) == stage' = s /\ UNCHANGED exitCode
Exit(code) == stage' = "exited" /\ exitCode' = code

-----------------------------------------------------------------------------
(* Config. *)

Load ==
    /\ stage = "load"
    /\ IF cfg.readable THEN Goto("validate") ELSE Exit(1)
    /\ UNCHANGED <<inputVars, cfg, adapterVars, reportVars, summary, progressVars>>

TelemetryOK(c) ==
    c.telemetry = "off" \/ (c.telemetry # "unknown" /\ c.keys)

Valid(c) ==
    /\ c.sound
    /\ TelemetryOK(c)
    /\ \A i \in DOMAIN c.formats : c.formats[i] \in {"json", "markdown"}
    /\ c.adapter \in Supported

\* The formats are not looked at before the report is written.
ValidateLate ==
    /\ stage = "validate"
    /\ IF ~(cfg.sound /\ TelemetryOK(cfg)) THEN Exit(1)
       ELSE IF command = "validate" THEN Exit(0) ELSE Goto("dryRun")
    /\ UNCHANGED <<inputVars, cfg, adapterVars, reportVars, summary, progressVars>>

\* runValidate ends here, whatever its flags: it does not look at --dry-run. Nor
\* does runBenchmark before it has validated the config as it is in the file.
Validate ==
    /\ stage = "validate"
    /\ IF ~Valid(cfg) THEN Exit(1)
       ELSE IF command = "validate" THEN Exit(0) ELSE Goto("dryRun")
    /\ UNCHANGED <<inputVars, cfg, adapterVars, reportVars, summary, progressVars>>

ApplyDryRun ==
    /\ stage = "dryRun"
    /\ cfg' = IF dryRun THEN [cfg EXCEPT !.adapter = "fake", !.telemetry = "off"] ELSE cfg
    /\ Goto("adapter")
    /\ UNCHANGED <<inputVars, adapterVars, reportVars, summary, progressVars>>

-----------------------------------------------------------------------------
(* The factories. NewAdapter knows the same types as Validate. *)

NewAdapter ==
    /\ stage = "adapter"
    /\ IF cfg.adapter \in Supported
       THEN app' = cfg.adapter /\ Goto("telemetry")
       ELSE UNCHANGED app /\ Exit(1)
    /\ UNCHANGED <<inputVars, cfg, tel, reportVars, summary, progressVars>>

NewFromConfig ==
    /\ stage = "telemetry"
    /\ tel' = CASE cfg.telemetry = "off" -> "noop"
                [] cfg.telemetry = "mlflow" -> "mlflow"
                [] OTHER -> "langfuse"
    /\ Goto("trials")
    /\ UNCHANGED <<inputVars, cfg, app, reportVars, summary, progressVars>>

-----------------------------------------------------------------------------
(* Runner.Run: the trials end in any order, then it returns. *)

TrialEnds ==
    /\ stage = "trials"
    /\ \E t \in P!Trials, s \in P!Terminal : P!OnTrialComplete(t, s)
    /\ UNCHANGED <<inputVars, cfg, stage, adapterVars, reportVars, summary, exitCode>>

RunReturns ==
    /\ stage = "trials"
    /\ P!AllReported
    /\ Goto("mkdir")
    /\ UNCHANGED <<inputVars, cfg, adapterVars, reportVars, summary, progressVars>>

-----------------------------------------------------------------------------
(* Generator.Write: a failure of any step returns, and what was written     *)
(* before it stays. *)

MkdirAll ==
    /\ stage = "mkdir"
    /\ Goto("run-manifest.json") \/ Exit(1)
    /\ UNCHANGED <<inputVars, cfg, adapterVars, reportVars, summary, progressVars>>

\* One file: written, or cut short, or not even created.
Write(f, next) ==
    \/ files' = [files EXCEPT ![f] = "complete"] /\ Goto(next)
    \/ files' \in {files, [files EXCEPT ![f] = "partial"]} /\ Exit(1)

\* The error of the writer is not looked at.
WriteUnchecked(f, next) ==
    /\ files' \in {[files EXCEPT ![f] = "complete"], [files EXCEPT ![f] = "partial"], files}
    /\ Goto(next)

WriteManifest ==
    /\ stage = "run-manifest.json"
    /\ Write("run-manifest.json", "trials.jsonl")
    /\ UNCHANGED <<inputVars, cfg, adapterVars, format, summary, progressVars>>

WriteTrialsUnchecked ==
    /\ stage = "trials.jsonl"
    /\ WriteUnchecked("trials.jsonl", "errors.jsonl")
    /\ UNCHANGED <<inputVars, cfg, adapterVars, format, summary, progressVars>>

WriteTrials ==
    /\ stage = "trials.jsonl"
    /\ Write("trials.jsonl", "errors.jsonl")
    /\ UNCHANGED <<inputVars, cfg, adapterVars, format, summary, progressVars>>

WriteErrors ==
    /\ stage = "errors.jsonl"
    /\ Write("errors.jsonl", "formats")
    /\ UNCHANGED <<inputVars, cfg, adapterVars, format, summary, progressVars>>

\* writeMarkdownSummary looks at the error of os.Create only: what its buffered
\* writer meets, at the deferred Flush as well, is dropped.
WriteUnseen(f, next) ==
    \/ files' \in {[files EXCEPT ![f] = v] : v \in {"partial", "complete"}} /\ Goto(next)
    \/ UNCHANGED files /\ Exit(1)

\* The loop over the formats goes on after a failure.
WriteFormatUnchecked ==
    /\ stage = "formats"
    /\ format' = format + 1
    /\ WriteUnchecked(FileOf(cfg.formats[format]),
                      IF format < Len(cfg.formats) THEN "formats" ELSE "finalize")
    /\ UNCHANGED <<inputVars, cfg, adapterVars, summary, progressVars>>

\* One iteration; Load never leaves the list of formats empty.
WriteFormat ==
    LET next == IF format < Len(cfg.formats) THEN "formats" ELSE "finalize" IN
    /\ stage = "formats"
    /\ format' = format + 1
    /\ CASE cfg.formats[format] = "json" -> Write("summary.json", next)
         [] cfg.formats[format] = "markdown" -> WriteUnseen("summary.md", next)
         [] OTHER -> UNCHANGED files /\ Goto(next)
    /\ UNCHANGED <<inputVars, cfg, adapterVars, summary, progressVars>>

\* Finalize, and the 0 that runBenchmark returns whatever the trials did.
Finalize ==
    /\ stage = "finalize"
    /\ summary' = TRUE
    /\ Exit(0)
    /\ UNCHANGED <<inputVars, cfg, adapterVars, reportVars, progressVars>>

-----------------------------------------------------------------------------
CommandStep ==
    \/ Load \/ Validate \/ ApplyDryRun \/ NewAdapter \/ NewFromConfig
    \/ TrialEnds \/ RunReturns
    \/ MkdirAll \/ WriteManifest \/ WriteTrials \/ WriteErrors \/ WriteFormat
    \/ Finalize

Exited == stage = "exited" /\ UNCHANGED vars

Next == CommandStep \/ Exited

Spec == Init /\ [][Next]_vars /\ WF_vars(CommandStep)

-----------------------------------------------------------------------------
(* Properties. *)

\* Exit code 0 of a run means that every trial was decided, that the JSON files
\* on disk are whole, that every format the config names has its file, and that
\* the report was announced. (summary.md may be cut short: see WriteUnseen.)
ZeroMeansReported ==
    command = "run" /\ exitCode = 0 =>
        /\ P!AllReported
        /\ \A f \in {"run-manifest.json", "trials.jsonl", "errors.jsonl"} :
               files[f] = "complete"
        /\ \A i \in DOMAIN cfg.formats : files[FileOf(cfg.formats[i])] # "absent"
        /\ files["summary.json"] # "partial"
        /\ summary

\* The files appear in one order: whoever finds a summary finds all the trials
\* and errors it was made from, in a run that ended with an error as well.
SummaryImpliesTrials ==
    \A f \in {"summary.json", "summary.md"} : files[f] # "absent" =>
        /\ files["trials.jsonl"] = "complete"
        /\ files["errors.jsonl"] = "complete"
        /\ P!AllReported

\* No adapter of either kind exists, and nothing is on disk, unless the command
\* was `run` and the config it works with, after --dry-run, would pass Validate;
\* and then the agent and the telemetry are those of that config, in a dry run
\* the local ones. Validate sees the config before --dry-run changes it
\* (main.go:99-109), so what passed it and what runs are two configs. The property
\* asks a dry run for no telemetry keys, as README_en.md:195 promises; that the
\* code asks for them all the same is not a promise, and not stated here.
NothingRunsUnvalidated ==
    (app # "none" \/ tel # "none" \/ \E f \in Files : files[f] # "absent") =>
        /\ command = "run"
        /\ given.readable
        /\ Valid(cfg)
        /\ app = cfg.adapter
        /\ tel \in {"none", IF cfg.telemetry = "off" THEN "noop" ELSE cfg.telemetry}
        /\ dryRun => app = "fake" /\ tel \in {"none", "noop"}

\* Every command comes to an end, with an exit code.
CommandEnds == <>(exitCode \in {0, 1})

-----------------------------------------------------------------------------
(* What the documentation says, and the code does not do. *)

\* README_en.md:402, "If any trial fails, times out, or is cancelled, the `run`
\* command returns exit code 1".
FailedTrialExitsWithOne ==
    (exitCode = 0 /\ command = "run") =>
        \A t \in P!Trials : results[t] = "completed"
=============================================================================
