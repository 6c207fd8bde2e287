------------------------- MODULE RunCommand_proofs -------------------------
(***************************************************************************)
(* Proofs about RunCommand for all lists of scenarios and models and every *)
(* number of trials: exit code 0 of a run means a whole report, a summary  *)
(* is never there before the trials it counts, and nothing runs on a       *)
(* config that would not pass Validate as it is then.                      *)
(***************************************************************************)
EXTENDS RunCommand, TLAPS

-----------------------------------------------------------------------------
(* The inductive invariant. *)

Stages == {"load", "validate", "dryRun", "adapter", "telemetry", "trials",
           "mkdir", "run-manifest.json", "trials.jsonl", "errors.jsonl",
           "formats", "finalize", "exited"}

\* The stages of Generator.Write and after it, and those with both adapters.
Writing == {"mkdir", "run-manifest.json", "trials.jsonl", "errors.jsonl", "formats", "finalize"}
Equipped == {"trials"} \cup Writing

\* The Config after --dry-run.
Effective ==
    IF dryRun THEN [given EXCEPT !.adapter = "fake", !.telemetry = "off"] ELSE given

\* The telemetry NewFromConfig makes for it.
EffectiveTel ==
    CASE Effective.telemetry = "off" -> "noop"
      [] Effective.telemetry = "mlflow" -> "mlflow"
      [] OTHER -> "langfuse"

StateInv ==
    /\ command \in {"run", "validate"}
    /\ dryRun \in BOOLEAN
    /\ given \in Configs
    /\ stage \in Stages
    /\ files \in [Files -> {"absent", "partial", "complete"}]
    /\ format \in 1..Len(given.formats) + 1
    /\ summary \in BOOLEAN
    /\ exitCode \in {-1, 0, 1}
    /\ stage # "exited" <=> exitCode = -1

\* Behind Validate the command is `run` and the config is one it passed; the
\* flag is applied once, before the factories.
ConfigInv ==
    /\ stage = "validate" => given.readable
    /\ stage \notin {"load", "validate", "exited"} =>
           command = "run" /\ given.readable /\ Valid(given)
    /\ stage \in {"load", "validate", "dryRun"} => cfg = given
    /\ stage \in {"adapter", "telemetry"} \cup Equipped => cfg = Effective
    /\ cfg \in {given, Effective} /\ cfg.formats = given.formats

\* The factories run in turn.
AdapterInv ==
    /\ stage \in {"load", "validate", "dryRun", "adapter"} => app = "none"
    /\ stage \in {"telemetry"} \cup Equipped => app = Effective.adapter
    /\ stage \in {"load", "validate", "dryRun", "adapter", "telemetry"} => tel = "none"
    /\ stage \in Equipped => tel = EffectiveTel

\* The files appear in the order of Generator.Write, each whole before the
\* next, those of the formats up to the one the loop is at.
FilesInv ==
    /\ stage \in Writing => P!AllReported
    /\ stage \notin {"trials.jsonl", "errors.jsonl", "formats", "finalize", "exited"} =>
           \A f \in Files : files[f] = "absent"
    /\ stage \in {"trials.jsonl", "errors.jsonl", "formats", "finalize"} =>
           files["run-manifest.json"] = "complete"
    /\ stage \in {"errors.jsonl", "formats", "finalize"} => files["trials.jsonl"] = "complete"
    /\ stage \in {"formats", "finalize"} => files["errors.jsonl"] = "complete"
    /\ stage = "trials.jsonl" => files["trials.jsonl"] = "absent"
    /\ stage \in {"trials.jsonl", "errors.jsonl"} =>
           files["summary.json"] = "absent" /\ files["summary.md"] = "absent"
    /\ stage \in {"formats", "finalize"} => files["summary.json"] # "partial"
    /\ stage \notin {"formats", "finalize", "exited"} => format = 1
    /\ stage = "formats" => format <= Len(given.formats)
    /\ stage = "finalize" => format = Len(given.formats) + 1
    /\ stage \in {"formats", "finalize"} =>
           \A i \in 1..format - 1 : files[FileOf(given.formats[i])] # "absent"

StageInv == StateInv /\ ConfigInv /\ AdapterInv /\ FilesInv

\* What the command promises, which it does when it exits as well.
Promises == ZeroMeansReported /\ SummaryImpliesTrials /\ NothingRunsUnvalidated

IInv == StageInv /\ Promises

-----------------------------------------------------------------------------
(* The config, and what is promised of it. *)

\* Load leaves one or two formats, and those that pass Validate have a file.
LEMMA FormatsType ==
    ASSUME NEW c \in Configs
    PROVE  /\ Len(c.formats) \in {1, 2} /\ DOMAIN c.formats = 1..Len(c.formats)
           /\ Valid(c) => \A i \in 1..Len(c.formats) : c.formats[i] \in {"json", "markdown"}
<1>1. /\ Len(c.formats) \in {1, 2} /\ DOMAIN c.formats = 1..Len(c.formats)
  <2>1. c.formats \in {<<"json">>, <<"json", "markdown">>, <<"pdf">>}
    BY DEF Configs
  <2> QED
    BY <2>1
<1> QED
  BY <1>1 DEF Valid

\* The file of a format is one of the report's.
LEMMA FileOfType == \A kind : FileOf(kind) \in {"summary.json", "summary.md"}
  BY DEF FileOf

\* What --dry-run changes, and what it leaves.
LEMMA EffectiveConfig ==
    ASSUME StateInv
    PROVE  /\ Effective.formats = given.formats
           /\ Effective.adapter = IF dryRun THEN "fake" ELSE given.adapter
           /\ Effective.telemetry = IF dryRun THEN "off" ELSE given.telemetry
           /\ Valid(given) => /\ Valid(Effective)
                              /\ EffectiveTel = IF Effective.telemetry = "off"
                                                THEN "noop" ELSE Effective.telemetry
<1>1. /\ Effective.formats = given.formats
      /\ Effective.adapter = IF dryRun THEN "fake" ELSE given.adapter
      /\ Effective.telemetry = IF dryRun THEN "off" ELSE given.telemetry
  BY DEF StateInv, Configs, Effective
<1>2. given.telemetry \in {"off", "langfuse", "mlflow", "unknown"}
  BY DEF StateInv, Configs
<1>3. ASSUME Valid(given)
      PROVE  /\ Valid(Effective)
             /\ EffectiveTel = IF Effective.telemetry = "off"
                               THEN "noop" ELSE Effective.telemetry
  <2>1. given.telemetry # "unknown" /\ given.adapter \in Supported
    BY <1>3 DEF Valid, TelemetryOK
  <2>2. EffectiveTel = IF Effective.telemetry = "off" THEN "noop"
                       ELSE IF Effective.telemetry = "mlflow" THEN "mlflow" ELSE "langfuse"
    BY DEF EffectiveTel
  <2>3. Effective.sound = given.sound /\ Effective.keys = given.keys
    BY DEF StateInv, Configs, Effective
  <2>4. Valid(Effective)
    BY <1>1, <1>3, <2>3 DEF Valid, TelemetryOK, Supported
  <2> QED
    BY <1>1, <1>2, <2>1, <2>2, <2>4
<1> QED
  BY <1>1, <1>3

\* The flags and the config given are as they were, and so is what follows.
LEMMA InputsSame ==
    ASSUME UNCHANGED inputVars
    PROVE  /\ command' = command /\ dryRun' = dryRun /\ given' = given
           /\ Effective' = Effective /\ EffectiveTel' = EffectiveTel
           /\ Valid(given)' = Valid(given)
  BY DEF inputVars, Effective, EffectiveTel, Valid, TelemetryOK

\* So is what Validate says of the config, when that stays.
LEMMA ConfigSame == ASSUME UNCHANGED cfg PROVE Valid(cfg)' <=> Valid(cfg)
  BY DEF Valid, TelemetryOK

\* So are the results of the trials.
LEMMA ReportedSame ==
    ASSUME UNCHANGED progressVars PROVE P!AllReported' <=> P!AllReported
  BY DEF progressVars, P!AllReported, P!Trials, P!Combos

\* While the command runs, how far it is implies all it promises.
LEMMA RunningPromises == StageInv /\ stage # "exited" => Promises
<1> SUFFICES ASSUME StageInv, stage # "exited" PROVE Promises
  OBVIOUS
<1>1. ZeroMeansReported
  BY DEF StageInv, StateInv, ZeroMeansReported
<1>2. SummaryImpliesTrials
  <2> SUFFICES ASSUME NEW f \in {"summary.json", "summary.md"}, files[f] # "absent"
               PROVE  /\ files["trials.jsonl"] = "complete"
                      /\ files["errors.jsonl"] = "complete"
                      /\ P!AllReported
    BY DEF SummaryImpliesTrials
  <2>1. f \in Files
    BY DEF Files
  <2>2. stage \in {"formats", "finalize"}
    BY <2>1 DEF StageInv, StateInv, Stages, FilesInv
  <2> QED
    BY <2>2 DEF StageInv, FilesInv, Writing
<1>3. NothingRunsUnvalidated
  <2> SUFFICES ASSUME app # "none" \/ tel # "none" \/ \E f \in Files : files[f] # "absent"
               PROVE  /\ command = "run"
                      /\ given.readable
                      /\ Valid(given) /\ cfg = Effective
                      /\ app = Effective.adapter
                      /\ tel \in {"none", EffectiveTel}
    BY EffectiveConfig DEF StageInv, NothingRunsUnvalidated
  <2>1. stage \in {"telemetry"} \cup Equipped
    BY DEF StageInv, StateInv, Stages, AdapterInv, FilesInv, Equipped, Writing
  <2>2. app = Effective.adapter /\ tel \in {"none", EffectiveTel}
    BY <2>1 DEF StageInv, AdapterInv
  <2> QED
    BY <2>1, <2>2 DEF StageInv, ConfigInv, Equipped, Writing
<1> QED
  BY <1>1, <1>2, <1>3 DEF Promises

-----------------------------------------------------------------------------
(* The steps. *)

\* The invariant holds when the command starts.
LEMMA InitInv == Init => IInv
<1> SUFFICES ASSUME Init PROVE IInv
  OBVIOUS
<1>1. StateInv
  <2>1. format \in 1..Len(given.formats) + 1
    BY FormatsType DEF Init
  <2>2. summary \in BOOLEAN
    BY DEF Init
  <2> QED
    BY <2>1, <2>2 DEF Init, StateInv, Stages
<1>2. ConfigInv /\ AdapterInv /\ FilesInv
  BY DEF Init, ConfigInv, AdapterInv, FilesInv, Equipped, Writing
<1>3. stage # "exited"
  BY DEF Init
<1> QED
  BY <1>1, <1>2, <1>3, RunningPromises DEF IInv, StageInv

\* The command exits, before it has made or written anything, or with code 1
\* behind its trials.
LEMMA ExitKeeps ==
    ASSUME IInv, NEW code \in {0, 1}, Exit(code), stage # "exited",
           UNCHANGED <<inputVars, cfg, adapterVars, summary, progressVars>>,
           files' \in [Files -> {"absent", "partial", "complete"}],
           format' \in 1..Len(given.formats) + 1,
           code = 0 => command = "validate",
           \/ UNCHANGED files
           \/ stage \in Writing /\ files'["summary.json"] = "absent"
                                /\ files'["summary.md"] = "absent"
           \/ stage = "formats" /\ UNCHANGED <<files["trials.jsonl"], files["errors.jsonl"]>>
    PROVE  IInv'
<1>1. stage' = "exited" /\ exitCode' = code
  BY DEF Exit
<1>2. StateInv'
  BY <1>1, InputsSame DEF IInv, StageInv, StateInv, Stages
<1>3. ConfigInv' /\ AdapterInv'
  BY <1>1, InputsSame DEF IInv, StageInv, ConfigInv, AdapterInv, Equipped, Writing
<1>4. FilesInv'
  BY <1>1 DEF FilesInv, Writing
<1>5. ZeroMeansReported'
  BY <1>1, InputsSame DEF ZeroMeansReported
<1>6. SummaryImpliesTrials'
  BY ReportedSame DEF IInv, StageInv, Promises, SummaryImpliesTrials, FilesInv, Writing
<1>7. NothingRunsUnvalidated'
  <2>1. app' = app /\ tel' = tel
    BY DEF adapterVars
  <2>2. CASE UNCHANGED files
    BY <2>1, <2>2, InputsSame, ConfigSame DEF IInv, Promises, NothingRunsUnvalidated
  <2>3. CASE stage \in Writing
    <3>1. app = Effective.adapter /\ tel = EffectiveTel
      BY <2>3 DEF IInv, StageInv, AdapterInv, Equipped
    <3>2. command = "run" /\ given.readable /\ Valid(given) /\ cfg = Effective
      BY <2>3 DEF IInv, StageInv, ConfigInv, Equipped, Writing
    <3> QED
      BY <2>1, <3>1, <3>2, InputsSame, ConfigSame, EffectiveConfig
         DEF IInv, StageInv, NothingRunsUnvalidated
  <2> QED
    BY <2>2, <2>3 DEF Writing
<1> QED
  BY <1>2, <1>3, <1>4, <1>5, <1>6, <1>7 DEF IInv, StageInv, Promises

\* A step that does not exit only has to keep the facts of its stage.
LEMMA GoesOn == StageInv' /\ stage' # "exited" => IInv'
<1> DEFINE Running == stage # "exited"
<1>1. StageInv /\ Running => IInv
  BY RunningPromises DEF IInv
<1> HIDE DEF Running
<1>2. StageInv' /\ Running' => IInv'
  BY <1>1, PTL
<1> QED
  BY <1>2 DEF Running

\* The config is loaded and validated.
LEMMA LoadKeeps ==
    ASSUME IInv, Load \/ Validate PROVE IInv'
<1>1. /\ stage \in {"load", "validate"} /\ cfg = given
      /\ UNCHANGED <<inputVars, cfg, adapterVars, reportVars, summary, progressVars>>
      /\ UNCHANGED <<app, tel, files, format>>
  BY DEF IInv, StageInv, ConfigInv, Load, Validate, adapterVars, reportVars
<1>2. CASE Exit(1)
  BY <1>1, <1>2, ExitKeeps DEF IInv, StageInv, StateInv
<1>3. CASE Exit(0) /\ command = "validate"
  BY <1>1, <1>3, ExitKeeps DEF IInv, StageInv, StateInv
<1>4. CASE \/ stage = "load" /\ cfg.readable /\ Goto("validate")
           \/ stage = "validate" /\ Valid(cfg) /\ command # "validate" /\ Goto("dryRun")
  <2>1. stage' \in {"validate", "dryRun"} /\ exitCode' = exitCode
    BY <1>4 DEF Goto
  <2>2. StateInv'
    BY <1>1, <2>1, InputsSame DEF IInv, StageInv, StateInv, Stages
  <2>3. ConfigInv'
    BY <1>1, <1>4, <2>1, InputsSame DEF IInv, StageInv, StateInv, ConfigInv, Equipped, Writing, Goto
  <2>4. AdapterInv' /\ FilesInv'
    BY <1>1, <2>1 DEF IInv, StageInv, AdapterInv, FilesInv, Equipped, Writing
  <2> QED
    BY <2>1, <2>2, <2>3, <2>4, GoesOn DEF StageInv
<1> QED
  BY <1>2, <1>3, <1>4 DEF Load, Validate

\* --dry-run is applied, and the factories make the adapters.
LEMMA SetUpKeeps ==
    ASSUME IInv, ApplyDryRun \/ NewAdapter \/ NewFromConfig PROVE IInv'
<1>1. /\ UNCHANGED <<inputVars, reportVars, summary, progressVars>>
      /\ UNCHANGED <<files, format>>
      /\ Valid(given)
  BY DEF IInv, StageInv, ConfigInv, ApplyDryRun, NewAdapter, NewFromConfig, reportVars
<1>2. CASE ApplyDryRun
  <2>1. /\ stage = "dryRun" /\ stage' = "adapter" /\ exitCode' = exitCode
        /\ cfg' = Effective /\ UNCHANGED <<app, tel>>
    BY <1>2 DEF IInv, StageInv, ConfigInv, ApplyDryRun, Goto, Effective, adapterVars
  <2> QED
    BY <1>1, <2>1, InputsSame, EffectiveConfig, GoesOn
       DEF IInv, StageInv, StateInv, Stages, ConfigInv, AdapterInv, FilesInv, Equipped, Writing
<1>3. CASE NewAdapter
  <2>1. cfg = Effective /\ cfg.adapter \in Supported
    BY <1>1, <1>3, EffectiveConfig DEF IInv, StageInv, ConfigInv, NewAdapter, Valid
  <2>2. /\ stage = "adapter" /\ stage' = "telemetry" /\ exitCode' = exitCode
        /\ app' = cfg.adapter /\ UNCHANGED <<cfg, tel>>
    BY <1>3, <2>1 DEF NewAdapter, Goto
  <2> QED
    BY <1>1, <2>1, <2>2, InputsSame, EffectiveConfig, GoesOn
       DEF IInv, StageInv, StateInv, Stages, ConfigInv, AdapterInv, FilesInv, Equipped, Writing
<1>4. CASE NewFromConfig
  <2>1. /\ stage = "telemetry" /\ cfg = Effective
        /\ stage' = "trials" /\ exitCode' = exitCode /\ UNCHANGED <<cfg, app>>
    BY <1>4 DEF IInv, StageInv, ConfigInv, NewFromConfig, Goto
  <2>2. tel' = EffectiveTel
    BY <1>4, <2>1 DEF NewFromConfig, EffectiveTel
  <2> QED
    BY <1>1, <2>1, <2>2, InputsSame, EffectiveConfig, GoesOn
       DEF IInv, StageInv, StateInv, Stages, ConfigInv, AdapterInv, FilesInv, Equipped, Writing
<1> QED
  BY <1>2, <1>3, <1>4

\* The trials end, and Run returns when all have.
LEMMA TrialsKeep ==
    ASSUME IInv, TrialEnds \/ RunReturns PROVE IInv'
<1>1. /\ stage = "trials" /\ exitCode' = exitCode
      /\ UNCHANGED <<inputVars, cfg, adapterVars, reportVars, summary>>
      /\ UNCHANGED <<app, tel, files, format>>
      /\ \/ stage' = "trials"
         \/ stage' = "mkdir" /\ P!AllReported /\ UNCHANGED progressVars
  BY DEF TrialEnds, RunReturns, Goto, adapterVars, reportVars
<1>2. StateInv' /\ ConfigInv' /\ AdapterInv'
  BY <1>1, InputsSame
     DEF IInv, StageInv, StateInv, Stages, ConfigInv, AdapterInv, Equipped, Writing
<1>3. FilesInv'
  BY <1>1, InputsSame, ReportedSame DEF IInv, StageInv, FilesInv, Writing
<1> QED
  BY <1>1, <1>2, <1>3, GoesOn DEF StageInv

\* One file is written whole and the next step follows, or the command exits.
LEMMA WriteKeeps ==
    ASSUME IInv, MkdirAll \/ WriteManifest \/ WriteTrials \/ WriteErrors PROVE IInv'
<1>1. /\ stage \in {"mkdir", "run-manifest.json", "trials.jsonl", "errors.jsonl"}
      /\ files["summary.json"] = "absent" /\ files["summary.md"] = "absent"
      /\ UNCHANGED <<inputVars, cfg, adapterVars, format, summary, progressVars>>
      /\ UNCHANGED <<app, tel>>
      /\ P!AllReported /\ format = 1
  BY DEF IInv, StageInv, StateInv, Stages, FilesInv, Writing, Files, MkdirAll, WriteManifest,
     WriteTrials, WriteErrors, adapterVars, reportVars
<1>2. files \in [Files -> {"absent", "partial", "complete"}]
      /\ format \in 1..Len(given.formats) + 1
  BY DEF IInv, StageInv, StateInv
<1>3. CASE Exit(1)
  <2>1. /\ files' \in [Files -> {"absent", "partial", "complete"}]
        /\ files'["summary.json"] = "absent" /\ files'["summary.md"] = "absent"
    BY <1>1, <1>2, <1>3
       DEF MkdirAll, WriteManifest, WriteTrials, WriteErrors, Write, Exit, Goto, reportVars, Files
  <2> QED
    BY <1>1, <1>2, <1>3, <2>1, ExitKeeps DEF Writing
<1>4. CASE ~Exit(1)
  <2>1. /\ exitCode' = exitCode
        /\ \/ stage = "mkdir" /\ stage' = "run-manifest.json" /\ files' = files
           \/ /\ stage = "run-manifest.json" /\ stage' = "trials.jsonl"
              /\ files' = [files EXCEPT !["run-manifest.json"] = "complete"]
           \/ /\ stage = "trials.jsonl" /\ stage' = "errors.jsonl"
              /\ files' = [files EXCEPT !["trials.jsonl"] = "complete"]
           \/ /\ stage = "errors.jsonl" /\ stage' = "formats"
              /\ files' = [files EXCEPT !["errors.jsonl"] = "complete"]
    BY <1>4 DEF MkdirAll, WriteManifest, WriteTrials, WriteErrors, Write, Goto, reportVars
  <2>2. StateInv'
    BY <1>1, <1>2, <2>1, InputsSame DEF IInv, StageInv, StateInv, Stages
  <2>3. ConfigInv' /\ AdapterInv'
    BY <1>1, <2>1, InputsSame DEF IInv, StageInv, ConfigInv, AdapterInv, Equipped, Writing
  <2>4. FilesInv'
    <3>1. P!AllReported' /\ format' = 1 /\ Len(given.formats) >= 1 /\ given' = given
      <4>1. given \in Configs
        BY DEF IInv, StageInv, StateInv
      <4>2. Len(given.formats) \in {1, 2}
        BY <4>1, FormatsType
      <4> QED
        BY <1>1, <4>2, InputsSame, ReportedSame
    <3> QED
      BY <1>1, <1>2, <2>1, <3>1 DEF IInv, StageInv, FilesInv, Writing, Files
  <2>5. stage' # "exited"
    BY <2>1
  <2> QED
    BY <2>2, <2>3, <2>4, <2>5, GoesOn DEF StageInv
<1> QED
  BY <1>3, <1>4

\* One format is written, or the command exits.
LEMMA FormatKeeps == ASSUME IInv, WriteFormat PROVE IInv'
<1> DEFINE kind == given.formats[format]
           next == IF format < Len(given.formats) THEN "formats" ELSE "finalize"
<1>1. /\ stage = "formats" /\ cfg.formats = given.formats /\ given \in Configs
      /\ Valid(given) /\ P!AllReported
      /\ files \in [Files -> {"absent", "partial", "complete"}]
      /\ UNCHANGED <<inputVars, cfg, adapterVars, summary, progressVars>>
      /\ UNCHANGED <<app, tel>>
      /\ format' = format + 1
  BY DEF IInv, StageInv, StateInv, ConfigInv, FilesInv, Writing, WriteFormat, adapterVars
<1>2. /\ Len(given.formats) \in {1, 2} /\ format \in 1..Len(given.formats)
      /\ kind \in {"json", "markdown"}
  BY <1>1, FormatsType DEF IInv, StageInv, StateInv, FilesInv
<1>3. /\ kind = "json" => Write("summary.json", next)
      /\ kind = "markdown" => WriteUnseen("summary.md", next)
  BY <1>1, <1>2 DEF WriteFormat
<1>4. CASE Exit(1)
  <2>1. /\ files' \in [Files -> {"absent", "partial", "complete"}]
        /\ UNCHANGED <<files["trials.jsonl"], files["errors.jsonl"]>>
    BY <1>1, <1>2, <1>3, <1>4 DEF Write, WriteUnseen, Exit, Goto, Files
  <2> QED
    BY <1>1, <1>2, <1>4, <2>1, ExitKeeps
<1>5. CASE ~Exit(1)
  <2>1. /\ stage' = next /\ exitCode' = exitCode
        /\ \E v \in {"partial", "complete"} :
               /\ files' = [files EXCEPT ![FileOf(kind)] = v]
               /\ kind = "json" => v = "complete"
    BY <1>2, <1>3, <1>5 DEF Write, WriteUnseen, Goto, FileOf
  <2>2. /\ files' \in [Files -> {"absent", "partial", "complete"}]
        /\ files'[FileOf(kind)] # "absent"
        /\ files'["summary.json"] \in {files["summary.json"], "complete"}
        /\ \A f \in Files : files[f] # "absent" => files'[f] # "absent"
        /\ \A f \in Files \ {"summary.json", "summary.md"} : files'[f] = files[f]
    BY <1>1, <1>2, <2>1 DEF FileOf, Files
  <2>3. StateInv'
    BY <1>1, <1>2, <2>1, <2>2, InputsSame DEF IInv, StageInv, StateInv, Stages
  <2>4. ConfigInv' /\ AdapterInv'
    BY <1>1, <2>1, InputsSame DEF IInv, StageInv, ConfigInv, AdapterInv, Equipped, Writing
  <2>5. FilesInv'
    <3>1. \A i \in 1..format' - 1 : files'[FileOf(given.formats[i])] # "absent"
      <4> SUFFICES ASSUME NEW i \in 1..format
                   PROVE  files'[FileOf(given.formats[i])] # "absent"
        BY <1>1, <1>2
      <4>1. CASE i = format
        BY <2>2, <4>1
      <4>2. CASE i # format
        <5>1. files[FileOf(given.formats[i])] # "absent"
          BY <1>1, <1>2, <4>2 DEF IInv, StageInv, FilesInv
        <5> QED
          BY <2>2, <5>1, FileOfType DEF Files
      <4> QED
        BY <4>1, <4>2
    <3>2. P!AllReported' /\ given' = given
      BY <1>1, InputsSame, ReportedSame
    <3> QED
      BY <1>1, <1>2, <2>1, <2>2, <3>1, <3>2
         DEF IInv, StageInv, FilesInv, Writing, Files
  <2>6. stage' # "exited"
    BY <2>1
  <2> QED
    BY <2>3, <2>4, <2>5, <2>6, GoesOn DEF StageInv
<1> QED
  BY <1>4, <1>5

\* The results are printed, and the command exits with 0.
LEMMA FinalizeKeeps == ASSUME IInv, Finalize PROVE IInv'
<1>1. /\ stage = "finalize" /\ stage' = "exited" /\ exitCode' = 0 /\ summary' = TRUE
      /\ UNCHANGED <<inputVars, cfg, adapterVars, reportVars, progressVars>>
      /\ UNCHANGED <<app, tel, files, format>>
      /\ given \in Configs /\ cfg.formats = given.formats
  BY DEF IInv, StageInv, StateInv, ConfigInv, Finalize, Exit, adapterVars, reportVars
<1>2. StageInv'
  BY <1>1, InputsSame DEF IInv, StageInv, StateInv, Stages, ConfigInv, AdapterInv, FilesInv,
     Equipped, Writing
<1>3. ZeroMeansReported'
  <2>1. DOMAIN given.formats = 1..Len(given.formats) /\ Len(given.formats) \in {1, 2}
    BY <1>1, FormatsType
  <2>2. \A i \in DOMAIN given.formats : files[FileOf(given.formats[i])] # "absent"
    BY <1>1, <2>1 DEF IInv, StageInv, FilesInv
  <2>3. /\ files["run-manifest.json"] = "complete" /\ files["trials.jsonl"] = "complete"
        /\ files["errors.jsonl"] = "complete" /\ files["summary.json"] # "partial"
        /\ P!AllReported'
    BY <1>1, ReportedSame DEF IInv, StageInv, FilesInv, Writing
  <2> QED
    BY <1>1, <2>2, <2>3 DEF ZeroMeansReported
<1>4. SummaryImpliesTrials' /\ NothingRunsUnvalidated'
  BY <1>1, InputsSame, ConfigSame, ReportedSame
     DEF IInv, Promises, SummaryImpliesTrials, NothingRunsUnvalidated
<1> QED
  BY <1>2, <1>3, <1>4 DEF IInv, Promises

\* Every step keeps the invariant.
LEMMA StepInv == IInv /\ [Next]_vars => IInv'
<1> SUFFICES ASSUME IInv, [Next]_vars PROVE IInv'
  OBVIOUS
<1>1. CASE CommandStep
  BY <1>1, LoadKeeps, SetUpKeeps, TrialsKeep, WriteKeeps, FormatKeeps, FinalizeKeeps
     DEF CommandStep
<1>2. CASE UNCHANGED vars
  <2>1. /\ UNCHANGED <<inputVars, progressVars>>
        /\ UNCHANGED <<cfg, stage, app, tel, format, files, summary, exitCode>>
    BY <1>2 DEF vars, adapterVars, reportVars
  <2>2. StageInv'
    BY <2>1, InputsSame, ReportedSame
       DEF IInv, StageInv, StateInv, ConfigInv, AdapterInv, FilesInv
  <2>3. Promises'
    BY <2>1, InputsSame, ConfigSame, ReportedSame
       DEF IInv, Promises, ZeroMeansReported, SummaryImpliesTrials, NothingRunsUnvalidated
  <2> QED
    BY <2>2, <2>3 DEF IInv
<1> QED
  BY <1>1, <1>2 DEF Next, Exited

-----------------------------------------------------------------------------
(* The theorems. *)

\* IInv holds in every reachable state.
THEOREM Invariance == Spec => []IInv
  BY InitInv, StepInv, PTL DEF Spec

\* The state of the command and of the display has its types.
THEOREM TypeCorrect == Spec => []TypeOK
<1>1. Init => P!TypeOK
  <2> SUFFICES ASSUME P!Init PROVE P!TypeOK
    BY DEF Init
  <2>1. results \in [P!Trials -> P!Terminal \cup {"pending"}]
    BY DEF P!Init
  <2>2. counts \in [P!Combos -> [P!Terminal -> Nat]]
    BY DEF P!Init
  <2>3. completed \in Nat /\ panicked \in BOOLEAN
    BY DEF P!Init
  <2> QED
    BY <2>1, <2>2, <2>3 DEF P!TypeOK
<1>2. P!TypeOK /\ [Next]_vars => P!TypeOK'
  <2> SUFFICES ASSUME P!TypeOK, [Next]_vars, ~UNCHANGED progressVars PROVE P!TypeOK'
    BY DEF progressVars, P!TypeOK, P!Trials, P!Combos, P!Terminal
  <2>1. TrialEnds
    BY DEF Next, CommandStep, Exited, vars, Load, Validate, ApplyDryRun, NewAdapter,
       NewFromConfig, RunReturns, MkdirAll, WriteManifest, WriteTrials, WriteErrors,
       WriteFormat, Finalize
  <2>2. PICK t \in P!Trials, s \in P!Terminal : P!OnTrialComplete(t, s)
    BY <2>1 DEF TrialEnds
  <2>3. results' \in [P!Trials -> P!Terminal \cup {"pending"}]
    BY <2>2 DEF P!OnTrialComplete, P!TypeOK
  <2>4. counts' \in [P!Combos -> [P!Terminal -> Nat]]
    <3>1. \A count \in [P!Terminal -> Nat] : P!CountOne(count, s) \in [P!Terminal -> Nat]
      BY DEF P!CountOne
    <3> QED
      BY <2>2, <3>1 DEF P!OnTrialComplete, P!TypeOK
  <2>5. completed' \in Nat /\ panicked' \in BOOLEAN
    BY <2>2 DEF P!OnTrialComplete, P!DrawPanics, P!TypeOK
  <2> QED
    BY <2>3, <2>4, <2>5 DEF P!TypeOK
<1>3. IInv /\ P!TypeOK => TypeOK
  <2> SUFFICES ASSUME IInv, P!TypeOK PROVE TypeOK
    OBVIOUS
  <2>1. given.adapter \in {"claude", "unknown"}
    BY DEF IInv, StageInv, StateInv, Configs
  <2>2. cfg.adapter \in {"claude", "unknown", "fake"}
    BY <2>1, EffectiveConfig DEF IInv, StageInv, ConfigInv
  <2>3. app \in Supported \cup {"none"} /\ tel \in {"none", "noop", "langfuse", "mlflow"}
    <3>1. CASE app = "none" /\ tel = "none"
      BY <3>1
    <3>2. CASE app # "none" \/ tel # "none"
      <4>1. given.telemetry \in {"off", "langfuse", "mlflow", "unknown"}
        BY DEF IInv, StageInv, StateInv, Configs
      <4>2. cfg.telemetry \in {"off", "langfuse", "mlflow", "unknown"}
        BY <4>1, EffectiveConfig DEF IInv, StageInv, ConfigInv
      <4>3. Valid(cfg)
        BY <3>2 DEF IInv, Promises, NothingRunsUnvalidated
      <4> QED
        BY <3>2, <4>2, <4>3 DEF IInv, Promises, NothingRunsUnvalidated, Valid, TelemetryOK, Supported
    <3> QED
      BY <3>1, <3>2
  <2>4. format \in 1..3
    <3> DEFINE n == Len(given.formats)
    <3>1. format \in 1..n + 1
      BY DEF IInv, StageInv, StateInv
    <3>2. n \in {1, 2}
      BY FormatsType DEF IInv, StageInv, StateInv
    <3> HIDE DEF n
    <3> QED
      BY <3>1, <3>2
  <2> QED
    BY <2>2, <2>3, <2>4 DEF IInv, StageInv, StateInv, Stages, TypeOK
<1> QED
  BY <1>1, <1>2, <1>3, Invariance, PTL DEF Spec

\* A run that exits with 0 has decided every trial and written every file, the
\* JSON ones whole.
THEOREM ZeroIsReported == Spec => []ZeroMeansReported
<1>1. IInv => ZeroMeansReported
  BY DEF IInv, Promises
<1> QED
  BY <1>1, Invariance, PTL

\* A summary on disk comes with the trials and the errors it was made from,
\* however the run ends.
THEOREM TrialsBeforeSummary == Spec => []SummaryImpliesTrials
<1>1. IInv => SummaryImpliesTrials
  BY DEF IInv, Promises
<1> QED
  BY <1>1, Invariance, PTL

\* No adapter is made and no file written by `validate`, for a config that, after
\* --dry-run, Validate would not pass, or with an agent other than that config's.
THEOREM OnlyValidatedRuns == Spec => []NothingRunsUnvalidated
<1>1. IInv => NothingRunsUnvalidated
  BY DEF IInv, Promises
<1> QED
  BY <1>1, Invariance, PTL
=============================================================================
