----------------------------- MODULE AgentOutput -----------------------------
(***************************************************************************)
(* From the output of an agent to the figures of its trial: one call of    *)
(* the agent or several (runTrial retries), the parser of its format, the  *)
(* enrichment file opencode's plugin writes meanwhile, BuildTrialMetrics   *)
(* and the merge of the file into the steps by FinishTrial.                *)
(*                                                                         *)
(* The parser runs over the buffer of a call that has returned; here it    *)
(* reads each line when the agent writes it, which gives the same steps,   *)
(* and the output may end after any line: the agent was done or was        *)
(* killed, or the scanner met a line of more than 1 MiB. A line that is    *)
(* not JSON of the right shape is skipped and is not modelled as an event. *)
(* The agent answers a call at most once.                                  *)
(***************************************************************************)
EXTENDS Integers, Sequences, FiniteSets

CONSTANTS
    Turns,       \* contents of an assistant event: [thinking, text, calls]
    MaxEvents,   \* bound, by agent: lines of one output
    MaxMs,       \* bound: duration of a call of the agent
    MaxAttempts  \* bound, by agent: calls of the agent, 1 + benchmark.retries

Agents == {"claude", "opencode"}

ASSUME AgentOutputAssumption ==
    /\ Turns \subseteq [thinking : BOOLEAN, text : BOOLEAN, calls : Nat]
    /\ MaxEvents \in [Agents -> Nat]
    /\ MaxMs \in Nat \ {0}
    /\ MaxAttempts \in [Agents -> Nat \ {0}]

Kinds == {"assistant", "user", "result"}

\* The events of a turn. A result event is not one, and may go without a stamp.
TurnKinds == {"assistant", "user"}

\* The stamps of an agent that does not stamp one event of a turn and not another.
EvenlyStamped == {Kinds, TurnKinds, {}}

VARIABLES
    agent,     \* the adapter, one of Agents
    stamps,    \* kinds of claude's events that carry a timestamp
    attempt,   \* the call of the agent, from 1
    phase,     \* "reading" | "parsed" | "finished"
    events,    \* lines read of this output
    clock,     \* ms since the epoch, at the last line
    answered,  \* calls with a result, for claude
    gen, toolMap, resumed, panicked,  \* of ClaudeParser
    stepStart, pending, inStep,       \* of OpencodeParser
    calls, steps,                     \* of both
    file,      \* entries of the enrichment file, as <<attempt, generation>>
    merged     \* merged[i]: the entry merged into step i, or <<>>

claudeVars == <<gen, toolMap, resumed, panicked, answered>>
opencodeVars == <<stepStart, pending, inStep>>
vars == <<agent, stamps, attempt, phase, events, clock, claudeVars, opencodeVars,
          calls, steps, file, merged>>

C == INSTANCE ClaudeParser
O == INSTANCE OpencodeParser

\* Every call starts at 1, so that 0 can be no time.
Started == 1

NewOutput ==
    /\ phase' = "reading"
    /\ events' = 0
    /\ clock' = Started
    /\ answered' = {}
    /\ gen' = <<>> /\ toolMap' = C!NoTools /\ resumed' = FALSE /\ panicked' = FALSE
    /\ stepStart' = 0 /\ pending' = <<>> /\ inStep' = FALSE
    /\ calls' = 0 /\ steps' = <<>>

Init ==
    /\ \/ agent = "claude" /\ stamps \in EvenlyStamped \cup {{"user", "result"}}
       \/ agent = "opencode" /\ stamps = {}
    /\ attempt = 1
    /\ phase = "reading"
    /\ events = 0
    /\ clock = Started
    /\ answered = {}
    /\ C!Init
    /\ O!Init
    /\ calls = 0 /\ steps = <<>>
    /\ file = <<>> /\ merged = <<>>

-----------------------------------------------------------------------------
(* The lines of the output. *)

Read(by) ==
    /\ agent = by
    /\ phase = "reading" /\ ~panicked
    /\ events < MaxEvents[agent]
    /\ events' = events + 1
    /\ clock' \in {clock, clock + 1}
    /\ clock' <= Started + MaxMs
    /\ UNCHANGED <<agent, stamps, attempt, phase, file, merged>>

\* eventMs of a line written now.
Stamp(kind) == IF kind \in stamps THEN clock' ELSE 0

ReadAssistant ==
    /\ Read("claude")
    /\ \E turn \in Turns : C!Assistant(turn, Stamp("assistant"))
    /\ UNCHANGED <<answered, opencodeVars>>

ReadToolResult ==
    /\ Read("claude")
    /\ \E id \in (1..calls) \ answered :
           /\ C!ToolResult(id, Stamp("user"))
           /\ answered' = answered \cup {id}
    /\ UNCHANGED opencodeVars

ReadResult ==
    /\ Read("claude")
    /\ C!Result(Stamp("result"))
    /\ UNCHANGED <<answered, opencodeVars>>

ReadStepStart == Read("opencode") /\ O!StepStart(clock') /\ UNCHANGED claudeVars

ReadToolUse ==
    /\ Read("opencode")
    /\ \E since \in {0} \cup stepStart..clock : O!ToolUse(since, clock')
    /\ UNCHANGED claudeVars

ReadStepFinish == Read("opencode") /\ O!StepFinish(clock') /\ UNCHANGED claudeVars

\* The plugin appends the entry of a generation that has ended.
PluginAppends ==
    LET written == Cardinality({i \in DOMAIN file : file[i][1] = attempt})
    IN  /\ agent = "opencode" /\ phase = "reading"
        /\ written < O!Generations
        /\ file' = Append(file, <<attempt, written + 1>>)
        /\ UNCHANGED <<agent, stamps, attempt, phase, events, clock, claudeVars,
                       opencodeVars, calls, steps, merged>>

-----------------------------------------------------------------------------
(* The end of a call and of the trial. *)

OutputEnds ==
    /\ phase = "reading" /\ ~panicked
    /\ phase' = "parsed"
    /\ \/ agent = "claude" /\ C!EndOfOutput(Started, clock) /\ UNCHANGED opencodeVars
       \/ agent = "opencode" /\ O!EndOfOutput /\ UNCHANGED claudeVars
    /\ UNCHANGED <<agent, stamps, attempt, events, clock, answered, file, merged>>

\* The next attempt of runTrial. Nobody clears the file.
Retry ==
    /\ phase = "parsed"
    /\ attempt < MaxAttempts[agent]
    /\ attempt' = attempt + 1
    /\ NewOutput
    /\ UNCHANGED <<agent, stamps, file, merged>>

\* Entries given to steps, where generations are meant.
MergeByStep(i) == IF steps[i].type = "generation" /\ i <= Len(file) THEN file[i] ELSE <<>>

\* mergeEnrichmentIntoSteps: the n-th entry goes to the n-th generation.
Merge(i) ==
    LET genIndex == Cardinality({j \in 1..i : steps[j].type = "generation"})
    IN  IF steps[i].type = "generation" /\ genIndex <= Len(file)
        THEN file[genIndex] ELSE <<>>

\* prepareEnrichedSteps, which removes the file.
FinishTrial ==
    /\ phase = "parsed"
    /\ phase' = "finished"
    /\ merged' = [i \in DOMAIN steps |-> Merge(i)]
    /\ file' = <<>>
    /\ UNCHANGED <<agent, stamps, attempt, events, clock, claudeVars, opencodeVars, calls, steps>>

Ended == (phase = "finished" \/ panicked) /\ UNCHANGED vars

Next ==
    \/ ReadAssistant \/ ReadToolResult \/ ReadResult
    \/ ReadStepStart \/ ReadToolUse \/ ReadStepFinish \/ PluginAppends
    \/ OutputEnds \/ Retry \/ FinishTrial \/ Ended

Spec == Init /\ [][Next]_vars

-----------------------------------------------------------------------------
(* BuildTrialMetrics over a list of steps; 0 stands for nil.                *)

WallTimeMs == clock - Started

LlmTimes(list) ==
    [i \in DOMAIN list |-> IF list[i].type = "generation" THEN list[i].llm ELSE 0]

ToolTimes(list) == [i \in DOMAIN list |-> IF list[i].type = "tool" THEN list[i].dur ELSE 0]

\* The ids of its tool calls.
ToolCalls(list) ==
    LET upTo[i \in 0..Len(list)] ==
            IF i = 0 THEN <<>>
            ELSE IF list[i].type = "tool" THEN Append(upTo[i - 1], list[i].id)
            ELSE upTo[i - 1]
    IN  upTo[Len(list)]

LlmLatencyMs == LET sum == O!Total(LlmTimes(steps)) IN IF sum > 0 THEN sum ELSE 0

IdleMs ==
    LET idle == WallTimeMs - LlmLatencyMs - O!Total(ToolTimes(steps))
    IN  IF LlmLatencyMs > 0 /\ idle > 0 THEN idle ELSE 0

-----------------------------------------------------------------------------
(* Properties. *)

\* The result of a call is stored in the step of that call, and no result
\* makes the parser index past its tools, unless the agent goes on after a
\* result event.
ResultOnOwnTool == agent = "claude" => C!ResultOnOwnTool

\* Thinking stays in one generation with the answer it led to.
ThinkingWithItsAnswer == agent = "claude" => C!ThinkingWithItsAnswer

\* When claude stamps all the events of its turns or none, and its result event
\* too or not, every step has its times when Execute returns: they lie within
\* the call, its duration is the time between them, and a generation's model
\* time is a part of it. (With stamps on user events and not on assistant
\* events, a step closed by a stamped event and opened by one without has a
\* duration counted from the epoch.)
StepTimesFit ==
    agent = "claude" /\ stamps \in EvenlyStamped /\ phase # "reading" =>
        \A i \in DOMAIN steps :
            /\ Started <= steps[i].start /\ steps[i].start <= steps[i].end
            /\ steps[i].end <= clock
            /\ steps[i].dur = steps[i].end - steps[i].start
            /\ steps[i].type = "generation" => steps[i].llm \in 0..steps[i].dur

\* The model time of a trial is not longer than its call, idle time included,
\* when the agent stamps its events: no generation counts another's time.
LatencyWithinWall ==
    phase # "reading" /\ (agent = "claude" => stamps = Kinds) =>
        LlmLatencyMs + IdleMs <= WallTimeMs

\* Reasoning is merged into the generation it belongs to, unless the file
\* begins with the entries of an earlier attempt.
ReasoningOfOwnGeneration ==
    phase = "finished" /\ (\A i \in DOMAIN merged : merged[i] = <<>> \/ merged[i][1] = attempt) =>
        \A i \in DOMAIN merged : merged[i] # <<>> => merged[i][2] = steps[i].number

\* No tool call is lost in the middle, repeated or out of order, and only
\* opencode loses the last ones, when no step_finish follows them.
ToolLog == INSTANCE CallLog WITH
    lossy <- agent = "opencode",
    read <- [i \in 1..calls |-> i],
    kept <- ToolCalls(steps),
    open <- phase = "reading"

ImplementsCallLog == ToolLog!Spec
=============================================================================
