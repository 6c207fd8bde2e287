--------------------------- MODULE OpencodeParser ---------------------------
(***************************************************************************)
(* parseOpencodeJSON: the automaton that turns the lines of                *)
(* `opencode run --format json` into steps. Tools are collected until a    *)
(* step_finish, which sends out the generation and then its tools; the end *)
(* of the output sends out nothing.                                        *)
(*                                                                         *)
(* External: opencode stamps every event. A step whose request failed is   *)
(* started again without a step_finish in between, but tools are used and  *)
(* steps finished only within a step that was started. That is assumed of  *)
(* the agent (inStep); the parser does not look for it and would count a   *)
(* step that was not started from the start of the one before, or from 0.  *)
(***************************************************************************)
EXTENDS Integers, Sequences, FiniteSets

VARIABLES
    stepStart,  \* stepStartMs, 0 before the first step
    pending,    \* pendingTools
    inStep,     \* the agent, not the parser: in a step, started and not finished
    calls,      \* calls read; their ids are 1..calls
    steps       \* result.Steps

parserVars == <<stepStart, pending, inStep>>

Init ==
    /\ stepStart = 0
    /\ pending = <<>>
    /\ inStep = FALSE

\* Only the first step_start sets stepStartMs.
StepStartOnce(ms) ==
    /\ stepStart' = IF stepStart = 0 THEN ms ELSE stepStart
    /\ inStep' = TRUE
    /\ UNCHANGED <<pending, calls, steps>>

\* pendingTools stays: the tools of a step that was given up go to the next.
StepStart(ms) ==
    /\ stepStart' = ms
    /\ inStep' = TRUE
    /\ UNCHANGED <<pending, calls, steps>>

\* A call that has ended, with the times opencode reports: from `since`, or
\* none, and then the step stays without times.
ToolUse(since, ms) ==
    /\ inStep
    /\ pending' = Append(pending,
           [type |-> "tool", id |-> calls + 1, start |-> since,
            end |-> IF since = 0 THEN 0 ELSE ms, dur |-> IF since = 0 THEN 0 ELSE ms - since])
    /\ calls' = calls + 1
    /\ UNCHANGED <<stepStart, inStep, steps>>

Total(times) ==
    LET upTo[i \in 0..Len(times)] == IF i = 0 THEN 0 ELSE upTo[i - 1] + times[i]
    IN  upTo[Len(times)]

ToolTime(tools) == Total([i \in DOMAIN tools |-> tools[i].dur])

Generations == Cardinality({i \in DOMAIN steps : steps[i].type = "generation"})

\* The tools of the step are left pending.
StepFinishKeeping(ms) ==
    /\ inStep
    /\ steps' = steps \o <<[type |-> "generation", start |-> stepStart, end |-> ms,
                            dur |-> ms - stepStart, toolTime |-> ToolTime(pending),
                            llm |-> ms - stepStart - ToolTime(pending),
                            number |-> Generations + 1]>> \o pending
    /\ inStep' = FALSE
    /\ UNCHANGED <<stepStart, calls, pending>>

\* `number` is the generation the agent means. The time for the model is not
\* clamped: it is negative when tools ran side by side.
StepFinish(ms) ==
    /\ inStep
    /\ steps' = steps \o <<[type |-> "generation", start |-> stepStart, end |-> ms,
                            dur |-> ms - stepStart, toolTime |-> ToolTime(pending),
                            llm |-> ms - stepStart - ToolTime(pending),
                            number |-> Generations + 1]>> \o pending
    /\ pending' = <<>>
    /\ inStep' = FALSE
    /\ UNCHANGED <<stepStart, calls>>

EndOfOutput == UNCHANGED <<parserVars, calls, steps>>
=============================================================================
