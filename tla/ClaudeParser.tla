---------------------------- MODULE ClaudeParser ----------------------------
(***************************************************************************)
(* parseClaudeJSON and backfillStepTimestamps: the automaton that turns    *)
(* the lines of `claude -p --output-format stream-json` into steps.        *)
(*                                                                         *)
(* The generation an assistant event opens stays pending, with its tools,  *)
(* until another assistant event, a result event or the end of the output  *)
(* closes it. Claude Code sends the thinking of a turn in an event of its  *)
(* own, and the next event is then merged into the same generation.        *)
(*                                                                         *)
(* An event is what the parser tells apart: for an assistant event whether *)
(* it has thinking and text, and how many calls; for a tool result the     *)
(* call it answers; and eventMs, which is 0 for an event without timestamp.*)
(***************************************************************************)
EXTENDS Integers, Sequences, SequencesExt

VARIABLES
    gen,      \* pendingGen: the empty sequence for nil, or one generation
    toolMap,  \* pendingToolMap: call id -> position in the tools of pendingGen
    resumed,  \* an assistant event came after a result event
    panicked, \* an index was out of range: the whole program ends
    calls,    \* calls read; their ids are 1..calls
    steps     \* result.Steps

parserVars == <<gen, toolMap, resumed, panicked>>

NoTools == [id \in {} |-> 0]

Init ==
    /\ gen = <<>>
    /\ toolMap = NoTools
    /\ resumed = FALSE
    /\ panicked = FALSE

NewGeneration(ms) == [start |-> ms, toolTime |-> 0, turns |-> <<>>, tools |-> <<>>]

\* `answer` is the call whose result has been stored in the step, 0 for none.
NewTool(id, ms) ==
    [type |-> "tool", id |-> id, start |-> ms, end |-> 0, dur |-> 0, answer |-> 0]

Answers(turn) == turn.text \/ turn.calls > 0

\* The test without its last conjunct.
ThinkingWithoutText(g) ==
    /\ \E i \in DOMAIN g.turns : g.turns[i].thinking
    /\ \A i \in DOMAIN g.turns : ~g.turns[i].text

ThinkingOnly(g) ==
    /\ \E i \in DOMAIN g.turns : g.turns[i].thinking
    /\ \A i \in DOMAIN g.turns : ~Answers(g.turns[i])

AtLeastZero(n) == IF n < 0 THEN 0 ELSE n

\* finalizeGeneration: the steps it appends; `by` is the event that closes it.
Finalize(g, ms, by) ==
    LET dur == IF ms > 0 THEN ms - g.start ELSE 0
    IN  <<[type |-> "generation", start |-> g.start, end |-> ms, dur |-> dur,
           toolTime |-> g.toolTime, llm |-> AtLeastZero(dur - g.toolTime),
           turns |-> g.turns, by |-> by]>> \o g.tools

\* The map that outlives the generation it points into.
OldMap(closes) == toolMap

\* pendingToolMap for the calls of the event.
MapBefore(closes) == IF closes THEN NoTools ELSE toolMap

Assistant(turn, ms) ==
    LET closes == gen # <<>> /\ ~ThinkingOnly(gen[1])
        g == IF gen = <<>> \/ closes THEN NewGeneration(ms) ELSE gen[1]
        new == (calls + 1)..(calls + turn.calls)
        old == MapBefore(closes)
    IN  /\ steps' = IF closes THEN steps \o Finalize(gen[1], ms, "assistant") ELSE steps
        /\ gen' = <<[g EXCEPT !.turns = Append(@, turn),
                              !.tools = @ \o [i \in 1..turn.calls |-> NewTool(calls + i, ms)]]>>
        /\ toolMap' = [id \in DOMAIN old \cup new |->
                          IF id \in new THEN Len(g.tools) + id - calls ELSE old[id]]
        /\ calls' = calls + turn.calls
        /\ resumed' = (resumed \/ \E i \in DOMAIN steps :
                           steps[i].type = "generation" /\ steps[i].by = "result")
        /\ UNCHANGED panicked

\* A user event with the result of call id.
ToolResult(id, ms) ==
    /\ UNCHANGED <<calls, steps, toolMap, resumed>>
    /\ \/ /\ gen = <<>> \/ id \notin DOMAIN toolMap
          /\ UNCHANGED <<gen, panicked>>
       \/ /\ gen # <<>> /\ id \in DOMAIN toolMap
          /\ LET n == toolMap[id]
                 dur == ms - gen[1].tools[n].start
             IN  IF n > Len(gen[1].tools)
                 THEN panicked' = TRUE /\ UNCHANGED gen
                 ELSE /\ gen' = <<[gen[1] EXCEPT !.tools[n].end = ms, !.tools[n].dur = dur,
                                                 !.tools[n].answer = id, !.toolTime = @ + dur]>>
                      /\ UNCHANGED panicked

\* Any kind of result event. It leaves pendingToolMap as it is.
Result(ms) ==
    /\ steps' = IF gen = <<>> THEN steps ELSE steps \o Finalize(gen[1], ms, "result")
    /\ gen' = <<>>
    /\ UNCHANGED <<calls, toolMap, resumed, panicked>>

\* One step of backfillStepTimestamps, without the new duration.
BackfillEnds(step, started, finished) ==
    [step EXCEPT !.start = IF @ <= 0 THEN started ELSE @,
                 !.end = IF @ <= 0 THEN finished ELSE @]

Backfill(step, started, finished) ==
    LET s == IF step.start <= 0 THEN started ELSE step.start
        e == IF step.end <= 0 THEN finished ELSE step.end
        changed == step.start <= 0 \/ step.end <= 0
        timed == [step EXCEPT !.start = s, !.end = e,
                              !.dur = IF changed /\ @ <= 0 THEN e - s ELSE @]
    IN  IF changed /\ step.dur <= 0 /\ step.type = "generation"
        THEN [timed EXCEPT !.llm = AtLeastZero(e - s - step.toolTime)]
        ELSE timed

\* The end of the output, wherever it comes, and the backfill by Execute.
EndOfOutput(started, finished) ==
    LET all == IF gen = <<>> THEN steps ELSE steps \o Finalize(gen[1], 0, "end")
    IN  /\ steps' = [i \in DOMAIN all |-> Backfill(all[i], started, finished)]
        /\ gen' = <<>>
        /\ UNCHANGED <<calls, toolMap, resumed, panicked>>

-----------------------------------------------------------------------------
(* Properties of the steps, and of the generation still pending. *)

\* The result of a call is stored in the step of that call, and no result
\* makes the parser index past its tools, unless the agent goes on after a
\* result event: that event leaves the map of the generation it closed behind.
ResultOnOwnTool ==
    \/ resumed
    \/ /\ ~panicked
       /\ \A i \in DOMAIN steps : steps[i].type = "tool" => steps[i].answer \in {0, steps[i].id}
       /\ \A g \in ToSet(gen) : \A n \in DOMAIN g.tools : g.tools[n].answer \in {0, g.tools[n].id}

\* Thinking stays with the answer it led to: a generation is any number of
\* events that only think and at most one that answers, the last; and only a
\* result event or the end of the output leaves thinking without an answer.
ThinkingWithItsAnswer ==
    LET Closed == {steps[i] : i \in {j \in DOMAIN steps : steps[j].type = "generation"}}
        OneAnswer(g) == \A i \in 1..(Len(g.turns) - 1) : ~Answers(g.turns[i])
    IN  /\ \A g \in ToSet(gen) \cup Closed : OneAnswer(g)
        /\ \A g \in Closed : ThinkingOnly(g) => g.by # "assistant"
=============================================================================
