---------------------------- MODULE MCAgentOutput ----------------------------
(***************************************************************************)
(* AgentOutput with the contents of assistant events that lead the parser  *)
(* into different branches: nothing readable, thinking alone, text,        *)
(* thinking with a call, and two calls side by side.                       *)
(***************************************************************************)
EXTENDS AgentOutput

Turn(thinking, text, n) == [thinking |-> thinking, text |-> text, calls |-> n]

MCTurns == {Turn(FALSE, FALSE, 0), Turn(TRUE, FALSE, 0), Turn(FALSE, TRUE, 0),
            Turn(TRUE, FALSE, 1), Turn(FALSE, FALSE, 2)}
MCMaxEvents == [claude |-> 5, opencode |-> 7]
MCMaxAttempts == [claude |-> 1, opencode |-> 2]
=============================================================================
