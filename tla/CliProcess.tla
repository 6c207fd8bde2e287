------------------------------ MODULE CliProcess ------------------------------
(***************************************************************************)
(* One call of Execute by an adapter that drives a command line program:   *)
(* runCLI and toExecutionResult, with exec.Cmd.Run as runCLI uses it       *)
(* (CommandContext, stdout and stderr copied into buffers, no WaitDelay,   *)
(* no Cancel of its own).                                                  *)
(*                                                                         *)
(* Five parties act on their own: the goroutine in Run, the goroutine that *)
(* watches the context, the timer and the interrupt that end the context,  *)
(* the child, and a descendant of the child that inherited its stdout.     *)
(***************************************************************************)

VARIABLES
    late,        \* the context was cancelled when Execute was called
    ctx,         \* "live" | "deadline" | "canceled": ctx.Err(), the first cause wins
    run,         \* Run: "start" | "wait" | "collect" | "drain" | "returned"
    child,       \* "none" | "running" | "zombie" | "reaped"
    exit,        \* how the child ended: "none" | "zero" | "code" | "signal"
    descendant,  \* a descendant holds the write end of the pipes
    watcher,     \* "off" | "armed" | "fired"
    killed,      \* cause of the kill the watcher delivered, or "none"
    err,         \* error of Run: "none" | "exit" | "ctx" | "start"
    outcome      \* what Execute returned, "none" before

vars == <<late, ctx, run, child, exit, descendant, watcher, killed, err, outcome>>

TypeOK ==
    /\ late \in BOOLEAN
    /\ ctx \in {"live", "deadline", "canceled"}
    /\ run \in {"start", "wait", "collect", "drain", "returned"}
    /\ child \in {"none", "running", "zombie", "reaped"}
    /\ exit \in {"none", "zero", "code", "signal"}
    /\ descendant \in BOOLEAN
    /\ watcher \in {"off", "armed", "fired"}
    /\ killed \in {"none", "deadline", "canceled"}
    /\ err \in {"none", "exit", "ctx", "start"}
    /\ outcome \in {"none", "ok", "sentinel", "failure"}

Init ==
    /\ late \in BOOLEAN
    /\ ctx = IF late THEN "canceled" ELSE "live"
    /\ run = "start"
    /\ child = "none"
    /\ exit = "none"
    /\ descendant = FALSE
    /\ watcher = "off"
    /\ killed = "none"
    /\ err = "none"
    /\ outcome = "none"

-----------------------------------------------------------------------------
(* The context: WithTimeout over the context of the run. *)

Deadline ==
    /\ ctx = "live"
    /\ run # "returned"
    /\ ctx' = "deadline"
    /\ UNCHANGED <<late, run, child, exit, descendant, watcher, killed, err, outcome>>

Interrupt ==
    /\ ctx = "live"
    /\ run # "returned"
    /\ ctx' = "canceled"
    /\ UNCHANGED <<late, run, child, exit, descendant, watcher, killed, err, outcome>>

-----------------------------------------------------------------------------
(* The child and its descendant. *)

ChildExits(how) ==
    /\ child = "running"
    /\ child' = "zombie"
    /\ exit' = how
    /\ UNCHANGED <<late, ctx, run, descendant, watcher, killed, err, outcome>>

ChildForks ==
    /\ child = "running"
    /\ ~descendant
    /\ descendant' = TRUE
    /\ UNCHANGED <<late, ctx, run, child, exit, watcher, killed, err, outcome>>

DescendantEnds ==
    /\ descendant
    /\ descendant' = FALSE
    /\ UNCHANGED <<late, ctx, run, child, exit, watcher, killed, err, outcome>>

-----------------------------------------------------------------------------
(* exec.Cmd.Start, which refuses a context that has ended, and may fail     *)
(* (no such program, no more processes).                                    *)

\* Start without the look at the context.
StartUnchecked ==
    /\ run = "start"
    /\ child' = "running"
    /\ watcher' = "armed"
    /\ run' = "wait"
    /\ UNCHANGED <<late, ctx, exit, descendant, killed, err, outcome>>

Start ==
    /\ run = "start"
    /\ ctx = "live"
    /\ child' = "running"
    /\ watcher' = "armed"
    /\ run' = "wait"
    /\ UNCHANGED <<late, ctx, exit, descendant, killed, err, outcome>>

StartFails ==
    /\ run = "start"
    /\ err' \in IF ctx = "live" THEN {"start"} ELSE {"start", "ctx"}
    /\ run' = "drain"
    /\ UNCHANGED <<late, ctx, child, exit, descendant, watcher, killed, outcome>>

-----------------------------------------------------------------------------
(* exec.Cmd.Wait and the goroutine watchCtx. Process.Kill succeeds on a     *)
(* child that has exited and has not been waited for.                       *)

Watch ==
    /\ watcher = "armed"
    /\ ctx # "live"
    /\ watcher' = "fired"
    /\ killed' = IF child = "reaped" THEN "none" ELSE ctx
    /\ child' = IF child = "running" THEN "zombie" ELSE child
    /\ exit' = IF child = "running" THEN "signal" ELSE exit
    /\ UNCHANGED <<late, ctx, run, descendant, err, outcome>>

Reap ==
    /\ run = "wait"
    /\ child = "zombie"
    /\ child' = "reaped"
    /\ err' = IF exit = "zero" THEN "none" ELSE "exit"
    /\ run' = "collect"
    /\ UNCHANGED <<late, ctx, exit, descendant, watcher, killed, outcome>>

\* The error of the watcher ignored when the child exited with code 0.
CollectIgnoringKill ==
    /\ run = "collect"
    /\ watcher' = "off"
    /\ run' = "drain"
    /\ UNCHANGED <<late, ctx, child, exit, descendant, killed, err, outcome>>

\* Receives the result of the watcher, or stops it before it looked.
Collect ==
    /\ run = "collect"
    /\ err' = IF err = "none" /\ watcher = "fired" /\ killed # "none" THEN "ctx" ELSE err
    /\ watcher' = "off"
    /\ run' = "drain"
    /\ UNCHANGED <<late, ctx, child, exit, descendant, killed, outcome>>

-----------------------------------------------------------------------------
(* The error branches of runCLI, and toExecutionResult: a timed out call    *)
(* and a child ended by a signal both carry ExitCode -1.                    *)

\* The exit status consulted before the context.
ClassifyByExit ==
    CASE err = "none" -> "ok"
      [] err = "exit" /\ exit = "signal" -> "sentinel"
      [] OTHER -> "failure"

Classify ==
    CASE err = "none" -> "ok"
      [] err # "none" /\ ctx = "deadline" -> "sentinel"
      [] err = "exit" /\ exit = "signal" /\ ctx # "deadline" -> "sentinel"
      [] OTHER -> "failure"

\* Both copies have seen the end of their pipe, and nobody can write any more.
Return ==
    /\ run = "drain"
    /\ ~descendant
    /\ outcome' = Classify
    /\ run' = "returned"
    /\ UNCHANGED <<late, ctx, child, exit, descendant, watcher, killed, err>>

-----------------------------------------------------------------------------
Code == Start \/ StartFails \/ Watch \/ Reap \/ Collect \/ Return

Environment ==
    \/ Deadline \/ Interrupt
    \/ \E how \in {"zero", "code", "signal"} : ChildExits(how)
    \/ ChildForks \/ DescendantEnds

Returned == run = "returned" /\ UNCHANGED vars

Next == Code \/ Environment \/ Returned

(* The timer fires, and the goroutines are scheduled. The child owes        *)
(* nothing: it may run until it is killed. The code cannot make a descendant *)
(* close the pipes: that it does is an assumption about the agent, without  *)
(* which Run never returns.                                                 *)
Fairness ==
    /\ WF_vars(Code)
    /\ WF_vars(Watch)
    /\ WF_vars(Deadline)
    /\ WF_vars(DescendantEnds)

Spec == Init /\ [][Next]_vars /\ Fairness

-----------------------------------------------------------------------------
(* Properties. *)

\* Success is the child's own: it exited with code 0 and no kill reached it,
\* not even one that came between its exit and the moment Run noticed it.
SuccessIsGenuine == outcome = "ok" => exit = "zero" /\ killed = "none"

\* A call whose child was killed at the deadline is reported as timed out,
\* whatever the exit status of the child says.
KilledAtDeadlineIsTimeout ==
    outcome # "none" /\ killed = "deadline" => outcome = "sentinel"

\* The call keeps the contract TrialExecutor is built on.
Contract == INSTANCE AdapterCall
ImplementsAdapterCall == Contract!Spec

-----------------------------------------------------------------------------
(* What the documentation says, and the code does not do. *)

\* README_en.md:574, "Running trials continue until the adapter timeout": no
\* child is killed before its own deadline.
RunningTrialsContinue == killed # "none" => ctx = "deadline"

=============================================================================
