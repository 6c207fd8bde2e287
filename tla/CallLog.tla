------------------------------- MODULE CallLog -------------------------------
(***************************************************************************)
(* What a parser of agent output promises of the tool calls in a stream:   *)
(* a call that was read comes out once, in the order of reading and never  *)
(* before it was read, and when the stream ends every call is out; a lossy *)
(* parser may leave the last ones behind, but no call from the middle.     *)
(***************************************************************************)
EXTENDS SequencesExt

VARIABLES
    lossy,  \* the calls still inside at the end of the stream may be lost
    read,   \* the calls read, in order
    kept,   \* the calls that are out, in order
    open    \* the stream has not ended

vars == <<lossy, read, kept, open>>

Init ==
    /\ lossy \in BOOLEAN
    /\ read = <<>>
    /\ kept = <<>>
    /\ open = TRUE

\* One event: it may bring calls, and it may send earlier calls out.
Event ==
    /\ open
    /\ IsPrefix(read, read')
    /\ IsPrefix(kept, kept') /\ IsPrefix(kept', read)
    /\ UNCHANGED <<lossy, open>>

End ==
    /\ open
    /\ open' = FALSE
    /\ IsPrefix(kept, kept') /\ IsPrefix(kept', read)
    /\ lossy \/ kept' = read
    /\ UNCHANGED <<lossy, read>>

\* The agent is called again, and its new output is read from the start.
Again ==
    /\ ~open
    /\ open' = TRUE
    /\ read' = <<>>
    /\ kept' = <<>>
    /\ UNCHANGED lossy

Spec == Init /\ [][Event \/ End \/ Again]_vars
=============================================================================
