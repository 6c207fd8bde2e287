---------------------------- MODULE LangfuseQueue ----------------------------
(***************************************************************************)
(* The ingestion queue of LangfuseAdapter: addEvent, Flush, splitBatch,    *)
(* sendWithRetry, sendChunkWithRetry, extractRetryableFailures and the     *)
(* answers sendBatchParsed tells apart.                                    *)
(*                                                                         *)
(* The goroutines of the trials add events and, with flushOnTrialEnd,      *)
(* flush, all on one batch behind one mutex that Flush gives up while it   *)
(* sends; process 0 is the last Flush of Runner.Run, after every trial.    *)
(***************************************************************************)
EXTENDS Integers, Sequences, FiniteSets

CONSTANTS
    N,                \* trials
    EventsPerTrial,   \* events FinishTrial queues
    ChunkSize,        \* batchChunkSize, positive after NewLangfuseAdapter
    MaxRetries,       \* maxRetries
    MaxBatchQueue,    \* maxBatchQueue, positive after NewLangfuseAdapter
    FlushOnTrialEnd

ASSUME SizesAssumption ==
    /\ N \in Nat
    /\ EventsPerTrial \in Nat
    /\ ChunkSize \in Nat \ {0}
    /\ MaxRetries \in Nat
    /\ MaxBatchQueue \in Nat \ {0}
    /\ FlushOnTrialEnd \in BOOLEAN

Trials == 1..N
Flushers == 0..N
Events == Trials \X (1..EventsPerTrial)

VARIABLES
    pc,       \* pc[p]: "adding" | "waiting" | "flush" | "sending" | "requeue" | "done"
    added,    \* added[t]: events trial t has queued
    batch,    \* the batch, oldest first
    chunks,   \* chunks[p]: what is left of the copy p sends; the head is `remaining`
    attempt,  \* attempt[p]: the loop variable of sendChunkWithRetry
    failed,   \* failed[p]: allFailed of sendWithRetry
    acked, rejected, dropped,  \* what became of the events that left the queue
    tries     \* tries[e]: requests that carried e since Flush last took it

queueVars == <<added, batch>>
sendVars == <<chunks, attempt, failed>>
fateVars == <<acked, rejected, dropped>>
vars == <<pc, queueVars, sendVars, fateVars, tries>>

Elements(s) == {s[i] : i \in DOMAIN s}

TypeOK ==
    /\ pc \in [Flushers -> {"adding", "waiting", "flush", "sending", "requeue", "done"}]
    /\ added \in [Trials -> 0..EventsPerTrial]
    /\ batch \in Seq(Events)
    /\ chunks \in [Flushers -> Seq(Seq(Events))]
    /\ attempt \in [Flushers -> 0..MaxRetries]
    /\ failed \in [Flushers -> Seq(Events)]
    /\ UNION {acked, rejected, dropped} \subseteq Events
    /\ tries \in [Events -> 0..MaxRetries + 1]

Init ==
    /\ pc = [p \in Flushers |-> IF p = 0 THEN "waiting" ELSE "adding"]
    /\ added = [t \in Trials |-> 0]
    /\ batch = << >>
    /\ chunks = [p \in Flushers |-> << >>]
    /\ attempt = [p \in Flushers |-> 0]
    /\ failed = [p \in Flushers |-> << >>]
    /\ acked = {} /\ rejected = {} /\ dropped = {}
    /\ tries = [e \in Events |-> 0]

Goto(p, place) == pc' = [pc EXCEPT ![p] = place]

-----------------------------------------------------------------------------
(* FinishTrial queues the events of its trial, then runTrial goes on.       *)

AddEvent(t) ==
    /\ pc[t] = "adding"
    /\ added[t] < EventsPerTrial
    /\ added' = [added EXCEPT ![t] = @ + 1]
    /\ batch' = Append(batch, <<t, added[t] + 1>>)
    /\ UNCHANGED <<pc, sendVars, fateVars, tries>>

EndFinishTrial(t) ==
    /\ pc[t] = "adding"
    /\ added[t] = EventsPerTrial
    /\ Goto(t, IF FlushOnTrialEnd THEN "flush" ELSE "done")
    /\ UNCHANGED <<queueVars, sendVars, fateVars, tries>>

\* The last Flush without wg.Wait before it.
AllDoneUnwaited ==
    /\ pc[0] = "waiting"
    /\ Goto(0, "flush")
    /\ UNCHANGED <<queueVars, sendVars, fateVars, tries>>

AllDone ==
    /\ pc[0] = "waiting"
    /\ \A t \in Trials : pc[t] = "done"
    /\ Goto(0, "flush")
    /\ UNCHANGED <<queueVars, sendVars, fateVars, tries>>

-----------------------------------------------------------------------------
(* Flush, first critical section. *)

Smaller(a, b) == IF a < b THEN a ELSE b

\* splitBatch
SplitBatch(s) ==
    [i \in 1..((Len(s) + ChunkSize - 1) \div ChunkSize) |->
        SubSeq(s, (i - 1) * ChunkSize + 1, Smaller(i * ChunkSize, Len(s)))]

Take(p) ==
    /\ pc[p] = "flush"
    /\ chunks' = [chunks EXCEPT ![p] = SplitBatch(batch)]
    /\ attempt' = [attempt EXCEPT ![p] = 0]
    /\ failed' = [failed EXCEPT ![p] = << >>]
    /\ tries' = [e \in Events |-> IF e \in Elements(batch) THEN 0 ELSE tries[e]]
    /\ batch' = << >>
    /\ Goto(p, IF batch = << >> THEN "done" ELSE "sending")
    /\ UNCHANGED <<added, fateVars>>

-----------------------------------------------------------------------------
(* sendWithRetry: one request per step, for the head of chunks[p].          *)

Remaining(p) == Head(chunks[p])

\* The chunk is finished: its retryable rest joins allFailed.
NextChunk(p, rest) ==
    /\ chunks' = [chunks EXCEPT ![p] = Tail(@)]
    /\ attempt' = [attempt EXCEPT ![p] = 0]
    /\ failed' = [failed EXCEPT ![p] = @ \o rest]
    /\ IF Len(chunks[p]) > 1
       THEN UNCHANGED pc
       ELSE Goto(p, IF failed[p] \o rest = << >> THEN "done" ELSE "requeue")

TryAgain(p, rest) ==
    IF rest # << >> /\ attempt[p] < MaxRetries
    THEN /\ chunks' = [chunks EXCEPT ![p][1] = rest]
         /\ attempt' = [attempt EXCEPT ![p] = @ + 1]
         /\ UNCHANGED <<failed, pc>>
    ELSE NextChunk(p, rest)

Sent(p) ==
    /\ pc[p] = "sending"
    /\ tries' = [e \in Events |->
                    tries[e] + (IF e \in Elements(Remaining(p)) THEN 1 ELSE 0)]
    /\ UNCHANGED <<queueVars, dropped>>

\* A partial failure sends the whole chunk again.
RetryableRestAll(sent, retryable) ==
    IF retryable = {} THEN << >> ELSE sent

\* extractRetryableFailures
RetryableRest(sent, retryable) ==
    LET rest[i \in 0..Len(sent)] ==
            IF i = 0 THEN << >>
            ELSE IF sent[i] \in retryable THEN Append(rest[i - 1], sent[i])
            ELSE rest[i - 1]
    IN  rest[Len(sent)]

\* 2xx: item errors are retryable (5xx, 429) or permanent, the rest is taken.
Accepted(p) ==
    pc[p] = "sending" /\
    \E retryable \in SUBSET Elements(Remaining(p)) :
    \E permanent \in SUBSET (Elements(Remaining(p)) \ retryable) :
        /\ Sent(p)
        /\ rejected' = rejected \cup permanent
        /\ acked' = acked \cup (Elements(Remaining(p)) \ (retryable \cup permanent))
        /\ TryAgain(p, RetryableRest(Remaining(p), retryable))

\* Another status below 500 and not 429: the chunk is given up.
Refused(p) ==
    /\ Sent(p)
    /\ rejected' = rejected \cup Elements(Remaining(p))
    /\ UNCHANGED acked
    /\ NextChunk(p, << >>)

\* 5xx, 429, or no answer, in which case the server may have taken the chunk.
Unavailable(p) ==
    /\ Sent(p)
    /\ UNCHANGED <<acked, rejected>>
    /\ TryAgain(p, Remaining(p))

-----------------------------------------------------------------------------
(* Flush, second critical section. *)

\* The limit compared with the failed events alone.
CapacityIgnoringBatch == MaxBatchQueue

Capacity ==
    IF Len(batch) < MaxBatchQueue THEN MaxBatchQueue - Len(batch) ELSE 0

\* Flush starts over while anything is left to send.
RequeueAndFlushAgain(p) ==
    LET kept == Smaller(Len(failed[p]), Capacity) IN
    /\ pc[p] = "requeue"
    /\ batch' = SubSeq(failed[p], 1, kept) \o batch
    /\ dropped' = dropped \cup Elements(SubSeq(failed[p], kept + 1, Len(failed[p])))
    /\ failed' = [failed EXCEPT ![p] = << >>]
    /\ Goto(p, "flush")
    /\ UNCHANGED <<added, chunks, attempt, acked, rejected, tries>>

\* The batch is replaced, not extended, by the failed events.
RequeueOver(p) ==
    LET kept == Smaller(Len(failed[p]), Capacity) IN
    /\ pc[p] = "requeue"
    /\ batch' = SubSeq(failed[p], 1, kept)
    /\ dropped' = dropped \cup Elements(SubSeq(failed[p], kept + 1, Len(failed[p])))
    /\ failed' = [failed EXCEPT ![p] = << >>]
    /\ Goto(p, "done")
    /\ UNCHANGED <<added, chunks, attempt, acked, rejected, tries>>

Requeue(p) ==
    LET kept == Smaller(Len(failed[p]), Capacity) IN
    /\ pc[p] = "requeue"
    /\ batch' = SubSeq(failed[p], 1, kept) \o batch
    /\ dropped' = dropped \cup Elements(SubSeq(failed[p], kept + 1, Len(failed[p])))
    /\ failed' = [failed EXCEPT ![p] = << >>]
    /\ Goto(p, "done")
    /\ UNCHANGED <<added, chunks, attempt, acked, rejected, tries>>

-----------------------------------------------------------------------------
FlushStep(p) == Take(p) \/ Accepted(p) \/ Refused(p) \/ Unavailable(p) \/ Requeue(p)

TrialStep(t) == AddEvent(t) \/ EndFinishTrial(t) \/ FlushStep(t)

Finished == pc[0] = "done" /\ UNCHANGED vars

Next ==
    \/ \E t \in Trials : TrialStep(t)
    \/ AllDone \/ FlushStep(0)
    \/ Finished

\* Goroutines are scheduled; the client gives up on a request after 30 s.
Fairness ==
    /\ \A t \in Trials : WF_vars(TrialStep(t))
    /\ WF_vars(AllDone \/ FlushStep(0))

Spec == Init /\ [][Next]_vars /\ Fairness

-----------------------------------------------------------------------------
(* Properties. *)

Occurrences(e, s) == Cardinality({i \in DOMAIN s : s[i] = e})

\* Copies of e in the hands of flusher p.
InFlight(e, p) ==
    Occurrences(e, failed[p]) +
    Cardinality({ij \in (DOMAIN chunks[p]) \X (1..ChunkSize) :
                    /\ ij[2] \in DOMAIN chunks[p][ij[1]]
                    /\ chunks[p][ij[1]][ij[2]] = e})

Queued(e) == e[2] <= added[e[1]]
Pending(e) == Occurrences(e, batch) > 0 \/ \E p \in Flushers : InFlight(e, p) > 0

\* A queued event is in exactly one place: once in the batch, or once in the
\* hands of one flush, or it left for exactly one reason. So no flush loses an
\* event or sends one that another flush has, and none returns after an answer.
EventInOnePlace ==
    \A e \in Events :
        LET holders == {p \in Flushers : InFlight(e, p) > 0}
            fates == {F \in {<<"acked", acked>>, <<"rejected", rejected>>,
                             <<"dropped", dropped>>} : e \in F[2]}
        IN  /\ \A p \in Flushers : InFlight(e, p) <= 1
            /\ Occurrences(e, batch) + Cardinality(holders) + Cardinality(fates)
                   = IF Queued(e) THEN 1 ELSE 0

\* Putting failed events back never takes the queue above its limit, even
\* though addEvent itself knows no limit.
RequeueWithinLimit ==
    [][\A p \in Flushers : Requeue(p) =>
           Len(batch') <= MaxBatchQueue \/ batch' = batch]_vars

\* What is still in the batch when the process is about to end was sent by the
\* last Flush as often as the retry limit allows.
AbandonedOnlyAfterRetries ==
    pc[0] = "done" => \A i \in DOMAIN batch : tries[batch[i]] = MaxRetries + 1

\* Every Flush ends, so the run does too, even if the server never recovers.
FlushesEnd == <>(\A p \in Flushers : pc[p] = "done")

\* The queue keeps the promise of EventDelivery.
Fate(e) ==
    IF e \in acked THEN "acked"
    ELSE IF e \in rejected THEN "rejected"
    ELSE IF e \in dropped THEN "dropped"
    ELSE IF Pending(e) THEN "queued"
    ELSE "new"

Delivery == INSTANCE EventDelivery WITH fate <- [e \in Events |-> Fate(e)]
ImplementsEventDelivery == Delivery!Spec
=============================================================================
