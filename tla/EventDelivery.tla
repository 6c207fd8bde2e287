---------------------------- MODULE EventDelivery ----------------------------
(***************************************************************************)
(* What the Langfuse adapter promises of one ingestion event, whatever the *)
(* number of flushes that run at the same time: it is queued once, and if  *)
(* it leaves the queue it does so once, for one reason that never changes: *)
(* the server took it, the server refused it for good, or the queue was at *)
(* its limit.                                                              *)
(***************************************************************************)

CONSTANT Events

VARIABLE fate

Fates == {"acked", "rejected", "dropped"}

Init == fate = [e \in Events |-> "new"]

Queue(e) ==
    /\ fate[e] = "new"
    /\ fate' = [fate EXCEPT ![e] = "queued"]

\* One response, or one overflow, settles some of the queued events.
SettleSome ==
    /\ fate' \in [Events -> Fates \cup {"new", "queued"}]
    /\ \A e \in Events :
           fate'[e] # fate[e] => fate[e] = "queued" /\ fate'[e] \in Fates

Next == SettleSome \/ \E e \in Events : Queue(e)

Spec == Init /\ [][Next]_fate
=============================================================================
