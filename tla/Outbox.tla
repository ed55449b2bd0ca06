------------------------------- MODULE Outbox -------------------------------
(***************************************************************************)
(* What the webhook outbox promises, whoever works on it and in what order: *)
(* "Outbox row per (event, endpoint). Retried with backoff until delivered   *)
(* or out of attempts" (prisma/schema.prisma:2121).  There are no workers,    *)
(* claims, queues or clocks here; WebhookOutbox implements it.                *)
(***************************************************************************)
EXTENDS Integers

CONSTANTS Deliveries, Delays

VARIABLES
    stage,     \* where a delivery is
    spent,     \* attempts that failed since it was last put in the queue
    requeued   \* some delivery was put back in the queue by hand

outboxVars == <<stage, spent, requeued>>

Stages == {"absent", "waiting", "delivered", "failed", "removed"}
In(s) == {d \in Deliveries : stage[d] = s}

Init ==
    /\ stage = [d \in Deliveries |-> "absent"]
    /\ spent = [d \in Deliveries |-> 0]
    /\ requeued = FALSE

Write(ids) ==
    /\ stage' = [d \in Deliveries |-> IF d \in ids THEN "waiting" ELSE stage[d]]
    /\ UNCHANGED <<spent, requeued>>

Deliver(d) ==
    /\ stage[d] = "waiting"
    /\ stage' = [stage EXCEPT ![d] = "delivered"]
    /\ UNCHANGED <<spent, requeued>>

Refuse(d) ==
    /\ stage[d] = "waiting"
    /\ spent[d] < Delays
    /\ spent' = [spent EXCEPT ![d] = @ + 1]
    /\ UNCHANGED <<stage, requeued>>

(* A delivery fails only when every delay of the table was used, unless one   *)
(* was requeued: an attempt under way then ends the new life like the old.    *)
GiveUp(d) ==
    /\ stage[d] = "waiting"
    /\ spent[d] = Delays \/ requeued
    /\ stage' = [stage EXCEPT ![d] = "failed"]
    /\ spent' = [spent EXCEPT ![d] = @ + 1]
    /\ UNCHANGED requeued

Requeue(d) ==
    /\ stage[d] \in {"waiting", "delivered", "failed"}
    /\ stage' = [stage EXCEPT ![d] = "waiting"]
    /\ spent' = [spent EXCEPT ![d] = 0]
    /\ requeued' = TRUE

(* The deliveries of an endpoint go with it; nothing of them is kept. *)
Remove(ids) ==
    /\ stage' = [d \in Deliveries |-> IF d \in ids THEN "removed" ELSE stage[d]]
    /\ spent' = [d \in Deliveries |-> IF d \in ids THEN 0 ELSE spent[d]]
    /\ UNCHANGED requeued

Attempt(d) == Deliver(d) \/ Refuse(d) \/ GiveUp(d)

Next ==
    \/ \E ids \in SUBSET In("absent") : Write(ids)
    \/ \E ids \in SUBSET (Deliveries \ In("absent")) : Remove(ids)
    \/ \E d \in Deliveries : Attempt(d) \/ Requeue(d)

Spec == Init /\ [][Next]_outboxVars /\ \A d \in Deliveries : WF_outboxVars(Attempt(d))
=============================================================================
