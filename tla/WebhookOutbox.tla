---------------------------- MODULE WebhookOutbox ----------------------------
(***************************************************************************)
(* Outgoing webhooks: src/services/webhook.service.js.  dispatch writes one *)
(* WebhookDelivery row per matching endpoint; a scheduler pass claims due   *)
(* rows and attempts each one in turn.                                      *)
(*                                                                         *)
(* A worker is a process inside a scheduler pass.  JobLease shows that two  *)
(* passes can overlap, so Workers may have more than one member.  The order   *)
(* of the due rows (ORDER BY nextAttemptAt) and of a batch is left open.      *)
(***************************************************************************)
EXTENDS Integers, FiniteSets, Functions

CONSTANTS
    Endpoints,     \* webhook endpoints of one organization
    Events,        \* event names
    Deliveries,    \* identities of delivery rows (bound: rows ever created)
    Workers,       \* processes that run scheduler passes
    NoRow,         \* the row is not written yet
    Gone,          \* the row was deleted (its identity is never used again)
    AddedColumns,  \* columns a repaired claim selects besides the code's; {}: the code
    Delays,        \* length of the backoff table (6 in nextAttemptDelay)
    Limit,         \* rows claimed by a pass (processDueDeliveries(10))
    MaxRedeliver,  \* bound: manual redeliveries
    MaxFaults      \* bound: worker crashes and failed database updates

ASSUME DelaysAssumption == Delays \in Nat
ASSUME LimitAssumption == Limit \in Nat \ {0}
ASSUME BoundsAssumption == MaxRedeliver \in Nat /\ MaxFaults \in Nat

Open == {"PENDING", "RETRYING"}
RowRecords == [endpoint : Endpoints, status : Open \cup {"DELIVERED", "FAILED"}, attempts : Nat, sent : BOOLEAN]
ASSUME NoRowAssumption == NoRow # Gone /\ NoRow \notin RowRecords /\ Gone \notin RowRecords

VARIABLES
    apiAccess,    \* the organization's plan includes API access
    endpoint,     \* the WebhookEndpoint table
    row,          \* the WebhookDelivery table (sent: some attempt posted a request)
    due,          \* the open rows whose nextAttemptAt is reached
    batch,        \* what each worker claimed and has not handled: the ids,
                  \* with the attempts read by the claim
    redelivered,  \* manual redeliveries so far
    faults        \* faults so far

vars == <<apiAccess, endpoint, row, due, batch, redelivered, faults>>

Rows == {d \in Deliveries : row[d] \notin {NoRow, Gone}}
Unwritten == {d \in Deliveries : row[d] = NoRow}
Claims == [id : Deliveries, attempts : Nat]

TypeOK ==
    /\ apiAccess \in BOOLEAN
    /\ endpoint \in [Endpoints -> [exists : BOOLEAN, active : BOOLEAN, events : SUBSET Events]]
    /\ row \in [Deliveries -> RowRecords \cup {NoRow, Gone}]
    /\ due \subseteq Rows
    /\ batch \in [Workers -> SUBSET Claims]
    /\ redelivered \in 0 .. MaxRedeliver
    /\ faults \in 0 .. MaxFaults

Init ==
    /\ apiAccess = TRUE
    /\ endpoint = [e \in Endpoints |-> [exists |-> FALSE, active |-> FALSE, events |-> {}]]
    /\ row = [d \in Deliveries |-> NoRow]
    /\ due = {}
    /\ batch = [w \in Workers |-> {}]
    /\ redelivered = 0
    /\ faults = 0

-----------------------------------------------------------------------------
(* Administration of the endpoints.  "*" is the set of all events.          *)

(* assertApiAccess and requireFeature look at the plan on every request; a   *)
(* lapsed plan stops the administration, not the rows already queued.       *)
PlanChanges ==
    /\ apiAccess' = ~apiAccess
    /\ UNCHANGED <<endpoint, row, due, batch, redelivered, faults>>

CreateEndpoint(e) ==
    /\ apiAccess
    /\ ~endpoint[e].exists
    /\ \E events \in SUBSET Events \ {{}} :
          endpoint' = [endpoint EXCEPT ![e] = [exists |-> TRUE, active |-> TRUE, events |-> events]]
    /\ UNCHANGED <<apiAccess, row, due, batch, redelivered, faults>>

(* Rows already written are left as they are: pausing stops no retry. *)
UpdateEndpoint(e) ==
    /\ apiAccess
    /\ endpoint[e].exists
    /\ \E active \in BOOLEAN, events \in SUBSET Events \ {{}} :
          endpoint' = [endpoint EXCEPT ![e] = [exists |-> TRUE, active |-> active, events |-> events]]
    /\ UNCHANGED <<apiAccess, row, due, batch, redelivered, faults>>

RowsOf(e) == {d \in Rows : row[d].endpoint = e}

(* The rows of the endpoint go with it (onDelete: Cascade). *)
DeleteEndpoint(e) ==
    /\ apiAccess
    /\ endpoint[e].exists
    /\ endpoint' = [endpoint EXCEPT ![e] = [exists |-> FALSE, active |-> FALSE, events |-> {}]]
    /\ row' = [d \in Deliveries |-> IF d \in RowsOf(e) THEN Gone ELSE row[d]]
    /\ due' = due \ RowsOf(e)
    /\ UNCHANGED <<apiAccess, batch, redelivered, faults>>

-----------------------------------------------------------------------------
(* The outbox *)

Matching(event) ==
    {e \in Endpoints : endpoint[e].exists /\ endpoint[e].active /\ event \in endpoint[e].events}

NewRow(e) == [endpoint |-> e, status |-> "PENDING", attempts |-> 0, sent |-> FALSE]

(* One row per active endpoint that subscribes to the event; the rows are     *)
(* created side by side and some may fail.  sendTest dispatches the event     *)
(* webhook.test in the same way.                                             *)
Dispatch(event) ==
    \E written \in SUBSET Matching(event) \ {{}} :
        \E at \in Injection(written, Unwritten) :
            /\ row' = [d \in Deliveries |->
                          IF d \in Range(at) THEN NewRow(CHOOSE e \in written : at[e] = d) ELSE row[d]]
            /\ due' = due \cup Range(at)
            /\ UNCHANGED <<apiAccess, endpoint, batch, redelivered, faults>>

(* The claim: up to Limit due rows, with their attempts as of now.  The       *)
(* FOR UPDATE SKIP LOCKED query is a transaction of its own, so its row      *)
(* locks are gone before the worker handles the first row: a row another     *)
(* worker is still handling is claimed again.                                *)
Claim(w) ==
    /\ batch[w] = {} /\ due # {}
    /\ \E ids \in SUBSET due :
          /\ Cardinality(ids) = Limit \/ (ids = due /\ Cardinality(due) <= Limit)
          /\ batch' = [batch EXCEPT ![w] = {[id |-> d, attempts |-> row[d].attempts] : d \in ids}]
    /\ UNCHANGED <<apiAccess, endpoint, row, due, redelivered, faults>>

(* The columns the claim selects, and what the envelope of an attempt is     *)
(* made of.  A column that was not selected is undefined in JavaScript:      *)
(* JSON.stringify leaves eventId out, but new Date(undefined).toISOString()  *)
(* throws, so that the attempt ends before the request is sent.  Such an      *)
(* attempt is counted and retried as a refused one is.                       *)
ClaimedColumns == AddedColumns \cup {"id", "status", "attempts", "nextAttemptAt", "event",
                                     "payload", "endpointId", "url", "secretCiphertext"}
ThrowsWhenMissing == {"createdAt", "url", "secretCiphertext"}

(* An attempt that posts its request is accepted (2xx) or refused. *)
attemptDelivery ==
    IF ThrowsWhenMissing \subseteq ClaimedColumns THEN {"accepted", "refused"} ELSE {"unsent"}

(* MUTANT: a first delay of zero counts as "no delay". *)
HasRetry_ZeroDelay(attempts) == attempts > 0 /\ attempts < Delays

(* nextAttemptDelay is not null. *)
HasRetry(attempts) == attempts < Delays

(* MUTANT: a failed attempt is not counted. *)
AfterAttempt_NotCounted(r, attempts, result) ==
    IF result = "accepted" THEN [r EXCEPT !.status = "DELIVERED", !.sent = TRUE]
    ELSE [r EXCEPT !.status = IF HasRetry(attempts) THEN "RETRYING" ELSE "FAILED",
                   !.sent = @ \/ result = "refused"]

(* The row after an attempt: whether another follows depends on the attempts *)
(* the claim read, while the row's own counter is incremented.               *)
AfterAttempt(r, attempts, result) ==
    IF result = "accepted" THEN [r EXCEPT !.status = "DELIVERED", !.sent = TRUE]
    ELSE [r EXCEPT !.status = IF HasRetry(attempts) THEN "RETRYING" ELSE "FAILED",
                   !.attempts = @ + 1,
                   !.sent = @ \/ result = "refused"]

(* One turn of the loop over the claimed rows.  A row deleted meanwhile      *)
(* makes the update throw out of the loop, which drops the rest of the batch. *)
HandleRow(w) ==
    /\ \E c \in batch[w] :
          \/ /\ c.id \in Rows
             /\ \E result \in attemptDelivery :
                   row' = [row EXCEPT ![c.id] = AfterAttempt(@, c.attempts, result)]
             /\ due' = due \ {c.id}
             /\ batch' = [batch EXCEPT ![w] = @ \ {c}]
          \/ /\ c.id \notin Rows
             /\ batch' = [batch EXCEPT ![w] = {}]
             /\ UNCHANGED <<row, due>>
    /\ UNCHANGED <<apiAccess, endpoint, redelivered, faults>>

(* The worker dies, or the database refuses the update after the attempt:    *)
(* the rows it had claimed stay due.                                         *)
LoseBatch(w) ==
    /\ batch[w] # {}
    /\ faults < MaxFaults
    /\ batch' = [batch EXCEPT ![w] = {}]
    /\ faults' = faults + 1
    /\ UNCHANGED <<apiAccess, endpoint, row, due, redelivered>>

(* nextAttemptAt of a retried row is reached. *)
BecomesDue(d) ==
    /\ d \in Rows \ due
    /\ row[d].status \in Open
    /\ due' = due \cup {d}
    /\ UNCHANGED <<apiAccess, endpoint, row, batch, redelivered, faults>>

(* An administrator puts a row back in the queue, whatever its status. *)
Redeliver(d) ==
    /\ apiAccess
    /\ d \in Rows
    /\ redelivered < MaxRedeliver
    /\ row' = [row EXCEPT ![d] = [@ EXCEPT !.status = "PENDING", !.attempts = 0]]
    /\ due' = due \cup {d}
    /\ redelivered' = redelivered + 1
    /\ UNCHANGED <<apiAccess, endpoint, batch, faults>>

Next ==
    \/ PlanChanges
    \/ \E e \in Endpoints : CreateEndpoint(e) \/ UpdateEndpoint(e) \/ DeleteEndpoint(e)
    \/ \E event \in Events : Dispatch(event)
    \/ \E w \in Workers : Claim(w) \/ HandleRow(w) \/ LoseBatch(w)
    \/ \E d \in Deliveries : BecomesDue(d) \/ Redeliver(d)

(* Passes keep running and clocks advance; nobody has to dispatch, redeliver *)
(* or administer, and faults are finite by MaxFaults.                        *)
Fairness ==
    /\ \A w \in Workers : WF_vars(Claim(w)) /\ WF_vars(HandleRow(w))
    /\ \A d \in Deliveries : WF_vars(BecomesDue(d))

Spec == Init /\ [][Next]_vars /\ Fairness

-----------------------------------------------------------------------------
Settled(d) == d \notin Rows \/ row[d].status \notin Open

(* The backoff table bounds the attempts between two redeliveries, although  *)
(* the decision to go on uses the count the claim read and the counter is    *)
(* incremented in the row: true while passes do not overlap.                 *)
RetryBudget == \A d \in Rows : row[d].attempts <= Delays + 1

(* Why it holds: an open row has an attempt left, and what a pass holds in     *)
(* memory still says as much of its row, unless the row was redelivered.      *)
OnePass == \A v, w \in Workers : v = w
Agrees(c) ==
    row[c.id] # Gone =>
        /\ c.id \in Rows /\ row[c.id].status \in Open
        /\ row[c.id].attempts <= c.attempts
        /\ redelivered = 0 => row[c.id].attempts = c.attempts
ClaimsAgree ==
    /\ \A d \in due : row[d].status \in Open
    /\ \A d \in Rows : row[d].status \in Open => row[d].attempts <= Delays
    /\ \A w \in Workers : \A c \in batch[w] : Agrees(c) /\ c.attempts <= Delays
    /\ \A w \in Workers : \A b, c \in batch[w] : b.id = c.id => b = c

(* Every row belongs to an endpoint that exists, whichever rows a deletion    *)
(* finds in a worker's hands.                                                *)
NoOrphanRow == \A d \in Rows : endpoint[row[d].endpoint].exists

(* Retrying stops: every delivery is eventually delivered, failed or gone,    *)
(* with any number of overlapping passes.                                    *)
EventuallySettled == \A d \in Deliveries : <>[]Settled(d)

(* The outbox as its clients know it: a row waits, is delivered, or failed    *)
(* after the attempts the table allows; passes, claims and order are hidden.  *)
StageOf(r) ==
    CASE r = NoRow -> "absent"
      [] r = Gone -> "removed"
      [] r \notin {NoRow, Gone} /\ r.status \in Open -> "waiting"
      [] r \notin {NoRow, Gone} /\ r.status = "DELIVERED" -> "delivered"
      [] r \notin {NoRow, Gone} /\ r.status = "FAILED" -> "failed"

SpentOf(r) == IF r \in {NoRow, Gone} THEN 0 ELSE r.attempts

stages == [d \in Deliveries |-> StageOf(row[d])]
spents == [d \in Deliveries |-> SpentOf(row[d])]

Promise == INSTANCE Outbox WITH stage <- stages, spent <- spents, requeued <- redelivered > 0

(* attemptDelivery's comment: "Try to deliver a single WebhookDelivery        *)
(* record": an attempt that counts against the row posted its request.       *)
AttemptsAreSent == \A d \in Rows : row[d].attempts > 0 => row[d].sent
=============================================================================
