------------------------------ MODULE MCOutbox ------------------------------
(***************************************************************************)
(* The webhook outbox for TLC: one process runs passes, as the lease of       *)
(* JobLease means it to be, or all of them do, as the lease allows when a     *)
(* pass outlives it.  Init picks which.                                      *)
(***************************************************************************)
EXTENDS WebhookOutbox

CONSTANT Leader

VARIABLE passes   \* the processes that run passes

PassInit == Init /\ passes \in {{Leader}, Workers}

(* A bound: where all run passes, none of them fails and the plan, which is     *)
(* asked of administrators only, does not lapse.                             *)
PassNext ==
    /\ Next
    /\ \A w \in Workers \ passes : batch'[w] = {}
    /\ passes = {Leader} \/ UNCHANGED <<apiAccess, faults>>
    /\ UNCHANGED passes

passVars == <<vars, passes>>

(* The fairness of WebhookOutbox, for the processes that run passes. *)
PassSpec ==
    /\ PassInit /\ [][PassNext]_passVars
    /\ \A w \in Workers :
          /\ WF_passVars(w \in passes /\ Claim(w) /\ UNCHANGED passes)
          /\ WF_passVars(HandleRow(w) /\ UNCHANGED passes)
    /\ \A d \in Deliveries : WF_passVars(BecomesDue(d) /\ UNCHANGED passes)

-----------------------------------------------------------------------------
(* Several passes at once do not keep the promise: one that is refused puts a  *)
(* row back that another delivered.  There the mapping stays as it begins.    *)
Alone == passes = {Leader}
aloneStages == IF Alone THEN stages ELSE [d \in Deliveries |-> "absent"]
aloneSpents == IF Alone THEN spents ELSE [d \in Deliveries |-> 0]

AlonePromise == INSTANCE Outbox WITH
    stage <- aloneStages, spent <- aloneSpents, requeued <- Alone /\ redelivered > 0

(* One pass at a time implements the promise of the schema: every row is      *)
(* retried until it is delivered or the table is exhausted, no row is failed  *)
(* early, revived or lost on the way, and every row that waits is attempted,  *)
(* although claims are kept in memory, passes die and endpoints disappear.    *)
PromiseKeptAlone == AlonePromise!Spec
=============================================================================
