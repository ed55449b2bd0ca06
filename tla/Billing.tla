------------------------------- MODULE Billing -------------------------------
(***************************************************************************)
(* Subscription billing of one organization:                                *)
(* src/services/billing.service.js, entitlement.service.js and the actions  *)
(* of platform-admin.service.js.  The payment provider (Razorpay) is        *)
(* external: it takes payments for the references the checkout handed out   *)
(* and posts events, each at least once and in any order.                   *)
(*                                                                         *)
(* A paid period has one length and events carry an id.  Database           *)
(* transactions are atomic; what is read before one is a step of its own.   *)
(***************************************************************************)
EXTENDS Integers, FiniteSets, FiniteSetsExt

CONSTANTS
    Orders,          \* identities of BillingOrder rows (bound: rows ever created)
    Refs,            \* order and subscription identities of the provider
    Payments,        \* payment identities of the provider
    Plans,           \* paid plans
    RecurringPlans,  \* plans with a recurring provider plan in the environment
    Keys,            \* idempotency keys of the checkout pages
    Slots,           \* checkout requests that may run at once
    Period,          \* days of a paid period
    TrialDays, TrialGrace, Grace,
    MaxDay,          \* bound: days
    MaxGrants,       \* bound: cancellations and actions of the platform owner
    None

ASSUME BillingAssumption ==
    /\ {Period, TrialDays, TrialGrace, Grace, MaxDay, MaxGrants} \subseteq Nat
    /\ RecurringPlans \subseteq Plans
    /\ None \notin Plans \cup Refs \cup Payments \cup Keys \cup Nat

Trial == "FREE_TRIAL"
Statuses == {"TRIALING", "ACTIVE", "PAST_DUE", "CANCELED"}
Days == 0 .. MaxDay
Ends == Nat

OrderRows == [kind : {"once", "recurring", "free"}, plan : Plans, status : {"CREATED", "FAILED", "PAID"},
              key : Keys \cup {None}, ref : Refs \cup {None}, payment : Payments \cup {None}]
(* None is no order. *)
ASSUME NoOrderAssumption == None \notin OrderRows
Checkouts == [kind : {"once", "recurring", "free"}, plan : Plans, key : Keys \cup {None}, ref : Refs \cup {None}]
Subscription == [plan : Plans \cup {Trial}, status : Statuses, end : Ends, ref : Refs \cup {None}]
ProviderEvents == [type : {"payment.failed", "payment.captured", "subscription.charged",
                           "subscription.halted", "subscription.cancelled"},
                   ref : Refs, payment : Payments \cup {None}, at : Days]
Recorded == ProviderEvents \cup [verified : Payments]

VARIABLES
    day,
    org,       \* the plan columns of Organization
    sub,       \* the Subscription row
    order,     \* the BillingOrder table
    req,       \* checkout requests between their look-ups and their write
    canceling, \* a cancellation between its statements
    extend,    \* an EXTEND between its read and its transaction
    offered,   \* the provider references handed to the customer's browser
    stopped,   \* recurring references the provider was asked to stop
    posted,    \* events the provider posts, again and again
    events,    \* the BillingEvent table
    bought,    \* auxiliary: periods applied for each payment
    latest,    \* auxiliary: when the period bought last was paid
    grants,    \* how often the customer or the platform owner stepped in
    overwrote  \* auxiliary: an EXTEND wrote over a row that had changed since its read

vars == <<day, org, sub, order, req, canceling, extend, offered, stopped, posted, events, bought, latest, grants, overwrote>>
checkout == <<req, offered>>
provider == <<stopped, posted>>
owner == <<extend, grants, overwrote>>
ledger == <<bought, latest>>

Written == {o \in Orders : order[o] # None}
PaidOrders == {o \in Written : order[o].status = "PAID"}
UsedRefs == offered \cup {req[s].ref : s \in {t \in Slots : req[t] # None}}
UsedPayments == {e.payment : e \in posted}

(* Identities never used before; which one is taken makes no difference. *)
Fresh(ids, used) == IF ids \subseteq used THEN {} ELSE {CHOOSE i \in ids \ used : TRUE}

TypeOK ==
    /\ day \in Days
    /\ org \in [plan : Plans \cup {Trial}, status : Statuses, end : Ends, suspended : BOOLEAN]
    /\ sub \in Subscription
    /\ order \in [Orders -> OrderRows \cup {None}]
    /\ req \in [Slots -> Checkouts \cup {None}]
    /\ canceling \in {"no", "asked", "half"}
    /\ extend = None \/ extend \in [trial : BOOLEAN, end : Ends]
    /\ offered \subseteq Refs /\ stopped \subseteq Refs
    /\ posted \subseteq ProviderEvents
    /\ events \subseteq Recorded
    /\ bought \in [Payments -> Nat]
    /\ latest \in Days \cup {None}
    /\ grants \in 0 .. MaxGrants
    /\ overwrote \in BOOLEAN

(* register: every workspace starts on a trial, whichever plan was chosen. *)
Init ==
    /\ day = 0
    /\ org = [plan |-> Trial, status |-> "TRIALING", end |-> TrialDays, suspended |-> FALSE]
    /\ sub = [plan |-> Trial, status |-> "TRIALING", end |-> TrialDays, ref |-> None]
    /\ order = [o \in Orders |-> None]
    /\ req = [s \in Slots |-> None]
    /\ canceling = "no" /\ extend = None
    /\ offered = {} /\ stopped = {} /\ posted = {} /\ events = {}
    /\ bought = [p \in Payments |-> 0] /\ latest = None
    /\ grants = 0 /\ overwrote = FALSE

Tick ==
    /\ day < MaxDay
    /\ day' = day + 1
    /\ UNCHANGED <<org, sub, order, req, canceling, extend, offered, stopped, posted, events, bought, latest, grants, overwrote>>

-----------------------------------------------------------------------------
(* The plan *)

(* MUTANT: a canceled plan is shut at once. *)
evaluateEntitlement_NoRest ==
    /\ ~org.suspended
    /\ \/ sub.status = "TRIALING" /\ day <= sub.end + TrialGrace
       \/ sub.status \in {"ACTIVE", "PAST_DUE"} /\ day <= sub.end + Grace

(* Whether the workspace may be used today: the Subscription row decides. *)
evaluateEntitlement ==
    /\ ~org.suspended
    /\ \/ sub.status = "TRIALING" /\ day <= sub.end + TrialGrace
       \/ sub.status \in {"ACTIVE", "PAST_DUE"} /\ day <= sub.end + Grace
       \/ sub.status = "CANCELED" /\ day <= sub.end

(* MUTANT: only the organization's copy of the period is moved. *)
applyPaidPlan_OrgOnly(plan, base, ref) ==
    /\ org' = [org EXCEPT !.plan = plan, !.status = "ACTIVE", !.end = base + Period]
    /\ sub' = [sub EXCEPT !.plan = plan, !.status = "ACTIVE", !.ref = ref]

(* A period of the plan from base, written to both rows. *)
applyPaidPlan(plan, base, ref) ==
    /\ org' = [org EXCEPT !.plan = plan, !.status = "ACTIVE", !.end = base + Period]
    /\ sub' = [sub EXCEPT !.plan = plan, !.status = "ACTIVE", !.end = base + Period, !.ref = ref]

(* Renewing the same plan before it runs out starts at its end. *)
PeriodBase(plan, start) ==
    IF org.plan = plan /\ org.status \in {"ACTIVE", "CANCELED"} /\ org.end > start THEN org.end ELSE start

(* MUTANT: only an order that never failed can be claimed. *)
activateOrder_NotFailed(o, payment, paidAt) ==
    IF order[o].status # "CREATED" THEN UNCHANGED <<org, sub, order, ledger>>
    ELSE /\ order' = [order EXCEPT ![o] = [@ EXCEPT !.status = "PAID", !.payment = payment]]
         /\ applyPaidPlan(order[o].plan, PeriodBase(order[o].plan, paidAt), sub.ref)
         /\ bought' = [bought EXCEPT ![payment] = @ + 1]
         /\ latest' = paidAt

(* The order is claimed unless it is PAID, in the transaction that applies    *)
(* its plan; a paid order is left as it is.                                  *)
activateOrder(o, payment, paidAt) ==
    IF order[o].status = "PAID" THEN UNCHANGED <<org, sub, order, ledger>>
    ELSE /\ order' = [order EXCEPT ![o] = [@ EXCEPT !.status = "PAID", !.payment = payment]]
         /\ applyPaidPlan(order[o].plan, PeriodBase(order[o].plan, paidAt),
                          IF order[o].kind = "recurring" THEN order[o].ref ELSE sub.ref)
         /\ bought' = [bought EXCEPT ![payment] = @ + 1]
         /\ latest' = paidAt

-----------------------------------------------------------------------------
(* Checkout *)

KeyTaken(key) == key # None /\ \E o \in Written : order[o].key = key

(* createCheckout up to its write: the price, the idempotency look-up and,    *)
(* unless an offer makes it free, an order or a subscription at the provider. *)
(* A key that is taken returns the order it belongs to.                      *)
CheckoutReads(s, plan, key, free) ==
    /\ req[s] = None /\ ~KeyTaken(key) /\ Written # Orders
    /\ \E ref \in IF free THEN {None} ELSE Fresh(Refs, UsedRefs) :
          req' = [req EXCEPT ![s] =
                    [kind |-> IF free THEN "free" ELSE IF plan \in RecurringPlans THEN "recurring" ELSE "once",
                     plan |-> plan, key |-> key, ref |-> ref]]
    /\ UNCHANGED <<day, org, sub, order, canceling, owner, offered, provider, events, ledger>>

(* The order is stored and its reference goes to the browser.  When a         *)
(* request with the same key stored one meanwhile (P2002), no order is        *)
(* created, and the browser is sent the reference made by this request.       *)
CheckoutCommits(s) ==
    /\ req[s] # None /\ req[s].kind # "free"
    /\ IF KeyTaken(req[s].key) THEN UNCHANGED order
       ELSE \E o \in Fresh(Orders, Written) :
               order' = [order EXCEPT ![o] =
                   [kind |-> req[s].kind, plan |-> req[s].plan, status |-> "CREATED",
                    key |-> req[s].key, ref |-> req[s].ref, payment |-> None]]
    /\ offered' = offered \cup {req[s].ref}
    /\ req' = [req EXCEPT ![s] = None]
    /\ UNCHANGED <<day, org, sub, canceling, owner, provider, events, ledger>>

(* A free order is stored, paid and applied at once, from today on; the loser *)
(* of two requests with one key gets the winner's order.                     *)
activateFreeOrder(s) ==
    /\ req[s] # None /\ req[s].kind = "free"
    /\ IF KeyTaken(req[s].key) THEN UNCHANGED <<org, sub, order, latest>>
       ELSE /\ \E o \in Fresh(Orders, Written) :
                  order' = [order EXCEPT ![o] = [kind |-> "free", plan |-> req[s].plan, status |-> "PAID",
                                                 key |-> req[s].key, ref |-> None, payment |-> None]]
            /\ applyPaidPlan(req[s].plan, day, sub.ref)
            /\ latest' = day
    /\ req' = [req EXCEPT ![s] = None]
    /\ UNCHANGED <<day, canceling, owner, offered, provider, events, bought>>

-----------------------------------------------------------------------------
(* The provider (external).  A reference takes one captured payment, which     *)
(* may have failed before; a recurring one is charged until it is stopped.     *)

(* The time of a payment is used when it was taken only. *)
Event(type, ref, payment) ==
    [type |-> type, ref |-> ref, payment |-> payment,
     at |-> IF type \in {"payment.captured", "subscription.charged"} THEN day ELSE 0]
RecurringRefs == {order[o].ref : o \in {w \in Written : order[w].kind = "recurring"}}
Captured(ref) == \E e \in posted : e.type = "payment.captured" /\ e.ref = ref

ProviderTakes(ref, payment) ==
    /\ ref \in offered \ RecurringRefs /\ ~Captured(ref)
    /\ \/ payment \in Fresh(Payments, UsedPayments) /\ posted' = posted \cup {Event("payment.failed", ref, payment)}
       \/ /\ payment \in Fresh(Payments, UsedPayments) \/ \E e \in posted : e.payment = payment /\ e.ref = ref
          /\ posted' = posted \cup {Event("payment.captured", ref, payment)}
    /\ UNCHANGED <<day, org, sub, order, req, canceling, owner, offered, stopped, events, ledger>>

ProviderCharges(ref, payment) ==
    /\ ref \in offered \cap RecurringRefs
    /\ ~\E e \in posted : e.ref = ref /\ e.type \in {"subscription.halted", "subscription.cancelled"}
    /\ \/ /\ payment \in Fresh(Payments, UsedPayments)
          /\ posted' = posted \cup {Event("subscription.charged", ref, payment)}
       \/ \E e \in posted : e.ref = ref /\ e.payment = payment
          /\ posted' = posted \cup
                {Event(IF ref \in stopped THEN "subscription.cancelled" ELSE "subscription.halted", ref, None)}
    /\ UNCHANGED <<day, org, sub, order, req, canceling, owner, offered, stopped, events, ledger>>

-----------------------------------------------------------------------------
(* Payments come back: from the browser, which may never return, and by       *)
(* webhook.  An event that was recorded before changes nothing: its insert     *)
(* fails and takes the transaction with it.                                   *)

OrderOf(ref) == {o \in Written : order[o].ref = ref}

FirstCharge(e) ==
    /\ e.type = "subscription.charged"
    /\ \A f \in posted : f.type = e.type /\ f.ref = e.ref => e.at <= f.at

(* verifyPayment and verifySubscription *)
verifyPayment(e) ==
    /\ e.type = "payment.captured" \/ FirstCharge(e)
    /\ [verified |-> e.payment] \notin events
    /\ \E o \in OrderOf(e.ref) : activateOrder(o, e.payment, day)
    /\ events' = events \cup {[verified |-> e.payment]}
    /\ UNCHANGED <<day, checkout, canceling, owner, provider>>

PastDue(r) == IF r.status = "ACTIVE" THEN [r EXCEPT !.status = "PAST_DUE"] ELSE r

(* recordEvent: an event counts once, in the transaction that acts on it. *)
Unseen(e) == e \notin events

(* A failed payment fails its order unless that is paid, and makes the        *)
(* running plan past due, whichever order the payment was for.               *)
WebhookFailed(e) ==
    /\ e.type = "payment.failed" /\ Unseen(e)
    /\ \E o \in OrderOf(e.ref) :
          order' = [order EXCEPT ![o].status = IF @ = "PAID" THEN @ ELSE "FAILED"]
    /\ org' = PastDue(org) /\ sub' = PastDue(sub)
    /\ events' = events \cup {e}
    /\ UNCHANGED <<day, checkout, canceling, owner, provider, ledger>>

WebhookCaptured(e) ==
    /\ e.type = "payment.captured" /\ Unseen(e)
    /\ \E o \in OrderOf(e.ref) : activateOrder(o, e.payment, e.at)
    /\ events' = events \cup {e}
    /\ UNCHANGED <<day, checkout, canceling, owner, provider>>

(* MUTANT: a charge is applied without looking for its payment. *)
WebhookCharged_Again(e) ==
    /\ e.type = "subscription.charged" /\ Unseen(e)
    /\ sub.ref = e.ref
    /\ applyPaidPlan(sub.plan, Max({sub.end, e.at}), sub.ref)
    /\ bought' = [bought EXCEPT ![e.payment] = @ + 1]
    /\ latest' = e.at
    /\ events' = events \cup {e}
    /\ UNCHANGED <<day, order, checkout, canceling, owner, provider>>

(* A charge of the subscription on file becomes a paid order of its own and   *)
(* a period after the current one; a payment some order has already is        *)
(* refused by the unique column.  A charge of any other subscription is        *)
(* acknowledged and ignored.                                                 *)
WebhookCharged(e) ==
    /\ e.type = "subscription.charged" /\ Unseen(e)
    /\ sub.ref = e.ref /\ sub.plan \in Plans
    /\ \A o \in Written : order[o].payment # e.payment
    /\ \E o \in Fresh(Orders, Written) :
          order' = [order EXCEPT ![o] = [kind |-> "recurring", plan |-> sub.plan, status |-> "PAID",
                                         key |-> None, ref |-> e.ref, payment |-> e.payment]]
    /\ applyPaidPlan(sub.plan, Max({sub.end, e.at}), sub.ref)
    /\ bought' = [bought EXCEPT ![e.payment] = @ + 1]
    /\ latest' = e.at
    /\ events' = events \cup {e}
    /\ UNCHANGED <<day, checkout, canceling, owner, provider>>

WebhookEnded(e) ==
    /\ e.type \in {"subscription.halted", "subscription.cancelled"} /\ Unseen(e)
    /\ sub.ref = e.ref
    /\ LET status == IF e.type = "subscription.cancelled" THEN "CANCELED" ELSE "PAST_DUE"
       IN /\ sub' = [sub EXCEPT !.status = status]
          /\ org' = [org EXCEPT !.status = status]
    /\ events' = events \cup {e}
    /\ UNCHANGED <<day, order, checkout, canceling, owner, provider, ledger>>

-----------------------------------------------------------------------------
(* cancelSubscription: the provider, the organization and the subscription,   *)
(* one after the other; any of them may fail and leave the rest undone.       *)

CancelAsks ==
    /\ canceling = "no" /\ grants < MaxGrants /\ extend = None
    /\ stopped' = IF sub.ref = None THEN stopped ELSE stopped \cup {sub.ref}
    /\ canceling' = "asked"
    /\ grants' = grants + 1
    /\ UNCHANGED <<day, org, sub, order, checkout, extend, overwrote, posted, events, ledger>>

CancelStep ==
    /\ \/ canceling = "asked" /\ canceling' = "half" /\ org' = [org EXCEPT !.status = "CANCELED"] /\ UNCHANGED sub
       \/ canceling = "half" /\ canceling' = "no" /\ sub' = [sub EXCEPT !.status = "CANCELED"] /\ UNCHANGED org
       \/ canceling # "no" /\ canceling' = "no" /\ UNCHANGED <<org, sub>>
    /\ UNCHANGED <<day, order, checkout, owner, provider, events, ledger>>

-----------------------------------------------------------------------------
(* The platform owner: applyAction *)

ExtendReads ==
    /\ extend = None /\ grants < MaxGrants
    /\ extend' = [trial |-> sub.plan = Trial, end |-> sub.end]
    /\ UNCHANGED <<day, org, sub, order, checkout, canceling, provider, events, ledger, grants, overwrote>>

(* The end is counted from the row read before the transaction. *)
ExtendCommits(days) ==
    /\ extend # None
    /\ LET end == Max({extend.end, day}) + days
           status == IF extend.trial THEN "TRIALING" ELSE "ACTIVE"
       IN /\ org' = [org EXCEPT !.status = status, !.end = end]
          /\ sub' = [sub EXCEPT !.status = status, !.end = end]
    /\ overwrote' = (overwrote \/ sub.end # extend.end \/ (sub.plan = Trial) # extend.trial)
    /\ grants' = grants + 1
    /\ extend' = None
    /\ UNCHANGED <<day, order, checkout, canceling, provider, events, ledger>>

ChangePlan(plan) ==
    /\ grants < MaxGrants /\ extend = None
    /\ ~(plan = sub.plan /\ sub.status = "ACTIVE")
    /\ applyPaidPlan(plan, day, sub.ref)
    /\ grants' = grants + 1
    /\ UNCHANGED <<day, order, checkout, canceling, extend, overwrote, provider, events, ledger>>

(* SUSPEND and REACTIVATE *)
Suspend ==
    /\ grants < MaxGrants /\ extend = None
    /\ org' = [org EXCEPT !.suspended = ~@]
    /\ grants' = grants + 1
    /\ UNCHANGED <<day, sub, order, checkout, canceling, extend, overwrote, provider, events, ledger>>

Webhook(e) == WebhookFailed(e) \/ WebhookCaptured(e) \/ WebhookCharged(e) \/ WebhookEnded(e)

Next ==
    \/ Tick \/ CancelAsks \/ CancelStep \/ ExtendReads \/ ExtendCommits(1) \/ Suspend
    \/ \E s \in Slots :
          \/ \E plan \in Plans, key \in Keys \cup {None}, free \in BOOLEAN : CheckoutReads(s, plan, key, free)
          \/ CheckoutCommits(s) \/ activateFreeOrder(s)
    \/ \E ref \in Refs, payment \in Payments : ProviderTakes(ref, payment) \/ ProviderCharges(ref, payment)
    \/ \E e \in posted : verifyPayment(e) \/ Webhook(e)
    \/ \E plan \in Plans : ChangePlan(plan)

(* The provider posts an event until it was accepted; nobody has to pay,       *)
(* come back to the browser or cancel.                                       *)
Fairness == \A e \in ProviderEvents : WF_vars(e \in posted /\ Webhook(e))

Spec == Init /\ [][Next]_vars /\ Fairness

-----------------------------------------------------------------------------
(* A payment buys one period, however often and in whichever order the        *)
(* browser's verification and the provider's events report it.               *)
OnePeriodPerPayment ==
    /\ \A p \in Payments : bought[p] <= 1
    /\ \A o, q \in PaidOrders : order[o].payment = order[q].payment /\ order[o].payment # None => o = q

(* The two copies of the plan and of its end agree, whatever mixture of        *)
(* payments, renewals, cancellations and grants wrote them.                   *)
CopiesAgree == org.plan = sub.plan /\ org.end = sub.end

(* A customer who paid can work: for a period from the payment applied last    *)
(* the workspace is open, unless it is suspended or the platform owner's       *)
(* EXTEND wrote over the payment.                                            *)
PaidMeansUsable ==
    latest # None /\ day <= latest + Period /\ ~org.suspended /\ ~overwrote => evaluateEntitlement

(* A captured payment is honoured even if the browser never returns and the     *)
(* same order failed first.                                                  *)
CapturedIsHonoured ==
    \A ref \in Refs : Captured(ref) ~> \E o \in OrderOf(ref) : order[o].status = "PAID"

=============================================================================
