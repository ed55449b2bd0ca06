---------------------------- MODULE Billing_proofs ----------------------------
(***************************************************************************)
(* Proofs about Billing for any orders, references, payments, plans, keys,  *)
(* checkout requests and lengths of periods and graces.                     *)
(***************************************************************************)
EXTENDS Billing, TLAPS

(* A payment counts towards the day it was taken, the payment applied last     *)
(* was made by today, and the plan runs a period from it unless an EXTEND of    *)
(* the platform owner wrote over it.                                         *)
PeriodRuns ==
    /\ \A e \in posted : e.at <= day
    /\ latest # None => latest <= day
    /\ latest # None /\ ~overwrote => sub.end >= latest + Period

(* An EXTEND under way is still to be counted. *)
ExtendCounted == extend # None => grants < MaxGrants

PlanInv == CopiesAgree /\ PeriodRuns /\ ExtendCounted

(* The reference a request holds is its own until the browser has it. *)
HeldAlone ==
    \A s \in Slots : req[s] # None /\ req[s].kind # "free" =>
        /\ req[s].ref # None /\ req[s].ref \notin offered
        /\ \A t \in Slots : t # s /\ req[t] # None => req[t].ref # req[s].ref

OrdersOffered == \A o \in Written : order[o].ref # None => order[o].ref \in offered

(* Orders share a reference only as charges of a subscription that was paid.   *)
SharedIsPaid ==
    \A o, q \in Written : o # q /\ order[o].ref = order[q].ref /\ order[o].ref # None =>
        order[o].status = "PAID"

OnFileIsPaid ==
    sub.ref # None => /\ sub.ref \in offered
                      /\ \A o \in Written : order[o].ref = sub.ref => order[o].status = "PAID"

(* An order has a payment once it is paid, and the provider reported that       *)
(* payment for the order's reference; a payment is for one reference.          *)
PaymentsPosted ==
    \A o \in Written : order[o].payment # None =>
        /\ order[o].status = "PAID"
        /\ \E f \in posted : f.ref = order[o].ref /\ f.payment = order[o].payment

OneReference == \A f, g \in posted : f.payment = g.payment /\ f.payment # None => f.ref = g.ref

PaymentsKnown == \A e \in posted : e.type \in {"payment.captured", "subscription.charged"} => e.payment # None

(* A payment has bought a period only with the order it is stored on. *)
BoughtWithOrder ==
    \A p \in Payments : bought[p] = 0 \/ (bought[p] = 1 /\ \E o \in Written : order[o].payment = p)

OneOrderPerPayment ==
    \A o, q \in Written : order[o].payment = order[q].payment /\ order[o].payment # None => o = q

LedgerInv ==
    /\ HeldAlone /\ OrdersOffered /\ SharedIsPaid /\ OnFileIsPaid
    /\ PaymentsPosted /\ OneReference /\ PaymentsKnown /\ BoughtWithOrder /\ OneOrderPerPayment

BillingInv == TypeOK /\ PlanInv /\ LedgerInv

-----------------------------------------------------------------------------
(* Helpers *)

LEMMA Numbers ==
  /\ Period \in Nat /\ TrialDays \in Nat /\ MaxDay \in Nat /\ MaxGrants \in Nat
  /\ None \notin Refs /\ None \notin Payments /\ None \notin Nat /\ None \notin OrderRows
  /\ Days \subseteq Nat
BY BillingAssumption, NoOrderAssumption DEF Days

LEMMA MaxOfTwo ==
  ASSUME NEW a \in Nat, NEW b \in Nat
  PROVE  Max({a, b}) \in Nat /\ Max({a, b}) >= a /\ Max({a, b}) >= b
<1>1. \E m \in {a, b} : \A n \in {a, b} : m >= n
  OBVIOUS
<1>2. Max({a, b}) \in {a, b} /\ \A n \in {a, b} : Max({a, b}) >= n
  BY <1>1 DEF Max
<1> QED
  BY <1>2

LEMMA FreshIsNew ==
  ASSUME NEW ids, NEW used, NEW i \in Fresh(ids, used)
  PROVE  i \in ids /\ i \notin used
<1>1. ~(ids \subseteq used)
  BY DEF Fresh
<1>2. \E j \in ids \ used : TRUE
  BY <1>1
<1>3. (CHOOSE j \in ids \ used : TRUE) \in ids \ used
  BY <1>2
<1> QED
  BY <1>1, <1>3 DEF Fresh

(* Both rows take the plan and its period. *)
LEMMA Applied ==
  ASSUME TypeOK, NEW plan \in Plans, NEW base \in Nat, NEW ref \in Refs \cup {None},
         applyPaidPlan(plan, base, ref)
  PROVE  /\ org' \in [plan : Plans \cup {Trial}, status : Statuses, end : Ends, suspended : BOOLEAN]
         /\ sub' \in Subscription
         /\ org'.plan = sub'.plan
         /\ org'.end = base + Period /\ sub'.end = base + Period /\ sub'.ref = ref
<1>1. PICK end : end = base + Period
  OBVIOUS
<1>2. end \in Nat
  BY <1>1, Numbers
<1>3. /\ org' = [org EXCEPT !.plan = plan, !.status = "ACTIVE", !.end = end]
      /\ sub' = [sub EXCEPT !.plan = plan, !.status = "ACTIVE", !.end = end, !.ref = ref]
  BY <1>1 DEF applyPaidPlan
<1>4. /\ org \in [plan : Plans \cup {Trial}, status : Statuses, end : Ends, suspended : BOOLEAN]
      /\ sub \in [plan : Plans \cup {Trial}, status : Statuses, end : Ends, ref : Refs \cup {None}]
  BY DEF TypeOK, Subscription
<1>5. org' \in [plan : Plans \cup {Trial}, status : Statuses, end : Ends, suspended : BOOLEAN]
      /\ org'.plan = plan /\ org'.end = end
  BY <1>2, <1>3, <1>4 DEF Ends, Statuses
<1>6. sub' \in [plan : Plans \cup {Trial}, status : Statuses, end : Ends, ref : Refs \cup {None}]
      /\ sub'.plan = plan /\ sub'.end = end /\ sub'.ref = ref
  BY <1>2, <1>3, <1>4 DEF Ends, Statuses
<1> QED
  BY <1>1, <1>5, <1>6 DEF Subscription

LEMMA BaseFromStart ==
  ASSUME TypeOK, NEW plan, NEW start \in Nat
  PROVE  PeriodBase(plan, start) \in Nat /\ PeriodBase(plan, start) >= start
<1>1. org.end \in Nat
  BY DEF TypeOK, Ends
<1> QED
  BY <1>1 DEF PeriodBase

(* Writing one order leaves the others as they are. *)
LEMMA Stored ==
  ASSUME TypeOK, NEW o \in Orders, NEW r \in OrderRows, order' = [order EXCEPT ![o] = r]
  PROVE  /\ order' \in [Orders -> OrderRows \cup {None}]
         /\ order'[o] = r
         /\ \A q \in Orders : q # o => order'[q] = order[q]
         /\ Written' = Written \cup {o}
<1>1. order \in [Orders -> OrderRows \cup {None}]
  BY DEF TypeOK
<1> QED
  BY <1>1, Numbers DEF Written

LEMMA WrittenTyped == ASSUME TypeOK, NEW o \in Written PROVE o \in Orders /\ order[o] \in OrderRows
BY DEF TypeOK, Written

(* An order that is activated is paid with the payment and keeps its reference. *)
LEMMA Activated ==
  ASSUME TypeOK, NEW o \in Written, NEW payment \in Payments, NEW at \in Nat,
         activateOrder(o, payment, at), order[o].status # "PAID"
  PROVE  \E r \in OrderRows, end \in Nat :
            /\ order' = [order EXCEPT ![o] = r]
            /\ r.status = "PAID" /\ r.payment = payment /\ r.ref = order[o].ref /\ r.kind = order[o].kind
            /\ end >= at + Period
            /\ org' \in [plan : Plans \cup {Trial}, status : Statuses, end : Ends, suspended : BOOLEAN]
            /\ sub' \in Subscription
            /\ org'.plan = sub'.plan /\ org'.end = end /\ sub'.end = end
            /\ sub'.ref = IF order[o].kind = "recurring" THEN order[o].ref ELSE sub.ref
            /\ bought' = [bought EXCEPT ![payment] = @ + 1]
            /\ latest' = at
<1>1. PICK r : r = [order[o] EXCEPT !.status = "PAID", !.payment = payment]
  OBVIOUS
<1>2. PICK base : base = PeriodBase(order[o].plan, at)
  OBVIOUS
<1>3. PICK ref : ref = IF order[o].kind = "recurring" THEN order[o].ref ELSE sub.ref
  OBVIOUS
<1>4. order[o] \in OrderRows
  BY WrittenTyped
<1>5. r \in OrderRows /\ r.status = "PAID" /\ r.payment = payment /\ r.ref = order[o].ref /\ r.kind = order[o].kind
  BY <1>1, <1>4 DEF OrderRows
<1>6. base \in Nat /\ base >= at
  BY <1>2, BaseFromStart
<1>7. ref \in Refs \cup {None} /\ order[o].plan \in Plans
  BY <1>3, <1>4 DEF TypeOK, Subscription, OrderRows
<1>8. order[o] # None /\ o \in Orders
  BY DEF Written
<1>9. /\ order' = [order EXCEPT ![o] = [@ EXCEPT !.status = "PAID", !.payment = payment]]
      /\ applyPaidPlan(order[o].plan, base, ref)
      /\ bought' = [bought EXCEPT ![payment] = @ + 1] /\ latest' = at
  BY <1>2, <1>3 DEF activateOrder
<1>10. order' = [order EXCEPT ![o] = r]
  BY <1>1, <1>8, <1>9 DEF TypeOK
<1>11. /\ org' \in [plan : Plans \cup {Trial}, status : Statuses, end : Ends, suspended : BOOLEAN]
       /\ sub' \in Subscription
       /\ org'.plan = sub'.plan
       /\ org'.end = base + Period /\ sub'.end = base + Period /\ sub'.ref = ref
  BY <1>6, <1>7, <1>9, Applied
<1>12. base + Period \in Nat /\ base + Period >= at + Period
  BY <1>6, Numbers
<1> QED
  BY <1>3, <1>5, <1>9, <1>10, <1>11, <1>12

-----------------------------------------------------------------------------
(* Steps that move the plan and its dates only. *)

LEMMA LedgerRests ==
  ASSUME LedgerInv, UNCHANGED <<order, req, offered, posted, bought>>, sub'.ref = sub.ref
  PROVE  LedgerInv'
<1>1. Written' = Written
  BY DEF Written
<1>2. HeldAlone' /\ OneReference' /\ PaymentsKnown'
  BY DEF LedgerInv, HeldAlone, OneReference, PaymentsKnown
<1>3. OrdersOffered' /\ SharedIsPaid' /\ OnFileIsPaid' /\ OneOrderPerPayment'
  BY <1>1 DEF LedgerInv, OrdersOffered, SharedIsPaid, OnFileIsPaid, OneOrderPerPayment
<1>4. PaymentsPosted'
  BY <1>1 DEF LedgerInv, PaymentsPosted
<1>5. BoughtWithOrder'
  BY <1>1 DEF LedgerInv, BoughtWithOrder
<1> QED
  BY <1>2, <1>3, <1>4, <1>5 DEF LedgerInv

LEMMA TickKeeps == ASSUME BillingInv, Tick PROVE BillingInv'
<1> USE DEF BillingInv
<1>1. day \in Nat /\ day' = day + 1 /\ day' \in Days
      /\ UNCHANGED <<org, sub, order, req, canceling, extend, offered, stopped, posted, events, bought, latest, grants, overwrote>>
  BY Numbers DEF Tick, TypeOK, Days
<1>2. TypeOK'
  BY <1>1 DEF TypeOK
<1>3. PlanInv'
  <2>1. \A e \in posted : e.at \in Nat
    BY Numbers DEF TypeOK, ProviderEvents
  <2>2. latest # None => latest \in Nat
    BY Numbers DEF TypeOK
  <2> QED
    BY <1>1, <2>1, <2>2 DEF PlanInv, CopiesAgree, PeriodRuns, ExtendCounted
<1> QED
  BY <1>1, <1>2, <1>3, LedgerRests

LEMMA CancelKeeps == ASSUME BillingInv, CancelAsks \/ CancelStep PROVE BillingInv'
<1> USE DEF BillingInv
<1>1. CASE CancelAsks
  <2>1. /\ stopped' \subseteq Refs /\ canceling' = "asked" /\ grants' \in 0 .. MaxGrants /\ extend = None
        /\ UNCHANGED <<day, org, sub, order, req, offered, extend, overwrote, posted, events, bought, latest>>
    BY <1>1, Numbers DEF CancelAsks, checkout, ledger, TypeOK, Subscription
  <2>2. TypeOK'
    BY <2>1 DEF TypeOK
  <2>3. PlanInv'
    BY <2>1 DEF PlanInv, CopiesAgree, PeriodRuns, ExtendCounted
  <2> QED
    BY <2>1, <2>2, <2>3, LedgerRests
<1>2. CASE CancelStep
  <2>1. /\ canceling' \in {"no", "half"}
        /\ UNCHANGED <<day, order, req, offered, extend, grants, overwrote, stopped, posted, events, bought, latest>>
        /\ org' = org \/ org' = [org EXCEPT !.status = "CANCELED"]
        /\ sub' = sub \/ sub' = [sub EXCEPT !.status = "CANCELED"]
    BY <1>2 DEF CancelStep, checkout, owner, provider, ledger
  <2>2. /\ org' \in [plan : Plans \cup {Trial}, status : Statuses, end : Ends, suspended : BOOLEAN]
        /\ org'.plan = org.plan /\ org'.end = org.end
    BY <2>1 DEF TypeOK, Statuses
  <2>3. sub' \in Subscription /\ sub'.plan = sub.plan /\ sub'.end = sub.end /\ sub'.ref = sub.ref
    BY <2>1 DEF TypeOK, Statuses, Subscription
  <2>4. TypeOK'
    BY <2>1, <2>2, <2>3 DEF TypeOK
  <2>5. PlanInv'
    BY <2>1, <2>2, <2>3 DEF PlanInv, CopiesAgree, PeriodRuns, ExtendCounted
  <2> QED
    BY <2>1, <2>3, <2>4, <2>5, LedgerRests
<1> QED
  BY <1>1, <1>2

LEMMA ExtendKeeps == ASSUME BillingInv, ExtendReads \/ ExtendCommits(1) PROVE BillingInv'
<1> USE DEF BillingInv
<1>1. CASE ExtendReads
  <2>1. /\ extend' \in [trial : BOOLEAN, end : Ends] /\ grants < MaxGrants
        /\ UNCHANGED <<day, org, sub, order, req, offered, canceling, stopped, posted, events, bought, latest, grants, overwrote>>
    <3>1. sub.end \in Ends /\ (sub.plan = Trial) \in BOOLEAN
      BY DEF TypeOK, Subscription
    <3> QED
      BY <1>1, <3>1 DEF ExtendReads, checkout, provider, ledger
  <2>2. TypeOK'
    BY <2>1 DEF TypeOK
  <2>3. PlanInv'
    BY <2>1 DEF PlanInv, CopiesAgree, PeriodRuns, ExtendCounted
  <2> QED
    BY <2>1, <2>2, <2>3, LedgerRests
<1>2. CASE ExtendCommits(1)
  <2>1. extend \in [trial : BOOLEAN, end : Ends] /\ grants < MaxGrants
    BY <1>2 DEF ExtendCommits, TypeOK, PlanInv, ExtendCounted
  <2>2. PICK end : end = Max({extend.end, day}) + 1
    OBVIOUS
  <2>3. PICK status : status = IF extend.trial THEN "TRIALING" ELSE "ACTIVE"
    OBVIOUS
  <2>4. extend.end \in Nat /\ day \in Nat
    BY <2>1, Numbers DEF Ends, TypeOK
  <2>5. end \in Nat /\ end >= extend.end
    BY <2>2, <2>4, MaxOfTwo
  <2>6. /\ org' = [org EXCEPT !.status = status, !.end = end]
        /\ sub' = [sub EXCEPT !.status = status, !.end = end]
        /\ overwrote' = (overwrote \/ sub.end # extend.end \/ (sub.plan = Trial) # extend.trial)
        /\ grants' = grants + 1 /\ extend' = None
        /\ UNCHANGED <<day, order, req, offered, canceling, stopped, posted, events, bought, latest>>
    BY <1>2, <2>2, <2>3 DEF ExtendCommits, checkout, provider, ledger
  <2>7. /\ org' \in [plan : Plans \cup {Trial}, status : Statuses, end : Ends, suspended : BOOLEAN]
        /\ org'.plan = org.plan /\ org'.end = end
    BY <2>3, <2>5, <2>6 DEF TypeOK, Statuses, Ends
  <2>8. sub' \in Subscription /\ sub'.plan = sub.plan /\ sub'.end = end /\ sub'.ref = sub.ref
    BY <2>3, <2>5, <2>6 DEF TypeOK, Statuses, Ends, Subscription
  <2>9. overwrote' \in BOOLEAN /\ (~overwrote' => ~overwrote /\ sub.end = extend.end)
    BY <2>6 DEF TypeOK
  <2>10. grants' \in 0 .. MaxGrants
    BY <2>1, <2>6, Numbers DEF TypeOK
  <2>11. TypeOK'
    BY <2>6, <2>7, <2>8, <2>9, <2>10 DEF TypeOK
  <2>12. CopiesAgree' /\ ExtendCounted'
    BY <2>6, <2>7, <2>8 DEF PlanInv, CopiesAgree, ExtendCounted
  <2>13. PeriodRuns'
    <3>1. latest # None => latest \in Nat
      BY Numbers DEF TypeOK
    <3> QED
      <4>1. ASSUME latest # None, ~overwrote' PROVE end >= latest + Period
        <5>1. sub.end >= latest + Period /\ sub.end = extend.end
          BY <2>9, <4>1 DEF PlanInv, PeriodRuns
        <5> QED
          BY <2>4, <2>5, <3>1, <4>1, <5>1, Numbers
      <4>2. (\A e \in posted : e.at <= day) /\ (latest # None => latest <= day)
        BY DEF PlanInv, PeriodRuns
      <4> QED
        BY <2>6, <2>8, <4>1, <4>2 DEF PeriodRuns
  <2> QED
    BY <2>6, <2>8, <2>11, <2>12, <2>13, LedgerRests DEF PlanInv
<1> QED
  BY <1>1, <1>2

LEMMA OwnerKeeps == ASSUME BillingInv, Suspend \/ \E plan \in Plans : ChangePlan(plan) PROVE BillingInv'
<1> USE DEF BillingInv
<1>1. CASE Suspend
  <2>1. /\ org' = [org EXCEPT !.suspended = ~org.suspended] /\ grants' = grants + 1 /\ grants < MaxGrants /\ extend = None
        /\ UNCHANGED <<day, sub, order, req, offered, canceling, extend, overwrote, stopped, posted, events, bought, latest>>
    BY <1>1 DEF Suspend, checkout, provider, ledger, TypeOK
  <2>2. /\ org' \in [plan : Plans \cup {Trial}, status : Statuses, end : Ends, suspended : BOOLEAN]
        /\ org'.plan = org.plan /\ org'.end = org.end
    BY <2>1 DEF TypeOK
  <2>3. grants' \in 0 .. MaxGrants
    BY <2>1, Numbers DEF TypeOK
  <2>4. TypeOK'
    BY <2>1, <2>2, <2>3 DEF TypeOK
  <2>5. PlanInv'
    BY <2>1, <2>2 DEF PlanInv, CopiesAgree, PeriodRuns, ExtendCounted
  <2> QED
    BY <2>1, <2>4, <2>5, LedgerRests
<1>2. ASSUME NEW plan \in Plans, ChangePlan(plan) PROVE BillingInv'
  <2>1. /\ applyPaidPlan(plan, day, sub.ref) /\ grants' = grants + 1 /\ grants < MaxGrants /\ extend = None
        /\ UNCHANGED <<day, order, req, offered, canceling, extend, overwrote, stopped, posted, events, bought, latest>>
    BY <1>2 DEF ChangePlan, checkout, provider, ledger
  <2>2. day \in Nat /\ sub.ref \in Refs \cup {None}
    BY Numbers DEF TypeOK, Subscription
  <2>3. /\ org' \in [plan : Plans \cup {Trial}, status : Statuses, end : Ends, suspended : BOOLEAN]
        /\ sub' \in Subscription
        /\ org'.plan = sub'.plan
        /\ org'.end = day + Period /\ sub'.end = day + Period /\ sub'.ref = sub.ref
    BY <2>1, <2>2, Applied
  <2>4. grants' \in 0 .. MaxGrants
    BY <2>1, Numbers DEF TypeOK
  <2>5. TypeOK'
    BY <2>1, <2>3, <2>4 DEF TypeOK
  <2>6. PlanInv'
    <3>1. latest # None => latest \in Nat
      BY Numbers DEF TypeOK
    <3> QED
      BY <2>1, <2>2, <2>3, <3>1, Numbers DEF PlanInv, CopiesAgree, PeriodRuns, ExtendCounted
  <2> QED
    BY <2>1, <2>3, <2>5, <2>6, LedgerRests
<1> QED
  BY <1>1, <1>2

LEMMA EndedKeeps == ASSUME BillingInv, NEW e \in posted, WebhookEnded(e) PROVE BillingInv'
<1> USE DEF BillingInv
<1>1. PICK status : status = IF e.type = "subscription.cancelled" THEN "CANCELED" ELSE "PAST_DUE"
  OBVIOUS
<1>2. /\ sub' = [sub EXCEPT !.status = status] /\ org' = [org EXCEPT !.status = status]
      /\ events' = events \cup {e}
      /\ UNCHANGED <<day, order, req, offered, canceling, extend, grants, overwrote, stopped, posted, bought, latest>>
  BY <1>1 DEF WebhookEnded, checkout, owner, provider, ledger
<1>3. /\ org' \in [plan : Plans \cup {Trial}, status : Statuses, end : Ends, suspended : BOOLEAN]
      /\ org'.plan = org.plan /\ org'.end = org.end
  BY <1>1, <1>2 DEF TypeOK, Statuses
<1>4. sub' \in Subscription /\ sub'.plan = sub.plan /\ sub'.end = sub.end /\ sub'.ref = sub.ref
  BY <1>1, <1>2 DEF TypeOK, Statuses, Subscription
<1>5. events' \subseteq Recorded
  BY <1>2 DEF TypeOK, Recorded
<1>6. TypeOK'
  BY <1>2, <1>3, <1>4, <1>5 DEF TypeOK
<1>7. PlanInv'
  BY <1>2, <1>3, <1>4 DEF PlanInv, CopiesAgree, PeriodRuns, ExtendCounted
<1> QED
  BY <1>2, <1>4, <1>6, <1>7, LedgerRests

-----------------------------------------------------------------------------
(* Checkout *)

(* The ledger's facts about orders, as opposed to requests. *)
OrdersInv ==
    /\ OrdersOffered /\ SharedIsPaid /\ OnFileIsPaid
    /\ PaymentsPosted /\ OneReference /\ PaymentsKnown /\ BoughtWithOrder /\ OneOrderPerPayment

LEMMA LedgerParts == LedgerInv <=> HeldAlone /\ OrdersInv
BY DEF LedgerInv, OrdersInv

(* The browser learns of a reference. *)
LEMMA OffersKeep ==
  ASSUME OrdersInv, offered \subseteq offered', UNCHANGED <<order, posted, bought>>, sub'.ref = sub.ref
  PROVE  OrdersInv'
<1> USE DEF OrdersInv
<1>1. Written' = Written
  BY DEF Written
<1>2. OneReference' /\ PaymentsKnown'
  BY DEF OneReference, PaymentsKnown
<1>3. OrdersOffered' /\ SharedIsPaid' /\ OnFileIsPaid' /\ OneOrderPerPayment'
  BY <1>1 DEF OrdersOffered, SharedIsPaid, OnFileIsPaid, OneOrderPerPayment
<1>4. PaymentsPosted'
  BY <1>1 DEF PaymentsPosted
<1>5. BoughtWithOrder'
  BY <1>1 DEF BoughtWithOrder
<1> QED
  BY <1>2, <1>3, <1>4, <1>5

(* A new order that no payment was made for. *)
LEMMA NewOrderKeeps ==
  ASSUME TypeOK, OrdersInv, NEW o \in Orders \ Written, NEW r \in OrderRows,
         order' = [order EXCEPT ![o] = r], r.payment = None,
         offered \subseteq offered', r.ref # None => r.ref \notin offered /\ r.ref \in offered',
         UNCHANGED <<posted, bought>>, sub'.ref = sub.ref
  PROVE  OrdersInv'
<1> USE DEF OrdersInv
<1>1. /\ order'[o] = r /\ Written' = Written \cup {o}
      /\ \A q \in Written : q # o /\ order'[q] = order[q]
  BY Stored, WrittenTyped
<1>2. OneReference' /\ PaymentsKnown'
  BY DEF OneReference, PaymentsKnown
<1>3. OrdersOffered'
  BY <1>1 DEF OrdersOffered
<1>4. SharedIsPaid'
  BY <1>1 DEF OrdersOffered, SharedIsPaid
<1>5. OnFileIsPaid'
  BY <1>1 DEF OnFileIsPaid
<1>6. PaymentsPosted'
  BY <1>1 DEF PaymentsPosted
<1>7. BoughtWithOrder'
  <2> SUFFICES ASSUME NEW p \in Payments
               PROVE  bought[p] = 0 \/ (bought[p] = 1 /\ \E q \in Written' : order'[q].payment = p)
    BY DEF BoughtWithOrder
  <2> QED
    BY <1>1 DEF BoughtWithOrder
<1>8. OneOrderPerPayment'
  BY <1>1 DEF OneOrderPerPayment
<1> QED
  BY <1>2, <1>3, <1>4, <1>5, <1>6, <1>7, <1>8

LEMMA ReadsKeep ==
  ASSUME BillingInv, NEW s \in Slots, NEW plan \in Plans, NEW key \in Keys \cup {None}, NEW free \in BOOLEAN,
         CheckoutReads(s, plan, key, free)
  PROVE  BillingInv'
<1> USE DEF BillingInv
<1>1. PICK ref \in (IF free THEN {None} ELSE Fresh(Refs, UsedRefs)) :
          req' = [req EXCEPT ![s] =
                    [kind |-> IF free THEN "free" ELSE IF plan \in RecurringPlans THEN "recurring" ELSE "once",
                     plan |-> plan, key |-> key, ref |-> ref]]
  BY DEF CheckoutReads
<1>2. PICK q : q = [kind |-> IF free THEN "free" ELSE IF plan \in RecurringPlans THEN "recurring" ELSE "once",
                    plan |-> plan, key |-> key, ref |-> ref]
  OBVIOUS
<1>3. /\ req' = [req EXCEPT ![s] = q]
      /\ UNCHANGED <<day, org, sub, order, canceling, extend, grants, overwrote, offered, stopped, posted, events, bought, latest>>
  BY <1>1, <1>2 DEF CheckoutReads, owner, provider, ledger
<1>4. ref = None \/ (ref \in Refs /\ ref \notin UsedRefs)
  BY <1>1, FreshIsNew
<1>5. q \in Checkouts
  BY <1>2, <1>4 DEF Checkouts
<1>6. /\ q.kind # "free" => q.ref # None /\ q.ref \notin UsedRefs
      /\ q.ref = None \/ q.ref \notin UsedRefs
  <2>1. free \/ (ref \in Refs /\ ref \notin UsedRefs)
    BY <1>1, FreshIsNew
  <2> QED
    BY <1>2, <1>4, <2>1, Numbers
<1>7. TypeOK'
  BY <1>3, <1>5 DEF TypeOK
<1>8. PlanInv'
  BY <1>3 DEF PlanInv, CopiesAgree, PeriodRuns, ExtendCounted
<1>9. HeldAlone'
  <2>1. req'[s] = q /\ \A t \in Slots : t # s => req'[t] = req[t]
    BY <1>3 DEF TypeOK
  <2>2. q.ref \notin UsedRefs => q.ref \notin offered /\ \A t \in Slots : req[t] # None => req[t].ref # q.ref
    BY DEF UsedRefs
  <2>3. HeldAlone
    BY DEF LedgerInv
  <2> SUFFICES ASSUME NEW t \in Slots, req'[t] # None, req'[t].kind # "free"
               PROVE  /\ req'[t].ref # None /\ req'[t].ref \notin offered'
                      /\ \A u \in Slots : u # t /\ req'[u] # None => req'[u].ref # req'[t].ref
    BY DEF HeldAlone
  <2>4. CASE t = s
    BY <1>3, <1>6, <2>1, <2>2, <2>4
  <2>5. CASE t # s
    <3>1. /\ req[t].ref # None /\ req[t].ref \notin offered
          /\ \A u \in Slots : u # t /\ req[u] # None => req[u].ref # req[t].ref
      BY <2>1, <2>3, <2>5 DEF HeldAlone
    <3>2. q.ref # req[t].ref
      BY <1>6, <2>1, <2>2, <2>5, <3>1
    <3> QED
      BY <1>3, <2>1, <2>5, <3>1, <3>2
  <2> QED
    BY <2>4, <2>5
<1>10. OrdersInv'
  BY <1>3, LedgerParts, OffersKeep
<1> QED
  BY <1>7, <1>8, <1>9, <1>10, LedgerParts DEF LedgerInv, OrdersInv

LEMMA CommitKeeps ==
  ASSUME BillingInv, NEW s \in Slots, CheckoutCommits(s)
  PROVE  BillingInv'
<1> USE DEF BillingInv
<1>1. /\ req[s] # None /\ req[s].kind # "free"
      /\ offered' = offered \cup {req[s].ref} /\ req' = [req EXCEPT ![s] = None]
      /\ UNCHANGED <<day, org, sub, canceling, extend, grants, overwrote, stopped, posted, events, bought, latest>>
  BY DEF CheckoutCommits, owner, provider, ledger
<1>2. req[s] \in Checkouts
  BY <1>1 DEF TypeOK
<1>3. /\ req[s].ref # None /\ req[s].ref \notin offered
      /\ \A t \in Slots : t # s /\ req[t] # None => req[t].ref # req[s].ref
  BY <1>1 DEF LedgerInv, HeldAlone
<1>4. /\ req' \in [Slots -> Checkouts \cup {None}] /\ req'[s] = None
      /\ \A t \in Slots : t # s => req'[t] = req[t]
  BY <1>1 DEF TypeOK
<1>5. HeldAlone'
  <2> SUFFICES ASSUME NEW t \in Slots, req'[t] # None, req'[t].kind # "free"
               PROVE  /\ req'[t].ref # None /\ req'[t].ref \notin offered'
                      /\ \A u \in Slots : u # t /\ req'[u] # None => req'[u].ref # req'[t].ref
    BY DEF HeldAlone
  <2>1. t # s /\ req'[t] = req[t]
    BY <1>4
  <2>2. /\ req[t].ref # None /\ req[t].ref \notin offered
        /\ \A u \in Slots : u # t /\ req[u] # None => req[u].ref # req[t].ref
    BY <2>1 DEF LedgerInv, HeldAlone
  <2> QED
    BY <1>1, <1>4, <2>1, <2>2
<1>6. PlanInv'
  BY <1>1 DEF PlanInv, CopiesAgree, PeriodRuns, ExtendCounted
<1>7. order' \in [Orders -> OrderRows \cup {None}] /\ OrdersInv'
  <2>1. CASE order' = order
    <3>1. OrdersInv'
      BY <1>1, <2>1, LedgerParts, OffersKeep
    <3> QED
      BY <2>1, <3>1 DEF TypeOK
  <2>2. ASSUME NEW o \in Fresh(Orders, Written),
               order' = [order EXCEPT ![o] =
                   [kind |-> req[s].kind, plan |-> req[s].plan, status |-> "CREATED",
                    key |-> req[s].key, ref |-> req[s].ref, payment |-> None]]
        PROVE  order' \in [Orders -> OrderRows \cup {None}] /\ OrdersInv'
    <3>1. PICK r : r = [kind |-> req[s].kind, plan |-> req[s].plan, status |-> "CREATED",
                        key |-> req[s].key, ref |-> req[s].ref, payment |-> None]
      OBVIOUS
    <3>2. r \in OrderRows /\ r.payment = None /\ r.ref = req[s].ref
      BY <1>2, <3>1 DEF Checkouts, OrderRows
    <3>3. o \in Orders \ Written
      BY FreshIsNew
    <3>4. order' = [order EXCEPT ![o] = r]
      BY <2>2, <3>1
    <3>5. OrdersInv'
      BY <1>1, <1>3, <3>2, <3>3, <3>4, LedgerParts, NewOrderKeeps
    <3> QED
      BY <3>2, <3>3, <3>4, <3>5, Stored
  <2> QED
    BY <2>1, <2>2 DEF CheckoutCommits
<1>8. offered' \subseteq Refs
  BY <1>1, <1>2, <1>3 DEF TypeOK, Checkouts
<1>9. TypeOK'
  BY <1>1, <1>4, <1>7, <1>8 DEF TypeOK
<1> QED
  BY <1>5, <1>6, <1>7, <1>9, LedgerParts DEF LedgerInv, OrdersInv

LEMMA FreeKeeps ==
  ASSUME BillingInv, NEW s \in Slots, activateFreeOrder(s)
  PROVE  BillingInv'
<1> USE DEF BillingInv
<1>1. /\ req[s] # None /\ req' = [req EXCEPT ![s] = None]
      /\ UNCHANGED <<day, canceling, extend, grants, overwrote, offered, stopped, posted, events, bought>>
  BY DEF activateFreeOrder, owner, provider
<1>2. req[s] \in Checkouts
  BY <1>1 DEF TypeOK
<1>3. /\ req' \in [Slots -> Checkouts \cup {None}] /\ req'[s] = None
      /\ \A t \in Slots : t # s => req'[t] = req[t]
  BY <1>1 DEF TypeOK
<1>4. HeldAlone'
  BY <1>1, <1>3 DEF LedgerInv, HeldAlone
<1>5. CASE UNCHANGED <<org, sub, order, latest>>
  <2>1. OrdersInv'
    BY <1>1, <1>5, LedgerParts, OffersKeep
  <2>2. TypeOK'
    BY <1>1, <1>3, <1>5 DEF TypeOK
  <2>3. PlanInv'
    BY <1>1, <1>5 DEF PlanInv, CopiesAgree, PeriodRuns, ExtendCounted
  <2> QED
    BY <1>4, <2>1, <2>2, <2>3, LedgerParts DEF LedgerInv, OrdersInv
<1>6. ASSUME NEW o \in Fresh(Orders, Written),
             order' = [order EXCEPT ![o] = [kind |-> "free", plan |-> req[s].plan, status |-> "PAID",
                                            key |-> req[s].key, ref |-> None, payment |-> None]],
             applyPaidPlan(req[s].plan, day, sub.ref), latest' = day
      PROVE  BillingInv'
  <2>1. PICK r : r = [kind |-> "free", plan |-> req[s].plan, status |-> "PAID",
                      key |-> req[s].key, ref |-> None, payment |-> None]
    OBVIOUS
  <2>2. r \in OrderRows /\ r.payment = None /\ r.ref = None
    BY <1>2, <2>1 DEF Checkouts, OrderRows
  <2>3. o \in Orders \ Written /\ order' = [order EXCEPT ![o] = r]
    BY <1>6, <2>1, FreshIsNew
  <2>4. day \in Nat /\ day \in Days /\ sub.ref \in Refs \cup {None} /\ req[s].plan \in Plans
    BY <1>2, Numbers DEF TypeOK, Subscription, Checkouts
  <2>5. /\ org' \in [plan : Plans \cup {Trial}, status : Statuses, end : Ends, suspended : BOOLEAN]
        /\ sub' \in Subscription
        /\ org'.plan = sub'.plan
        /\ org'.end = day + Period /\ sub'.end = day + Period /\ sub'.ref = sub.ref
    BY <1>6, <2>4, Applied
  <2>6. OrdersInv'
    BY <1>1, <2>2, <2>3, <2>5, LedgerParts, NewOrderKeeps
  <2>7. order' \in [Orders -> OrderRows \cup {None}]
    BY <2>2, <2>3, Stored
  <2>8. TypeOK'
    BY <1>1, <1>3, <1>6, <2>4, <2>5, <2>7 DEF TypeOK
  <2>9. PlanInv'
    BY <1>1, <1>6, <2>4, <2>5, Numbers DEF PlanInv, CopiesAgree, PeriodRuns, ExtendCounted
  <2> QED
    BY <1>4, <2>6, <2>8, <2>9, LedgerParts DEF LedgerInv, OrdersInv
<1> QED
  BY <1>5, <1>6 DEF activateFreeOrder

-----------------------------------------------------------------------------
(* The provider posts an event. *)

LEMMA PostKeeps ==
  ASSUME BillingInv, NEW ev \in ProviderEvents, posted' = posted \cup {ev}, ev.at <= day,
         ev.type \in {"payment.captured", "subscription.charged"} => ev.payment # None,
         ev.payment # None => \/ \A e \in posted : e.payment # ev.payment
                              \/ \E e \in posted : e.payment = ev.payment /\ e.ref = ev.ref,
         UNCHANGED <<day, org, sub, order, req, canceling, extend, grants, overwrote, offered, stopped, events, bought, latest>>
  PROVE  BillingInv'
<1> USE DEF BillingInv
<1>1. TypeOK'
  BY DEF TypeOK
<1>2. PlanInv'
  BY DEF PlanInv, CopiesAgree, PeriodRuns, ExtendCounted
<1>3. Written' = Written
  BY DEF Written
<1>4. HeldAlone' /\ OrdersOffered' /\ SharedIsPaid' /\ OnFileIsPaid' /\ OneOrderPerPayment'
  BY <1>3 DEF LedgerInv, HeldAlone, OrdersOffered, SharedIsPaid, OnFileIsPaid, OneOrderPerPayment
<1>5. BoughtWithOrder'
  BY <1>3 DEF LedgerInv, BoughtWithOrder
<1>6. PaymentsPosted' /\ PaymentsKnown'
  BY <1>3 DEF LedgerInv, PaymentsPosted, PaymentsKnown
<1>7. OneReference'
  BY DEF LedgerInv, OneReference
<1> QED
  BY <1>1, <1>2, <1>4, <1>5, <1>6, <1>7 DEF LedgerInv

LEMMA EventTyped ==
  ASSUME TypeOK, NEW type \in {"payment.failed", "payment.captured", "subscription.charged",
                               "subscription.halted", "subscription.cancelled"},
         NEW ref \in Refs, NEW payment \in Payments \cup {None}
  PROVE  /\ Event(type, ref, payment) \in ProviderEvents
         /\ Event(type, ref, payment).at <= day
         /\ Event(type, ref, payment).type = type
         /\ Event(type, ref, payment).ref = ref
         /\ Event(type, ref, payment).payment = payment
<1>1. PICK at : at = IF type \in {"payment.captured", "subscription.charged"} THEN day ELSE 0
  OBVIOUS
<1>2. at \in Days /\ at <= day
  BY <1>1, Numbers DEF TypeOK, Days
<1>3. Event(type, ref, payment) = [type |-> type, ref |-> ref, payment |-> payment, at |-> at]
  BY <1>1 DEF Event
<1> QED
  BY <1>2, <1>3 DEF ProviderEvents

LEMMA ProviderKeeps ==
  ASSUME BillingInv, NEW ref \in Refs, NEW payment \in Payments,
         ProviderTakes(ref, payment) \/ ProviderCharges(ref, payment)
  PROVE  BillingInv'
<1>1. \E type \in {"payment.failed", "payment.captured", "subscription.charged",
                   "subscription.halted", "subscription.cancelled"},
         paid \in Payments \cup {None} :
           /\ posted' = posted \cup {Event(type, ref, paid)}
           /\ type \in {"payment.captured", "subscription.charged"} => paid # None
           /\ paid # None => \/ paid \in Fresh(Payments, UsedPayments)
                             \/ \E e \in posted : e.payment = paid /\ e.ref = ref
  BY Numbers DEF ProviderTakes, ProviderCharges
<1>2. PICK type \in {"payment.failed", "payment.captured", "subscription.charged",
                     "subscription.halted", "subscription.cancelled"},
           paid \in Payments \cup {None} :
           /\ posted' = posted \cup {Event(type, ref, paid)}
           /\ type \in {"payment.captured", "subscription.charged"} => paid # None
           /\ paid # None => \/ paid \in Fresh(Payments, UsedPayments)
                             \/ \E e \in posted : e.payment = paid /\ e.ref = ref
  BY <1>1
<1>3. PICK ev : ev = Event(type, ref, paid)
  OBVIOUS
<1>4. /\ ev \in ProviderEvents /\ ev.at <= day
      /\ ev.type = type /\ ev.ref = ref /\ ev.payment = paid
  BY <1>3, EventTyped DEF BillingInv
<1>5. paid \in Fresh(Payments, UsedPayments) => \A e \in posted : e.payment # paid
  <2> SUFFICES ASSUME paid \in Fresh(Payments, UsedPayments), NEW e \in posted PROVE e.payment # paid
    OBVIOUS
  <2>1. paid \notin UsedPayments
    BY FreshIsNew
  <2> QED
    BY <2>1 DEF UsedPayments
<1>6. UNCHANGED <<day, org, sub, order, req, canceling, extend, grants, overwrote, offered, stopped, events, bought, latest>>
  BY DEF ProviderTakes, ProviderCharges, owner, ledger
<1>7. ev.payment # None => \/ \A e \in posted : e.payment # ev.payment
                           \/ \E e \in posted : e.payment = ev.payment /\ e.ref = ev.ref
  BY <1>2, <1>4, <1>5
<1> QED
  BY <1>2, <1>3, <1>4, <1>6, <1>7, PostKeeps

-----------------------------------------------------------------------------
(* Payments come back. *)

(* An order takes a payment that no order has. *)
LEMMA PaidOrderKeeps ==
  ASSUME TypeOK, OrdersInv, NEW o \in Orders, NEW r \in OrderRows, NEW e \in posted, e.payment \in Payments,
         order' = [order EXCEPT ![o] = r],
         r.status = "PAID", r.payment = e.payment, r.ref = e.ref, e.ref \in offered,
         \A q \in Written : order[q].payment # e.payment,
         o \in Written => order[o].payment = None,
         \A q \in Written : q # o /\ order[q].ref = e.ref => order[q].status = "PAID",
         bought' = [bought EXCEPT ![e.payment] = @ + 1],
         UNCHANGED <<posted, offered>>, sub'.ref \in {sub.ref, e.ref}
  PROVE  OrdersInv'
<1> USE DEF OrdersInv
<1>1. /\ order'[o] = r /\ Written' = Written \cup {o}
      /\ \A q \in Written : q # o => order'[q] = order[q]
  BY Stored, WrittenTyped
<1>2. OneReference' /\ PaymentsKnown'
  BY DEF OneReference, PaymentsKnown
<1>3. OrdersOffered'
  BY <1>1 DEF OrdersOffered
<1>4. SharedIsPaid'
  BY <1>1 DEF SharedIsPaid
<1>5. OnFileIsPaid'
  BY <1>1 DEF OnFileIsPaid
<1>6. PaymentsPosted'
  BY <1>1 DEF PaymentsPosted
<1>7. OneOrderPerPayment'
  BY <1>1 DEF OneOrderPerPayment
<1>8. BoughtWithOrder'
  <2>1. bought[e.payment] = 0
    BY DEF BoughtWithOrder
  <2>2. bought'[e.payment] = 1 /\ \A p \in Payments : p # e.payment => bought'[p] = bought[p]
    BY <2>1 DEF TypeOK
  <2> SUFFICES ASSUME NEW p \in Payments
               PROVE  bought'[p] = 0 \/ (bought'[p] = 1 /\ \E q \in Written' : order'[q].payment = p)
    BY DEF BoughtWithOrder
  <2>3. CASE p = e.payment
    BY <1>1, <2>2, <2>3
  <2>4. CASE p # e.payment
    <3>1. p # None
      BY Numbers
    <3>2. bought[p] = 0 \/ (bought[p] = 1 /\ \E q \in Written : order[q].payment = p)
      BY DEF BoughtWithOrder
    <3> QED
      BY <1>1, <2>2, <2>4, <3>1, <3>2
  <2> QED
    BY <2>3, <2>4
<1> QED
  BY <1>2, <1>3, <1>4, <1>5, <1>6, <1>7, <1>8

LEMMA ActivateKeeps ==
  ASSUME BillingInv, NEW e \in posted, e.type \in {"payment.captured", "subscription.charged"},
         NEW o \in OrderOf(e.ref), NEW at \in Days, at <= day, activateOrder(o, e.payment, at),
         events' \subseteq Recorded,
         UNCHANGED <<day, req, offered, canceling, extend, grants, overwrote, stopped, posted>>
  PROVE  BillingInv'
<1> USE DEF BillingInv
<1>1. e \in ProviderEvents /\ e.payment # None
  BY DEF TypeOK, LedgerInv, PaymentsKnown
<1>2. e.payment \in Payments /\ e.ref \in Refs /\ e.ref # None
  BY <1>1, Numbers DEF ProviderEvents
<1>3. o \in Written /\ order[o].ref = e.ref /\ o \in Orders /\ order[o] \in OrderRows
  BY WrittenTyped DEF OrderOf
<1>4. HeldAlone'
  BY DEF LedgerInv, HeldAlone
<1>5. CASE order[o].status = "PAID"
  <2>1. UNCHANGED <<org, sub, order, bought, latest>>
    BY <1>5 DEF activateOrder, ledger
  <2>2. OrdersInv'
    BY <2>1, LedgerParts, OffersKeep
  <2>3. TypeOK'
    BY <2>1 DEF TypeOK
  <2>4. PlanInv'
    BY <2>1 DEF PlanInv, CopiesAgree, PeriodRuns, ExtendCounted
  <2> QED
    BY <1>4, <2>2, <2>3, <2>4 DEF LedgerInv, OrdersInv
<1>6. CASE order[o].status # "PAID"
  <2>1. at \in Nat
    BY Numbers
  <2>2. PICK r \in OrderRows, end \in Nat :
            /\ order' = [order EXCEPT ![o] = r]
            /\ r.status = "PAID" /\ r.payment = e.payment /\ r.ref = order[o].ref /\ r.kind = order[o].kind
            /\ end >= at + Period
            /\ org' \in [plan : Plans \cup {Trial}, status : Statuses, end : Ends, suspended : BOOLEAN]
            /\ sub' \in Subscription
            /\ org'.plan = sub'.plan /\ org'.end = end /\ sub'.end = end
            /\ sub'.ref = IF order[o].kind = "recurring" THEN order[o].ref ELSE sub.ref
            /\ bought' = [bought EXCEPT ![e.payment] = @ + 1]
            /\ latest' = at
    BY <1>2, <1>3, <1>6, <2>1, Activated
  <2>3. OrdersInv
    BY LedgerParts
  <2>4. e.ref \in offered
    BY <1>2, <1>3, <2>3 DEF OrdersInv, OrdersOffered
  <2>5. \A q \in Written : q # o => order[q].ref # e.ref
    BY <1>2, <1>3, <1>6, <2>3 DEF OrdersInv, SharedIsPaid
  <2>6. order[o].payment = None
    BY <1>3, <1>6, <2>3 DEF OrdersInv, PaymentsPosted
  <2>7. ASSUME NEW q \in Written, order[q].payment = e.payment PROVE FALSE
    <3>1. PICK f \in posted : f.ref = order[q].ref /\ f.payment = order[q].payment
      BY <1>1, <2>3, <2>7 DEF OrdersInv, PaymentsPosted
    <3>2. f.ref = e.ref
      BY <1>1, <2>3, <2>7, <3>1 DEF OrdersInv, OneReference
    <3> QED
      BY <1>1, <2>5, <2>6, <2>7, <3>1, <3>2
  <2>8. OrdersInv'
    <3>1. r.ref = e.ref /\ sub'.ref \in {sub.ref, e.ref}
      BY <1>3, <2>2
    <3>2. \A q \in Written : q # o /\ order[q].ref = e.ref => order[q].status = "PAID"
      BY <2>5
    <3>3. \A q \in Written : order[q].payment # e.payment
      BY <2>7
    <3> QED
      BY <1>2, <1>3, <2>2, <2>3, <2>4, <2>6, <3>1, <3>2, <3>3, PaidOrderKeeps
  <2>9. order' \in [Orders -> OrderRows \cup {None}]
    BY <1>3, <2>2, Stored
  <2>10. bought' \in [Payments -> Nat]
    BY <1>2, <2>2 DEF TypeOK
  <2>11. TypeOK'
    BY <2>2, <2>9, <2>10 DEF TypeOK
  <2>12. PlanInv'
    BY <2>2 DEF PlanInv, CopiesAgree, PeriodRuns, ExtendCounted
  <2> QED
    BY <1>4, <2>8, <2>11, <2>12 DEF LedgerInv, OrdersInv
<1> QED
  BY <1>5, <1>6

LEMMA PaymentsKeep ==
  ASSUME BillingInv, NEW e \in posted, verifyPayment(e) \/ WebhookCaptured(e)
  PROVE  BillingInv'
<1>1. e \in ProviderEvents /\ e.at <= day
  BY DEF BillingInv, TypeOK, PlanInv, PeriodRuns
<1>2. e.type \in {"payment.captured", "subscription.charged"}
  BY DEF verifyPayment, FirstCharge, WebhookCaptured
<1>3. e.payment \in Payments
  BY <1>1, <1>2 DEF BillingInv, LedgerInv, PaymentsKnown, ProviderEvents
<1>4. day \in Days /\ day <= day /\ e.at \in Days
  BY <1>1, Numbers DEF BillingInv, TypeOK, ProviderEvents
<1>5. [verified |-> e.payment] \in Recorded /\ e \in Recorded
  BY <1>1, <1>3 DEF Recorded
<1>6. events' \subseteq Recorded
  BY <1>5 DEF verifyPayment, WebhookCaptured, BillingInv, TypeOK
<1>7. UNCHANGED <<day, req, offered, canceling, extend, grants, overwrote, stopped, posted>>
  BY DEF verifyPayment, WebhookCaptured, checkout, owner, provider
<1>8. \E o \in OrderOf(e.ref), at \in {day, e.at} : activateOrder(o, e.payment, at)
  BY DEF verifyPayment, WebhookCaptured
<1> QED
  BY <1>1, <1>2, <1>4, <1>6, <1>7, <1>8, ActivateKeeps

(* A failed payment: its order fails unless it is paid, the plan is past due.  *)
LEMMA FailedKeeps ==
  ASSUME BillingInv, NEW e \in posted, WebhookFailed(e)
  PROVE  BillingInv'
<1> USE DEF BillingInv
<1>1. PICK o \in OrderOf(e.ref) : order' = [order EXCEPT ![o].status = IF @ = "PAID" THEN @ ELSE "FAILED"]
  BY DEF WebhookFailed
<1>2. /\ org' = PastDue(org) /\ sub' = PastDue(sub) /\ events' = events \cup {e}
      /\ UNCHANGED <<day, req, offered, canceling, extend, grants, overwrote, stopped, posted, bought, latest>>
  BY DEF WebhookFailed, checkout, owner, provider, ledger
<1>3. o \in Written /\ o \in Orders /\ order[o] \in OrderRows
  BY WrittenTyped DEF OrderOf
<1>4. PICK status : status = IF order[o].status = "PAID" THEN order[o].status ELSE "FAILED"
  OBVIOUS
<1>5. PICK r : r = [order[o] EXCEPT !.status = status]
  OBVIOUS
<1>6. /\ r \in OrderRows /\ r.ref = order[o].ref /\ r.payment = order[o].payment
      /\ order[o].status = "PAID" => r.status = "PAID"
  BY <1>3, <1>4, <1>5 DEF OrderRows
<1>7. order' = [order EXCEPT ![o] = r]
  BY <1>1, <1>3, <1>4, <1>5 DEF TypeOK
<1>8. /\ org' \in [plan : Plans \cup {Trial}, status : Statuses, end : Ends, suspended : BOOLEAN]
      /\ org'.plan = org.plan /\ org'.end = org.end
  BY <1>2 DEF TypeOK, Statuses, PastDue
<1>9. sub' \in Subscription /\ sub'.plan = sub.plan /\ sub'.end = sub.end /\ sub'.ref = sub.ref
  BY <1>2 DEF TypeOK, Statuses, Subscription, PastDue
<1>10. /\ order' \in [Orders -> OrderRows \cup {None}]
       /\ order'[o] = r /\ Written' = Written
       /\ \A q \in Written : q # o => order'[q] = order[q]
  <2>1. /\ order' \in [Orders -> OrderRows \cup {None}]
        /\ order'[o] = r /\ Written' = Written \cup {o}
        /\ \A q \in Orders : q # o => order'[q] = order[q]
    BY <1>3, <1>6, <1>7, Stored
  <2>2. Written \cup {o} = Written /\ Written \subseteq Orders
    BY <1>3 DEF Written
  <2> QED
    BY <2>1, <2>2
<1>11. TypeOK'
  <2>1. events' \subseteq Recorded
    BY <1>2 DEF TypeOK, Recorded
  <2> QED
    BY <1>2, <1>8, <1>9, <1>10, <2>1 DEF TypeOK
<1>12. PlanInv'
  BY <1>2, <1>8, <1>9 DEF PlanInv, CopiesAgree, PeriodRuns, ExtendCounted
<1>13. \A q \in Written : /\ order'[q].ref = order[q].ref /\ order'[q].payment = order[q].payment
                          /\ order[q].status = "PAID" => order'[q].status = "PAID"
  BY <1>6, <1>10
<1>14. HeldAlone' /\ OneReference' /\ PaymentsKnown'
  BY <1>2 DEF LedgerInv, HeldAlone, OneReference, PaymentsKnown
<1>15. OrdersOffered' /\ SharedIsPaid' /\ OneOrderPerPayment'
  BY <1>2, <1>10, <1>13 DEF LedgerInv, OrdersOffered, SharedIsPaid, OneOrderPerPayment
<1>16. OnFileIsPaid'
  BY <1>2, <1>9, <1>10, <1>13 DEF LedgerInv, OnFileIsPaid
<1>17. PaymentsPosted'
  BY <1>2, <1>10, <1>13 DEF LedgerInv, PaymentsPosted
<1>18. BoughtWithOrder'
  BY <1>2, <1>10, <1>13 DEF LedgerInv, BoughtWithOrder
<1> QED
  BY <1>11, <1>12, <1>14, <1>15, <1>16, <1>17, <1>18 DEF LedgerInv

LEMMA ChargedKeeps ==
  ASSUME BillingInv, NEW e \in posted, WebhookCharged(e)
  PROVE  BillingInv'
<1> USE DEF BillingInv
<1>1. e \in ProviderEvents /\ e.at <= day
  BY DEF TypeOK, PlanInv, PeriodRuns
<1>2. e.payment \in Payments /\ e.ref \in Refs /\ e.ref # None /\ e.at \in Days /\ e.at \in Nat
  BY <1>1, Numbers DEF WebhookCharged, LedgerInv, PaymentsKnown, ProviderEvents
<1>3. PICK o \in Fresh(Orders, Written) :
          order' = [order EXCEPT ![o] = [kind |-> "recurring", plan |-> sub.plan, status |-> "PAID",
                                         key |-> None, ref |-> e.ref, payment |-> e.payment]]
  BY DEF WebhookCharged
<1>4. PICK r : r = [kind |-> "recurring", plan |-> sub.plan, status |-> "PAID",
                    key |-> None, ref |-> e.ref, payment |-> e.payment]
  OBVIOUS
<1>5. PICK base : base = Max({sub.end, e.at})
  OBVIOUS
<1>6. /\ sub.ref = e.ref /\ sub.plan \in Plans
      /\ \A q \in Written : order[q].payment # e.payment
      /\ order' = [order EXCEPT ![o] = r]
      /\ applyPaidPlan(sub.plan, base, sub.ref)
      /\ bought' = [bought EXCEPT ![e.payment] = @ + 1] /\ latest' = e.at
      /\ events' = events \cup {e}
      /\ UNCHANGED <<day, req, offered, canceling, extend, grants, overwrote, stopped, posted>>
  BY <1>3, <1>4, <1>5 DEF WebhookCharged, checkout, owner, provider
<1>7. r \in OrderRows /\ r.status = "PAID" /\ r.payment = e.payment /\ r.ref = e.ref
  BY <1>2, <1>4, <1>6 DEF OrderRows
<1>8. o \in Orders /\ o \notin Written
  BY FreshIsNew
<1>9. sub.end \in Nat /\ sub.ref \in Refs \cup {None}
  BY DEF TypeOK, Subscription, Ends
<1>10. base \in Nat /\ base >= e.at
  BY <1>2, <1>5, <1>9, MaxOfTwo
<1>11. /\ org' \in [plan : Plans \cup {Trial}, status : Statuses, end : Ends, suspended : BOOLEAN]
       /\ sub' \in Subscription
       /\ org'.plan = sub'.plan
       /\ org'.end = base + Period /\ sub'.end = base + Period /\ sub'.ref = sub.ref
  BY <1>6, <1>9, <1>10, Applied
<1>12. OrdersInv
  BY LedgerParts
<1>13. e.ref \in offered /\ \A q \in Written : order[q].ref = e.ref => order[q].status = "PAID"
  BY <1>2, <1>6, <1>12 DEF OrdersInv, OnFileIsPaid
<1>14. OrdersInv'
  <2>1. sub'.ref \in {sub.ref, e.ref}
    BY <1>11
  <2> QED
    BY <1>2, <1>6, <1>7, <1>8, <1>12, <1>13, <2>1, PaidOrderKeeps
<1>15. order' \in [Orders -> OrderRows \cup {None}]
  BY <1>6, <1>7, <1>8, Stored
<1>16. bought' \in [Payments -> Nat]
  BY <1>2, <1>6 DEF TypeOK
<1>17. TypeOK'
  <2>1. events' \subseteq Recorded
    BY <1>1, <1>6 DEF TypeOK, Recorded
  <2> QED
    BY <1>2, <1>6, <1>11, <1>15, <1>16, <2>1 DEF TypeOK
<1>18. PlanInv'
  <2>1. base + Period >= e.at + Period
    BY <1>2, <1>10, Numbers
  <2> QED
    BY <1>1, <1>6, <1>11, <2>1 DEF PlanInv, CopiesAgree, PeriodRuns, ExtendCounted
<1>19. HeldAlone'
  BY <1>6 DEF LedgerInv, HeldAlone
<1> QED
  BY <1>14, <1>17, <1>18, <1>19 DEF LedgerInv, OrdersInv

-----------------------------------------------------------------------------
LEMMA BillingInit == Init => BillingInv
<1> SUFFICES ASSUME Init PROVE BillingInv
  OBVIOUS
<1>1. Written = {}
  BY DEF Init, Written
<1>2. TypeOK
  <2>1. day \in Days /\ grants \in 0 .. MaxGrants
    BY BillingAssumption DEF Init, Days
  <2>2. /\ org \in [plan : Plans \cup {Trial}, status : Statuses, end : Ends, suspended : BOOLEAN]
        /\ sub \in Subscription
    BY Numbers DEF Init, Statuses, Ends, Subscription
  <2>3. /\ order \in [Orders -> OrderRows \cup {None}] /\ req \in [Slots -> Checkouts \cup {None}]
        /\ bought \in [Payments -> Nat] /\ latest \in Days \cup {None}
        /\ offered \subseteq Refs /\ stopped \subseteq Refs /\ posted \subseteq ProviderEvents /\ events \subseteq Recorded
    BY DEF Init
  <2>4. extend = None
    BY DEF Init
  <2>5. overwrote = FALSE /\ canceling \in {"no", "asked", "half"}
    BY DEF Init
  <2> QED
    BY <2>1, <2>2, <2>3, <2>4, <2>5 DEF TypeOK
<1>3. PlanInv
  BY DEF Init, PlanInv, CopiesAgree, PeriodRuns, ExtendCounted
<1>4. LedgerInv
  BY <1>1 DEF Init, LedgerInv, HeldAlone, OrdersOffered, SharedIsPaid, OnFileIsPaid, PaymentsPosted,
              OneReference, PaymentsKnown, BoughtWithOrder, OneOrderPerPayment
<1> QED
  BY <1>2, <1>3, <1>4 DEF BillingInv

LEMMA BillingStep == BillingInv /\ [Next]_vars => BillingInv'
<1> SUFFICES ASSUME BillingInv, [Next]_vars PROVE BillingInv'
  OBVIOUS
<1>1. ASSUME NEW s \in Slots,
             \/ \E plan \in Plans, key \in Keys \cup {None}, free \in BOOLEAN : CheckoutReads(s, plan, key, free)
             \/ CheckoutCommits(s) \/ activateFreeOrder(s)
      PROVE  BillingInv'
  BY <1>1, ReadsKeep, CommitKeeps, FreeKeeps
<1>2. ASSUME NEW e \in posted, verifyPayment(e) \/ Webhook(e) PROVE BillingInv'
  BY <1>2, PaymentsKeep, FailedKeeps, ChargedKeeps, EndedKeeps DEF Webhook
<1>3. CASE UNCHANGED vars
  <2>1. UNCHANGED <<day, org, sub, order, req, canceling, extend, offered, stopped, posted, events, bought, latest, grants, overwrote>>
    BY <1>3 DEF vars
  <2>2. TypeOK'
    BY <2>1 DEF BillingInv, TypeOK
  <2>3. PlanInv'
    BY <2>1 DEF BillingInv, PlanInv, CopiesAgree, PeriodRuns, ExtendCounted
  <2> QED
    BY <2>1, <2>2, <2>3, LedgerRests DEF BillingInv
<1> QED
  BY <1>1, <1>2, <1>3, TickKeeps, CancelKeeps, ExtendKeeps, OwnerKeeps, ProviderKeeps DEF Next

(* A payment buys one period and pays one order, however often and in whichever *)
(* order the browser's verification and the provider's events report it: for   *)
(* any number of orders, references, payments and requests.                    *)
THEOREM PaymentsBuyOnePeriod == Spec => []OnePeriodPerPayment
<1>1. BillingInv => OnePeriodPerPayment
  <2> SUFFICES ASSUME BillingInv PROVE OnePeriodPerPayment
    OBVIOUS
  <2>1. \A p \in Payments : bought[p] <= 1
    BY DEF BillingInv, LedgerInv, BoughtWithOrder
  <2>2. PaidOrders \subseteq Written
    BY DEF PaidOrders
  <2> QED
    BY <2>1, <2>2 DEF BillingInv, LedgerInv, OneOrderPerPayment, OnePeriodPerPayment
<1> QED
  BY <1>1, BillingInit, BillingStep, PTL DEF Spec

(* Organization and Subscription keep one plan and one end, whichever payments, *)
(* renewals, cancellations and grants wrote them, and in whichever order.      *)
THEOREM PlanCopiesAgree == Spec => []CopiesAgree
<1>1. BillingInv => CopiesAgree
  BY DEF BillingInv, PlanInv
<1> QED
  BY <1>1, BillingInit, BillingStep, PTL DEF Spec

(* For a period from the payment applied last the workspace is open, unless it  *)
(* is suspended or an EXTEND wrote over the payment: for periods, trials and    *)
(* graces of any length.                                                      *)
THEOREM PaidPlansAreUsable == Spec => []PaidMeansUsable
<1>1. BillingInv => PaidMeansUsable
  <2> SUFFICES ASSUME BillingInv, latest # None, day <= latest + Period, ~org.suspended, ~overwrote
               PROVE  evaluateEntitlement
    BY DEF PaidMeansUsable
  <2>1. /\ sub.end >= latest + Period /\ sub.end \in Nat /\ latest \in Nat /\ day \in Nat
        /\ TrialGrace \in Nat /\ Grace \in Nat /\ Period \in Nat
    BY BillingAssumption, Numbers DEF BillingInv, PlanInv, PeriodRuns, TypeOK, Subscription, Ends
  <2>2. day <= sub.end /\ day <= sub.end + TrialGrace /\ day <= sub.end + Grace
    BY <2>1
  <2>3. sub.status \in {"TRIALING", "ACTIVE", "PAST_DUE", "CANCELED"}
    BY DEF BillingInv, TypeOK, Subscription, Statuses
  <2> QED
    BY <2>2, <2>3 DEF evaluateEntitlement
<1> QED
  BY <1>1, BillingInit, BillingStep, PTL DEF Spec
=============================================================================
