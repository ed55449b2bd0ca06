------------------------------ MODULE Overtime ------------------------------
(***************************************************************************)
(* One employee's overtime of one month and what becomes of it: requests and *)
(* sessions (overtime.service.js), the monthly choice between cash, leave and *)
(* comp-off (overtime-allocation.service.js), the comp-off balance            *)
(* (compoff.service.js), a shoot and its settlement (shoot-request and        *)
(* shoot-settlement.service.js), and the payroll that closes the month.       *)
(*                                                                         *)
(* Each desk works on one request at a time: it reads and checks in one step  *)
(* and writes in a later one, so that employee, reviewer and payroll          *)
(* interleave.  A unit of time is a half day.                                *)
(***************************************************************************)
EXTENDS Integers, FiniteSets, FiniteSetsExt

CONSTANTS
    Units,      \* minutes of one day's overtime, travel or session
    MaxAsks,    \* bound: overtime requests of the day, oldest first
    Takes,      \* identities of comp-off redemptions (bound: redemptions)
    DayOff,     \* whether the day is one the shift does not work
    NeedsApproval, \* requireOtApproval of the organization's policy
    MaxEmployee, MaxReviewer, \* bounds: requests of each desk
    None

OvertimeAssumption ==
    /\ Units \subseteq Nat \ {0} /\ IsFiniteSet(Units) /\ IsFiniteSet(Takes)
    /\ {MaxAsks, MaxEmployee, MaxReviewer} \subseteq Nat
    /\ {DayOff, NeedsApproval} \subseteq BOOLEAN /\ None \notin Nat

Asks == 1 .. MaxAsks
Desks == {"employee", "reviewer"}
MaxWork(d) == IF d = "employee" THEN MaxEmployee ELSE MaxReviewer
Verdicts == {"APPROVED", "REJECTED"}

VARIABLES
    att,     \* the day's Attendance row: punched out, and its overtime column
    ot,      \* OvertimeRequest rows of the day
    alloc,   \* the month's OvertimeAllocation row
    comp,    \* the CompOffBalance row
    take,    \* its CompOffTransaction rows that take days
    booked,  \* redemptions whose days are written ON_LEAVE
    shoot,   \* the ShootRequest row
    settle,  \* its ShootSettlement row
    slip,    \* the month's payslip: overtime minutes paid in cash
    req,     \* the request each desk has under way, with what it has read
    granted, \* auxiliary: minutes the reviewer granted each overtime request
    work     \* requests each desk has begun

vars == <<att, ot, alloc, comp, take, booked, shoot, settle, slip, req, granted, work>>
rows == <<att, ot, alloc, comp, take, booked, shoot, settle, slip, granted>>

NoReq == [op |-> "none"]
OvertimeRequest == [planned : BOOLEAN, asked : Nat, approved : Nat,
                    session : {"no", "open", "ended"}, status : {"PENDING"} \cup Verdicts]
Allocation == [approved : Nat, comp : Nat, leave : Nat, cash : Nat, status : {"PENDING"} \cup Verdicts]
Redemption == [days : Units, status : {"PENDING", "DEBIT", "REJECTED"}]
CompOffBalance == [credited : Nat, used : Nat]
ShootRequest == [status : {"PENDING", "CANCELLED"} \cup Verdicts, leaving : BOOLEAN]
Settlement == [status : {"PENDING"} \cup Verdicts, shoot : {"PENDING"} \cup Verdicts,
               travel : {"PENDING"} \cup Verdicts, pay : {"NOT_READY", "READY", "PROCESSED"}]

NoRowAssumption == None \notin OvertimeRequest \cup Redemption \cup Settlement

TypeOK ==
    /\ att \in [done : BOOLEAN, ot : Nat]
    /\ ot \in [Asks -> OvertimeRequest \cup {None}]
    /\ alloc \in Allocation \cup {None}
    /\ comp \in CompOffBalance
    /\ take \in [Takes -> Redemption \cup {None}]
    /\ booked \subseteq Takes
    /\ shoot \in ShootRequest \cup {None}
    /\ settle \in Settlement \cup {None}
    /\ slip \in Nat \cup {None}
    /\ granted \in [Asks -> Nat]
    /\ work \in [Desks -> Nat]

Init ==
    /\ att = [done |-> FALSE, ot |-> 0]
    /\ ot = [r \in Asks |-> None] /\ granted = [r \in Asks |-> 0]
    /\ alloc = None /\ slip = None
    /\ comp = [credited |-> 0, used |-> 0]
    /\ take = [t \in Takes |-> None] /\ booked = {}
    /\ shoot = None /\ settle = None
    /\ req = [d \in Desks |-> NoReq] /\ work = [d \in Desks |-> 0]

(* A desk that is free takes a request on; one that has read it writes.        *)
Begins(d, r) ==
    /\ req[d] = NoReq /\ work[d] < MaxWork(d)
    /\ req' = [req EXCEPT ![d] = r] /\ work' = [work EXCEPT ![d] = @ + 1]
    /\ UNCHANGED rows
Ends(d, op) ==
    /\ req[d].op = op
    /\ req' = [req EXCEPT ![d] = NoReq] /\ UNCHANGED work

Status(row) == IF row = None THEN "none" ELSE row.status
Rows(f) == {x \in DOMAIN f : f[x] # None}
NextAsk == IF Rows(ot) = Asks THEN {} ELSE {Cardinality(Rows(ot)) + 1}
With(status) == {r \in Rows(ot) : ot[r].status \in status}

-----------------------------------------------------------------------------
(* The day and its overtime requests *)

NewAsk(planned, minutes) ==
    [planned |-> planned, asked |-> minutes, approved |-> 0, session |-> "no", status |-> "PENDING"]

(* checkOut: overtime counts by itself on a day off only, and is parked on a    *)
(* request where the policy wants an approval and no request is pending.       *)
PunchOut(minutes) ==
    /\ ~att.done
    /\ LET earns == DayOff /\ minutes > 0 IN
       /\ att' = [done |-> TRUE, ot |-> IF earns /\ ~NeedsApproval THEN minutes ELSE 0]
       /\ IF earns /\ NeedsApproval /\ With({"PENDING"}) = {}
          THEN \E r \in NextAsk : ot' = [ot EXCEPT ![r] = NewAsk(FALSE, minutes)]
          ELSE UNCHANGED ot
    /\ UNCHANGED <<alloc, comp, take, booked, shoot, settle, slip, req, granted, work>>

(* requestOvertime for a planned time: no other request waits or can still run. *)
PlanReads(minutes) ==
    /\ \A r \in With({"PENDING", "APPROVED"}) : ot[r].session = "ended"
    /\ Begins("employee", [op |-> "ask", new |-> NewAsk(TRUE, minutes)])

(* _computeEligibleOvertime: the column, or what the latest request asked.      *)
Eligible == IF att.ot > 0 THEN att.ot ELSE IF Rows(ot) = {} THEN 0 ELSE ot[Max(Rows(ot))].asked

(* requestOvertime for time already worked. *)
ClaimReads(minutes) ==
    /\ att.done /\ With({"PENDING", "APPROVED"}) = {}
    /\ minutes <= Eligible
    /\ Begins("employee", [op |-> "ask", new |-> NewAsk(FALSE, minutes)])

AskCommits ==
    /\ Ends("employee", "ask")
    /\ \E r \in NextAsk : ot' = [ot EXCEPT ![r] = req["employee"].new]
    /\ UNCHANGED <<att, alloc, comp, take, booked, shoot, settle, slip, granted>>

(* reviewOvertimeRequest: the row and its attendance are read before.  Its       *)
(* request tells whether a session or a plan backs it.                         *)
ReviewReads(r, verdict, minutes) ==
    /\ r \in With({"PENDING"})
    /\ verdict = "APPROVED" => minutes <= ot[r].asked
    /\ verdict = "REJECTED" => minutes = 0
    /\ Begins("reviewer", [op |-> "review", ask |-> r, row |-> ot[r], ot |-> att.ot, verdict |-> verdict, minutes |-> minutes])

Monus(a, b) == IF a > b THEN a - b ELSE 0

ReviewCommits ==
    /\ Ends("reviewer", "review")
    /\ LET q == req["reviewer"] IN
       /\ att' = IF q.row.session # "no" \/ q.row.planned THEN att
                 ELSE [att EXCEPT !.ot = IF q.verdict = "APPROVED" THEN q.minutes ELSE Monus(q.ot, q.row.asked)]
       /\ ot' = [ot EXCEPT ![q.ask].status = q.verdict, ![q.ask].approved = q.minutes]
       /\ granted' = [granted EXCEPT ![q.ask] = q.minutes]
    /\ UNCHANGED <<alloc, comp, take, booked, shoot, settle, slip>>

Startable == {r \in With({"APPROVED"}) : ot[r].session = "no"}
Running == {r \in With({"APPROVED"}) : ot[r].session = "open"}

(* startOvertimeSession: the latest approved request, if no session runs.       *)
StartReads ==
    /\ att.done /\ Running = {} /\ Startable # {}
    /\ Begins("employee", [op |-> "start", ask |-> Max(Startable)])

StartCommits ==
    /\ Ends("employee", "start")
    /\ ot' = [ot EXCEPT ![req["employee"].ask].session = "open"]
    /\ UNCHANGED <<att, alloc, comp, take, booked, shoot, settle, slip, granted>>

EndReads(minutes) ==
    /\ \E r \in Running : Begins("employee", [op |-> "end", ask |-> r, minutes |-> minutes, limit |-> ot[r].approved])

(* MUTANT: what the session ran is what it pays. *)
Payable_AsRun(minutes, limit) == minutes

(* endOvertimeSession: what ran, up to what was granted; a grant of zero is no   *)
(* limit.                                                                    *)
Payable(minutes, limit) == IF limit = 0 \/ minutes < limit THEN minutes ELSE limit

EndCommits ==
    /\ Ends("employee", "end")
    /\ LET q == req["employee"] IN
       ot' = [ot EXCEPT ![q.ask].asked = q.minutes, ![q.ask].approved = Payable(q.minutes, q.limit), ![q.ask].session = "ended"]
    /\ UNCHANGED <<att, alloc, comp, take, booked, shoot, settle, slip, granted>>

-----------------------------------------------------------------------------
(* The month's choice *)

(* approvedMinutes: the requests that were approved, the column of a day with    *)
(* none, and the overtime of a settlement payroll may take (a unit for each of    *)
(* its two parts).                                                           *)
ShootMinutes == IF Status(settle) = "APPROVED" /\ settle.pay \in {"READY", "PROCESSED"}
                THEN Cardinality({k \in {"shoot", "travel"} : settle[k] = "APPROVED"}) ELSE 0
Granted(S) == MapThenSumSet(LAMBDA r : ot[r].approved, S)
ApprovedMinutes ==
    (IF With({"APPROVED"}) = {} THEN att.ot ELSE Granted(With({"APPROVED"}))) + ShootMinutes

SubmitReads(leave, toComp) ==
    /\ slip = None
    /\ Status(alloc) # "APPROVED"
    /\ leave + toComp <= ApprovedMinutes
    /\ Begins("employee", [op |-> "choose", new |->
          [approved |-> ApprovedMinutes, comp |-> toComp, leave |-> leave,
           cash |-> ApprovedMinutes - leave - toComp, status |-> "PENDING"]])

SubmitCommits ==
    /\ Ends("employee", "choose")
    /\ alloc' = req["employee"].new
    /\ UNCHANGED <<att, ot, comp, take, booked, shoot, settle, slip, granted>>

AllocReads(verdict) ==
    /\ Status(alloc) = "PENDING"
    /\ alloc.approved = ApprovedMinutes /\ slip = None
    /\ Begins("reviewer", [op |-> "alloc", row |-> alloc, verdict |-> verdict])

(* The credit is the one the row read asks for; the row's status is set.       *)
AllocCommits ==
    /\ Ends("reviewer", "alloc")
    /\ LET q == req["reviewer"] IN
       /\ comp' = IF q.verdict = "APPROVED" THEN [comp EXCEPT !.credited = @ + q.row.comp] ELSE comp
       /\ alloc' = [alloc EXCEPT !.status = q.verdict]
    /\ UNCHANGED <<att, ot, take, booked, shoot, settle, slip, granted>>

-----------------------------------------------------------------------------
(* Comp-off *)

Pending == {t \in Rows(take) : take[t].status = "PENDING"}
DaysOf(S) == MapThenSumSet(LAMBDA t : take[t].days, S)

(* creditCompOff, by hand *)
Credit(days) ==
    /\ work["reviewer"] < MaxReviewer
    /\ work' = [work EXCEPT !["reviewer"] = @ + 1]
    /\ comp' = [comp EXCEPT !.credited = @ + days]
    /\ UNCHANGED <<att, ot, alloc, take, booked, shoot, settle, slip, req, granted>>

(* MUTANT: days that wait for a review are free to be asked for again. *)
Available_WithPending == comp.credited - comp.used

Available == Monus(comp.credited - comp.used, DaysOf(Pending))

(* redeemCompOff is one transaction. *)
Redeem(t, days) ==
    /\ work["employee"] < MaxEmployee /\ take[t] = None /\ days <= Available
    /\ work' = [work EXCEPT !["employee"] = @ + 1]
    /\ take' = [take EXCEPT ![t] = [days |-> days, status |-> "PENDING"]]
    /\ UNCHANGED <<att, ot, alloc, comp, booked, shoot, settle, slip, req, granted>>

RedemptionReads(t, verdict) ==
    /\ t \in Pending
    /\ Begins("reviewer", [op |-> "redeem", take |-> t, days |-> take[t].days, verdict |-> verdict])

(* reviewRedemption: the row is updated whatever became of it since.           *)
RedemptionCommits ==
    /\ Ends("reviewer", "redeem")
    /\ LET q == req["reviewer"] IN
       IF q.verdict = "REJECTED"
       THEN /\ take' = [take EXCEPT ![q.take].status = "REJECTED"]
            /\ UNCHANGED <<comp, booked>>
       ELSE IF q.days > Monus(comp.credited, comp.used)
       THEN UNCHANGED <<take, comp, booked>>
       ELSE /\ take' = [take EXCEPT ![q.take].status = "DEBIT"]
            /\ comp' = [comp EXCEPT !.used = @ + q.days]
            /\ booked' = booked \cup {q.take}
    /\ UNCHANGED <<att, ot, alloc, shoot, settle, slip, granted>>

-----------------------------------------------------------------------------
(* The shoot and its settlement *)

(* What a request will write: None leaves a column as it is. *)
ToShoot(status, leaving) == [op |-> "shoot", status |-> status, leaving |-> leaving]

(* create: a new row, or the rejected or cancelled one anew. *)
ShootReads ==
    /\ Status(shoot) \in {"none", "REJECTED", "CANCELLED"}
    /\ Begins("employee", ToShoot("PENDING", FALSE))

(* cancel: at once while it waits, by a request of its own once approved.       *)
CancelReads ==
    /\ Status(shoot) \in {"PENDING", "APPROVED"} /\ ~shoot.leaving
    /\ Begins("employee", IF shoot.status = "PENDING" THEN ToShoot("CANCELLED", None) ELSE ToShoot(None, TRUE))

(* review and reviewCancellation *)
ShootReviewReads(verdict) ==
    /\ \/ /\ Status(shoot) = "PENDING"
          /\ Begins("reviewer", ToShoot(verdict, None))
       \/ /\ Status(shoot) = "APPROVED" /\ shoot.leaving
          /\ Begins("reviewer", ToShoot(IF verdict = "APPROVED" THEN "CANCELLED" ELSE None, FALSE))

ShootCommits(d) ==
    /\ Ends(d, "shoot")
    /\ shoot' = [status |-> IF req[d].status = None THEN shoot.status ELSE req[d].status,
                  leaving |-> IF req[d].leaving = None THEN shoot.leaving ELSE req[d].leaving]
    /\ UNCHANGED <<att, ot, alloc, comp, take, booked, settle, slip, granted>>

(* create: travel is always claimed, shoot overtime if there was any.          *)
SettleReads(shootOt) ==
    /\ att.done /\ Status(shoot) = "APPROVED"
    /\ Status(settle) \in {"none", "REJECTED"}
    /\ Begins("employee", [op |-> "settle", new |->
          [status |-> "PENDING", shoot |-> IF shootOt THEN "PENDING" ELSE "APPROVED",
           travel |-> "PENDING", pay |-> "NOT_READY"]])

SettleCommits ==
    /\ Ends("employee", "settle")
    /\ settle' = req["employee"].new
    /\ UNCHANGED <<att, ot, alloc, comp, take, booked, shoot, slip, granted>>

Ready(status, shootOt, travel) == status = "APPROVED" /\ shootOt # "PENDING" /\ travel # "PENDING"

PayOf(status, shootOt, travel) == IF Ready(status, shootOt, travel) THEN "READY" ELSE "NOT_READY"

SettleReviewReads(verdict) ==
    /\ Status(settle) = "PENDING"
    /\ Begins("reviewer", [op |-> "settle", row |-> settle, verdict |-> verdict])

(* review *)
SettleReviewCommits ==
    /\ Ends("reviewer", "settle")
    /\ LET q == req["reviewer"] IN
       settle' = [settle EXCEPT !.status = q.verdict,
                                !.pay = PayOf(q.verdict, q.row.shoot, q.row.travel)]
    /\ UNCHANGED <<att, ot, alloc, comp, take, booked, shoot, slip, granted>>

(* reviewOvertime: travel may be corrected until payroll has taken it.          *)
ShootOtReads(kind, verdict) ==
    /\ Status(settle) \in {"PENDING", "APPROVED"} /\ settle.pay # "PROCESSED"
    /\ kind = "shoot" => settle.shoot = "PENDING"
    /\ Begins("reviewer", [op |-> "overtime", kind |-> kind, row |-> settle, verdict |-> verdict])

(* MUTANT: the settlement's own approval is left out. *)
ShootOtPay_Always(row) == PayOf("APPROVED", row.shoot, row.travel)

ShootOtPay(row) == IF row.status = "APPROVED" THEN PayOf("APPROVED", row.shoot, row.travel) ELSE row.pay

ShootOtCommits ==
    /\ Ends("reviewer", "overtime")
    /\ LET q == req["reviewer"]
           now == [q.row EXCEPT ![q.kind] = q.verdict]
       IN settle' = [settle EXCEPT ![q.kind] = q.verdict, !.pay = ShootOtPay(now)]
    /\ UNCHANGED <<att, ot, alloc, comp, take, booked, shoot, slip, granted>>

-----------------------------------------------------------------------------
(* The month's payroll: the cash part of an approved choice, or all overtime;    *)
(* where no approval is needed, the column and the sessions that ended.        *)
Worked ==
    ShootMinutes + (IF NeedsApproval THEN Granted(With({"APPROVED"}))
                    ELSE att.ot + Granted({r \in With({"APPROVED"}) : ot[r].session = "ended"}))

Payroll ==
    /\ slip = None /\ att.done
    /\ slip' = IF Status(alloc) = "APPROVED" THEN alloc.cash ELSE Worked
    /\ settle' = IF Status(settle) = "APPROVED" /\ settle.pay = "READY"
                 THEN [settle EXCEPT !.pay = "PROCESSED"] ELSE settle
    /\ UNCHANGED <<att, ot, alloc, comp, take, booked, shoot, req, granted, work>>

Next ==
    \/ \E m \in Units \cup {0} : PunchOut(m)
    \/ \E m \in Units : PlanReads(m) \/ ClaimReads(m) \/ EndReads(m) \/ Credit(m)
    \/ AskCommits \/ StartReads \/ StartCommits \/ EndCommits
    \/ \E r \in Asks, v \in Verdicts, m \in Units \cup {0} : ReviewReads(r, v, m)
    \/ ReviewCommits \/ SubmitCommits \/ AllocCommits
    \/ \E l, c \in Units \cup {0} : SubmitReads(l, c)
    \/ \E v \in Verdicts : AllocReads(v) \/ ShootReviewReads(v) \/ SettleReviewReads(v)
    \/ \E t \in Takes, m \in Units : Redeem(t, m)
    \/ \E t \in Takes, v \in Verdicts : RedemptionReads(t, v)
    \/ RedemptionCommits \/ ShootReads \/ CancelReads \/ SettleCommits \/ SettleReviewCommits
    \/ \E d \in Desks : ShootCommits(d)
    \/ \E b \in BOOLEAN : SettleReads(b)
    \/ \E k \in {"shoot", "travel"}, v \in Verdicts : ShootOtReads(k, v)
    \/ ShootOtCommits \/ Payroll

Spec == Init /\ [][Next]_vars

-----------------------------------------------------------------------------

(* reviewOvertimeRequest: "Approval can shorten a claim but never grow it:       *)
(* payroll pays these minutes".  What a request pays, after the session that    *)
(* recomputes it, stays within what the reviewer granted, when that is not zero  *)
(* minutes: the code reads a grant of zero as no limit.                         *)
GrantBoundsPay == \A r \in With({"APPROVED"}) : granted[r] > 0 => ot[r].approved <= granted[r]

(* Redemptions that are paid for, or wait, never exceed what was credited, and   *)
(* the days off that were written are the ones the balance paid for.            *)
BalanceCovers ==
    /\ comp.used + DaysOf(Pending) <= comp.credited
    /\ comp.used = DaysOf(booked)
    /\ booked = {t \in Rows(take) : take[t].status = "DEBIT"}

(* A settlement is payroll's exactly when it and both parts of its overtime were *)
(* reviewed, in whatever order: none is paid too early and none is stuck.        *)
ReadyWhenReviewed == settle # None => (settle.pay # "NOT_READY") = Ready(settle.status, settle.shoot, settle.travel)

=============================================================================
