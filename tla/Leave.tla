-------------------------------- MODULE Leave --------------------------------
(***************************************************************************)
(* An employee's leave requests, leave balances and the attendance days they *)
(* block, of src/services/leave.service.js, with the punches that meet them. *)
(*                                                                         *)
(* Every request to the service first reads and checks, and later writes; a  *)
(* review claims the leave request by its status inside the transaction, a   *)
(* cancellation does not.                                                   *)
(***************************************************************************)
EXTENDS Integers, FiniteSets, FiniteSetsExt

CONSTANTS
    Ids,           \* leave requests that may be made
    Types,         \* leave types in use
    Quota,         \* days allowed per year of a paid type
    LastDay,       \* bound: the calendar is 1 .. LastDay
    YearEnd,       \* last day of the first year
    MonthLength,   \* days in a month
    MonthlyDays,   \* monthlyPaidLeaveDays of the policy
    CarryCap,      \* maxDays of a carry-forward
    OffDays,       \* holidays and week-offs
    Slots,         \* requests in flight
    Races,         \* operations that may overlap another one of their kind
    Spans,         \* TRUE: a leave may span the end of the year
    Carries,       \* bound: how often balances are carried forward
    None

Days == 1 .. LastDay
Years == {1, 2}
LeaveTypes == {"AL", "LWP", "OTL"}
OT_LEAVE_CODE == "OTL"
Paid == Types \ {"LWP"}

ASSUME LeaveAssumption ==
    /\ IsFiniteSet(Ids)
    /\ LastDay \in Nat \ {0} /\ YearEnd \in Nat /\ Quota \in Nat /\ MonthlyDays \in Nat /\ CarryCap \in Nat
    /\ MonthLength \in Nat \ {0} /\ OffDays \subseteq Days /\ Types \subseteq LeaveTypes
    /\ Races \subseteq {"create", "cancel"} /\ Spans \in BOOLEAN /\ Carries \in Nat

VARIABLES
    leave,     \* the LeaveRequest rows, None: not made yet
    balance,   \* the LeaveBalance row of a type and year, or None
    day,       \* the Attendance row of a day
    req,       \* requests past their checks
    today,
    carried    \* carry-forwards of the balances that were started

vars == <<leave, balance, day, req, today, carried>>

BLOCKING_STATUSES == {"PENDING", "APPROVED"}
LeaveRows == [type : Types, first : Days, last : Days, days : Nat,
              status : BLOCKING_STATUSES \cup {"REJECTED"}]
NewRows == {r \in LeaveRows : r.status = "PENDING"}
BalanceRows == [allocated : Nat, used : Int]
Requests ==
    [op : {"create"}, row : NewRows]
    \cup [op : {"review"}, id : Ids, status : {"APPROVED", "REJECTED"}]
    \cup [op : {"approve"}, id : Ids, free : SUBSET Days]
    \cup [op : {"cancel"}, id : Ids, was : BLOCKING_STATUSES]
    \cup [op : {"punch"}, date : Days]
    \cup [op : {"carry"}, allocated : [Paid -> Nat]]
ASSUME NoRowAssumption == None \notin LeaveRows \cup BalanceRows \cup Requests

TypeOK ==
    /\ leave \in [Ids -> LeaveRows \cup {None}]
    /\ balance \in [Types -> [Years -> BalanceRows \cup {None}]]
    /\ day \in [Days -> [checkIn : BOOLEAN, status : {"NONE", "PRESENT", "ON_LEAVE"}]]
    /\ req \in [Slots -> Requests \cup {None}]
    /\ today \in Days
    /\ carried \in 0 .. Carries

Init ==
    /\ leave = [i \in Ids |-> None]
    /\ balance = [t \in Types |-> [y \in Years |-> None]]
    /\ day = [d \in Days |-> [checkIn |-> FALSE, status |-> "NONE"]]
    /\ req = [s \in Slots |-> None]
    /\ today = 1
    /\ carried = 0

-----------------------------------------------------------------------------
(* The calendar and the policy.                                             *)
YearOf(d) == IF d <= YearEnd THEN 1 ELSE 2
MonthOf(d) == (d - 1) \div MonthLength
daysAllowed(t) == IF t = OT_LEAVE_CODE THEN 0 ELSE Quota

(* The days of a range that count: the others are holidays or week-offs.     *)
classifyRangeDays(first, last) == (first .. last) \ OffDays

Made == {i \in Ids : leave[i] # None}
With(statuses) == {i \in Made : leave[i].status \in statuses}
Overlap(r, q) == r.first <= q.last /\ q.first <= r.last
DaysOf(ids) == MapThenSumSet(LAMBDA i : leave[i].days, ids)

Allocated(t, y) == IF balance[t][y] = None THEN daysAllowed(t) ELSE balance[t][y].allocated
Used(t, y) == IF balance[t][y] = None THEN 0 ELSE balance[t][y].used

(* MUTANT: the days of pending requests are not reserved. *)
Remaining_Unreserved(t, y) == Allocated(t, y) - Used(t, y)

(* What is left of a type in a year, less what pending requests of the year   *)
(* reserve; a request that spans the year's end is in neither year.         *)
Remaining(t, y) ==
    Allocated(t, y) - Used(t, y)
    - DaysOf({i \in With({"PENDING"}) : /\ leave[i].type = t
                                        /\ YearOf(leave[i].first) = y /\ YearOf(leave[i].last) = y})

(* Paid leave accrues by the month, and what is not used carries forward.    *)
getMonthlyPaidLeaveStatus(d, exclude) ==
    (MonthOf(d) + 1) * MonthlyDays
    - DaysOf({i \in With(BLOCKING_STATUSES) \ exclude : leave[i].type \in Paid /\ MonthOf(leave[i].first) <= MonthOf(d)})

MonthlyAvailable(r, exclude) ==
    r.type \in Paid \ {OT_LEAVE_CODE} => r.days <= getMonthlyPaidLeaveStatus(r.last, exclude)

(* A request past its checks waits in a slot; some kinds do not overlap.     *)
Waits(s, r) == req[s] = None /\ req' = [req EXCEPT ![s] = r]
InFlight(op) == {s \in Slots : req[s] # None /\ req[s].op = op}
Deciding(i) == \E s \in InFlight("review") \cup InFlight("approve") \cup InFlight("cancel") : req[s].id = i
Done(s) == req' = [req EXCEPT ![s] = None]

-----------------------------------------------------------------------------
DayPasses ==
    /\ today < LastDay
    /\ today' = today + 1
    /\ UNCHANGED <<leave, balance, day, req, carried>>

(* A caller may ask for fewer days than the range has, never for more.       *)
CreateChecks(s, t, first, last, days) ==
    /\ "create" \in Races \/ InFlight("create") = {}
    /\ Cardinality(InFlight("create")) < Cardinality(Ids \ Made)   \* bound: Ids
    /\ first <= last /\ (YearOf(first) = YearOf(last) \/ Spans)
    /\ days \in 1 .. Cardinality(classifyRangeDays(first, last))
    /\ LET r == [type |-> t, first |-> first, last |-> last, days |-> days, status |-> "PENDING"]
       IN  /\ \A i \in With(BLOCKING_STATUSES) : ~Overlap(leave[i], r)
           /\ t \in Paid => days <= Remaining(t, YearOf(first))
           /\ MonthlyAvailable(r, {})
           /\ Waits(s, [op |-> "create", row |-> r])
    /\ UNCHANGED <<leave, balance, day, today, carried>>

CreateCommits(s) ==
    /\ s \in InFlight("create")
    /\ \E i \in Ids \ Made : leave' = [leave EXCEPT ![i] = req[s].row]
    /\ Done(s)
    /\ UNCHANGED <<balance, day, today, carried>>

ReviewChecks(s, i, status) ==
    /\ i \in With({"PENDING"})
    /\ "cancel" \in Races \/ ~\E c \in InFlight("cancel") : req[c].id = i
    /\ status = "APPROVED" => MonthlyAvailable(leave[i], {i})
    /\ Waits(s, [op |-> "review", id |-> i, status |-> status])
    /\ UNCHANGED <<leave, balance, day, today, carried>>

Locked(i) == \E s \in InFlight("approve") : req[s].id = i

(* MUTANT: the request is not claimed by its status. *)
Claimed_Always(i) == TRUE

(* updateMany where status is PENDING: nobody else has decided it.          *)
Claimed(i) == leave[i].status = "PENDING"

(* The transaction claims the request.  A rejection ends there; an approval   *)
(* holds the row while it reads which days have no punch.                   *)
ReviewClaims(s) ==
    /\ s \in InFlight("review")
    /\ ~Locked(req[s].id)
    /\ LET i == req[s].id
           free == {d \in classifyRangeDays(leave[i].first, leave[i].last) :
                        ~day[d].checkIn /\ day[d].status # "PRESENT"}
       IN  IF Claimed(i) /\ req[s].status = "APPROVED"
           THEN /\ req' = [req EXCEPT ![s] = [op |-> "approve", id |-> i, free |-> free]]
                /\ UNCHANGED leave
           ELSE /\ leave' = IF Claimed(i) THEN [leave EXCEPT ![i].status = "REJECTED"] ELSE leave
                /\ Done(s)
    /\ UNCHANGED <<balance, day, today, carried>>

Charged(t, y, n) ==
    [balance EXCEPT ![t][y] = [allocated |-> Allocated(t, y), used |-> Used(t, y) + n]]

(* The balance of the year the leave starts in is charged, the days blocked. *)
ApproveCommits(s) ==
    /\ s \in InFlight("approve")
    /\ LET r == leave[req[s].id]
           y == YearOf(r.first)
       IN  /\ leave' = [leave EXCEPT ![req[s].id].status = "APPROVED"]
           /\ balance' = IF r.type \in Paid THEN Charged(r.type, y, r.days) ELSE balance
    /\ day' = [d \in Days |-> IF d \in req[s].free THEN [day[d] EXCEPT !.status = "ON_LEAVE"] ELSE day[d]]
    /\ Done(s)
    /\ UNCHANGED <<today, carried>>

(* A leave that has started is an administrator's to cancel.                *)
CancelChecks(s, i, isAdmin) ==
    /\ i \in With(BLOCKING_STATUSES)
    /\ "cancel" \in Races \/ ~Deciding(i)
    /\ leave[i].status = "APPROVED" => leave[i].first > today \/ isAdmin
    /\ Waits(s, [op |-> "cancel", id |-> i, was |-> leave[i].status])
    /\ UNCHANGED <<leave, balance, day, today, carried>>

(* MUTANT: every day the leave blocked is cleared, worked or not. *)
Cleared_All(d) == day[d].status = "ON_LEAVE"

(* Only rows without a punch are deleted.                                   *)
Cleared(d) == day[d].status = "ON_LEAVE" /\ ~day[d].checkIn

(* MUTANT: all the employee's leave days are cleared. *)
Undone_Everywhere(r) ==
    day' = [d \in Days |-> IF Cleared(d) THEN [checkIn |-> FALSE, status |-> "NONE"] ELSE day[d]]

Undone(r) ==
    day' = [d \in Days |-> IF d \in r.first .. r.last /\ Cleared(d)
                           THEN [checkIn |-> FALSE, status |-> "NONE"] ELSE day[d]]

(* What the checks read decides what is undone.                             *)
CancelCommits(s) ==
    /\ s \in InFlight("cancel")
    /\ ~Locked(req[s].id)
    /\ LET r == leave[req[s].id]
           y == YearOf(r.first)
       IN  IF req[s].was = "APPROVED"
           THEN /\ Undone(r)
                /\ balance' = IF r.type \in Paid /\ balance[r.type][y] # None
                              THEN Charged(r.type, y, -r.days) ELSE balance
           ELSE UNCHANGED <<day, balance>>
    /\ leave' = [leave EXCEPT ![req[s].id].status = "REJECTED"]
    /\ Done(s)
    /\ UNCHANGED <<today, carried>>

(* The balance page creates the year's missing rows.                        *)
getLeaveBalances(y) ==
    /\ balance' = [t \in Types |-> [balance[t] EXCEPT ![y] = [allocated |-> Allocated(t, y), used |-> Used(t, y)]]]
    /\ UNCHANGED <<leave, day, req, today, carried>>

Least(a, b) == IF a <= b THEN a ELSE b
Unused(t) ==
    IF balance[t][1] = None \/ balance[t][1].used > balance[t][1].allocated THEN 0
    ELSE balance[t][1].allocated - balance[t][1].used

(* What the first year leaves unused is added to the next year's allowance.  *)
NextYear(t) == daysAllowed(t) + Least(Unused(t), CarryCap)

CarryReads(s) ==
    /\ carried < Carries
    /\ Waits(s, [op |-> "carry", allocated |-> [t \in Paid |-> NextYear(t)]])
    /\ carried' = carried + 1
    /\ UNCHANGED <<leave, balance, day, today>>

CarryCommits(s) ==
    /\ s \in InFlight("carry")
    /\ balance' = [t \in Types |->
                      IF t \in Paid
                      THEN [balance[t] EXCEPT ![2] = [allocated |-> req[s].allocated[t], used |-> Used(t, 2)]]
                      ELSE balance[t]]
    /\ Done(s)
    /\ UNCHANGED <<leave, day, today, carried>>

(* A punch-in: an employee is refused on an approved leave day, an            *)
(* administrator punching for the employee is not.                          *)
PunchChecks(s, onBehalf) ==
    /\ ~day[today].checkIn
    /\ InFlight("punch") = {}   \* racing punches are PunchClock.tla
    /\ onBehalf \/ \A i \in With({"APPROVED"}) : today \notin leave[i].first .. leave[i].last
    /\ Waits(s, [op |-> "punch", date |-> today])
    /\ UNCHANGED <<leave, balance, day, today, carried>>

PunchCommits(s) ==
    /\ s \in InFlight("punch")
    /\ day' = [day EXCEPT ![req[s].date] = [checkIn |-> TRUE, status |-> "PRESENT"]]
    /\ Done(s)
    /\ UNCHANGED <<leave, balance, today, carried>>

Next ==
    \/ DayPasses
    \/ \E y \in Years : getLeaveBalances(y)
    \/ \E s \in Slots :
          \/ \E t \in Types, first, last, days \in Days : CreateChecks(s, t, first, last, days)
          \/ CreateCommits(s)
          \/ \E i \in Ids, status \in {"APPROVED", "REJECTED"} : ReviewChecks(s, i, status)
          \/ ReviewClaims(s)
          \/ ApproveCommits(s)
          \/ \E i \in Ids, isAdmin \in BOOLEAN : CancelChecks(s, i, isAdmin)
          \/ CancelCommits(s)
          \/ CarryReads(s)
          \/ CarryCommits(s)
          \/ \E onBehalf \in BOOLEAN : PunchChecks(s, onBehalf)
          \/ PunchCommits(s)

Spec == Init /\ [][Next]_vars

-----------------------------------------------------------------------------
(* reviewLeaveRequest charges a leave and cancelLeaveRequest credits it back: *)
(* what a balance has used is what its approved leaves cost.                *)
BalanceMatchesRequests ==
    \A t \in Paid, y \in Years :
        Used(t, y) = DaysOf({i \in With({"APPROVED"}) : leave[i].type = t /\ YearOf(leave[i].first) = y})

(* createLeaveRequest: reserving what is pending keeps requests from pushing   *)
(* "the balance negative once they are all approved".  A second carry-forward *)
(* may take back days that were carried before; OT leave has no fixed quota. *)
WithinAllocation ==
    \A t \in Paid \ {OT_LEAVE_CODE}, y \in Years : carried <= 1 => Used(t, y) <= Allocated(t, y)

(* Whatever other leaves are cancelled, every working day of an approved leave *)
(* is blocked, or has a punch.                                              *)
LeaveIsMarked ==
    \A i \in With({"APPROVED"}) : \A d \in classifyRangeDays(leave[i].first, leave[i].last) :
        day[d].status = "ON_LEAVE" \/ day[d].checkIn

(* cancelLeaveRequest: "days with a real punch ... must stay untouched".     *)
PunchesSurvive == [][\A d \in Days : day[d].checkIn => day'[d].checkIn]_vars
=============================================================================
