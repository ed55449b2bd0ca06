------------------------------ MODULE DaysOff ------------------------------
(***************************************************************************)
(* Who may have a day off: one employee, one calendar day, and everything the *)
(* code keeps about whether it is worked.  Holidays, company leaves, the      *)
(* weekly off of the shift, a shift override and approved leave are edited by *)
(* administrators; six services then decide for themselves whether the day is *)
(* off, each with queries of its own: punching (attendance.service.js), the   *)
(* request to work on it (dayoff-work.service.js), the absent sweep and the    *)
(* reminders (notification.service.js), the dashboards, and payroll.          *)
(*                                                                         *)
(* A request reads and writes in two steps.  The employee, the administrators *)
(* and the scheduler each have one in flight.  Two holidays that differ in     *)
(* name only are one.                                                        *)
(***************************************************************************)
EXTENDS PayDay, Naturals

CONSTANTS
    Branches,
    Shifts,
    MaxAdmin   \* bound on changes of the calendar and of leave

VARIABLES
    branch,         \* the employee's, or None
    works,          \* by shift: is the day's weekday one of its working days
    assigned,       \* the employee's shift, or None
    override,       \* the shift of a ShiftOverride for the day, or None
    holidays,       \* Holiday rows of the day
    companyLeaves,  \* CompanyLeave rows that cover the day
    locked,         \* a payslip over the day is approved
    row,            \* the attendance row, or None
    leave,          \* an approved leave request over the day
    ask,            \* the DayOffWorkRequest of the day
    req,            \* by actor: its request in flight
    admin           \* how many of those there were

calendar == <<branch, works, assigned, override, holidays, companyLeaves, locked>>
vars == <<calendar, row, leave, ask, req, admin>>

Actors == {"employee", "admin", "sweep"}
Holidays == [branch : Branches \cup {None}, optional : BOOLEAN]
CompanyLeaves == [branch : Branches \cup {None}, paid : BOOLEAN]
Asks == {"none", "PENDING", "APPROVED", "REJECTED"}

-----------------------------------------------------------------------------
(* Is it a day off?  Every service asks with its own queries. *)

(* A row without a branch is for the whole organization. *)
Covers(x) == x.branch \in {None, branch}

(* Of the organization's shifts, the oldest. *)
Oldest == CHOOSE s \in Shifts : TRUE

resolveShift ==
    IF override # None THEN override
    ELSE IF assigned # None THEN assigned
    ELSE Oldest

isWorkingDay(s) == s = None \/ works[s]

findDayOff ==
    \/ \E h \in holidays : ~h.optional /\ Covers(h)
    \/ \E c \in companyLeaves : Covers(c)

Off(s) == findDayOff \/ ~isWorkingDay(s)

(* For the request to work, and the punch screen. *)
getDayOff == Off(resolveShift)

(* MUTANT: company leave does not make the day one of overtime. *)
NonWorking_NoLeave(s) == ~isWorkingDay(s) \/ leave # "none" \/ \E h \in holidays : ~h.optional /\ Covers(h)

(* A punch of shift s is no ordinary work: found anew by each punch. *)
NonWorking(s) ==
    \/ ~isWorkingDay(s) \/ leave # "none"
    \/ \E h \in holidays : ~h.optional /\ Covers(h)
    \/ \E c \in companyLeaves : Covers(c)

(* Approved leave stops everyone but an administrator, a day off only the       *)
(* employee without approval.                                                  *)
Admitted(by) ==
    /\ leave = "none" \/ by = "admin"
    /\ getDayOff => by \in {"admin", "device"} \/ ask = "APPROVED"

PunchedIn == row # None /\ row.in

(* Who sends a punch of the employee; a colleague is refused. *)
Punchers == {"employee", "admin"}

(* What the punch screen offers. *)
CanPunch == leave = "none" /\ (getDayOff => ask = "APPROVED")

(* Rows by their branch: those of all, and those of the employee's own. *)
Closes(S) == (\E x \in S : x.branch = None) \/ (branch # None /\ \E x \in S : x.branch = branch)

Binding == {h \in holidays : ~h.optional}

WeeklyOff == assigned # None /\ ~works[assigned]

(* markAbsentForDay, for an employee without a row. *)
SweepVerdict ==
    IF Closes(Binding) \/ Closes(companyLeaves) \/ leave # "none" THEN "skip"
    ELSE IF WeeklyOff THEN "WEEK_OFF" ELSE "ABSENT"

(* offTodayIds and the shift check of the punch reminders. *)
Reminded ==
    /\ isWorkingDay(assigned) /\ leave = "none"
    /\ ~\E h \in Binding : h.branch = None \/ h.branch = branch
    /\ ~\E c \in companyLeaves : c.branch = None \/ c.branch = branch

(* getBranchSummary, for an employee without a row. *)
BranchColumn ==
    IF Closes(Binding \cup companyLeaves) \/ WeeklyOff THEN "off"
    ELSE IF leave # "none" THEN "onLeave" ELSE "absent"

(* Shown as absent by getAttendanceHistory before the sweep has run. *)
VirtualAbsent == ~(Closes(Binding) \/ Closes(companyLeaves) \/ WeeklyOff) /\ leave = "none"

(* What payroll reads of the day: the assigned shift, and optional holidays too. *)
PayRecord ==
    [holiday |-> \E h \in holidays : Covers(h), works |-> works[assigned],
     status |-> IF row = None THEN None ELSE row.status, leave |-> leave,
     company |-> {IF c.paid THEN "paid" ELSE "unpaid" : c \in {x \in companyLeaves : Covers(x)}}]

-----------------------------------------------------------------------------
(* `off' is auxiliary: the day was off whenever the row was punched. *)
Rows == [status : Statuses, in : BOOLEAN, out : BOOLEAN, shift : Shifts \cup {None}, off : BOOLEAN]

TypeOK ==
    /\ branch \in Branches \cup {None}
    /\ works \in [Shifts \cup {None} -> BOOLEAN]
    /\ {assigned, override} \subseteq Shifts \cup {None}
    /\ holidays \subseteq Holidays /\ companyLeaves \subseteq CompanyLeaves
    /\ locked \in BOOLEAN /\ row \in Rows \cup {None}
    /\ leave \in {"none", "paid", "unpaid"} /\ ask \in Asks
    /\ DOMAIN req = Actors /\ admin \in 0 .. MaxAdmin

(* Without a shift Monday to Saturday are worked, and the day is any weekday. *)
Init ==
    /\ branch \in Branches \cup {None}
    /\ works \in [Shifts \cup {None} -> BOOLEAN]
    /\ assigned \in Shifts \cup {None} /\ override = None
    /\ holidays = {} /\ companyLeaves = {} /\ locked = FALSE
    /\ row = None /\ leave = "none" /\ ask = "none"
    /\ req = [a \in Actors |-> None] /\ admin = 0

Start(a, request) ==
    /\ req[a] = None
    /\ req' = [req EXCEPT ![a] = request]

Finish(a, op) ==
    /\ req[a] # None /\ req[a].op = op
    /\ req' = [req EXCEPT ![a] = None]

Administer == admin < MaxAdmin /\ admin' = admin + 1

-----------------------------------------------------------------------------
(* Holidays: no payroll lock is asked *)

Rewrite(newHolidays) ==
    /\ holidays' = newHolidays /\ newHolidays # holidays
    /\ Administer
    /\ UNCHANGED <<branch, works, assigned, override, companyLeaves, locked, row, leave, ask, req>>

createHoliday(h) == Rewrite(holidays \cup {h})

(* One statement inserts the rows of a file that are not there yet. *)
bulkCreateHolidays(S) == S # {} /\ Rewrite(holidays \cup S)

(* Its branch or what it is; or its date, which takes it off the day. *)
updateHoliday(h, g) ==
    /\ h \in holidays
    /\ Rewrite((holidays \ {h}) \cup {g})

deleteHoliday(h) == h \in holidays /\ Rewrite(holidays \ {h})

-----------------------------------------------------------------------------
(* Company leaves *)

(* Only leaves of the very same branch overlap. *)
AnnounceReads(c) ==
    /\ \A x \in companyLeaves : x.branch # c.branch
    /\ ~locked
    /\ Start("admin", [op |-> "announce", leave |-> c])
    /\ Administer
    /\ UNCHANGED <<calendar, row, leave, ask>>

AnnounceCommits ==
    /\ Finish("admin", "announce")
    /\ companyLeaves' = companyLeaves \cup {req["admin"].leave}
    /\ UNCHANGED <<branch, works, assigned, override, holidays, locked, row, leave, ask, admin>>

WithdrawReads(c) ==
    /\ c \in companyLeaves /\ ~locked
    /\ Start("admin", [op |-> "withdraw", leave |-> c])
    /\ Administer
    /\ UNCHANGED <<calendar, row, leave, ask>>

WithdrawCommits ==
    /\ Finish("admin", "withdraw")
    /\ companyLeaves' = companyLeaves \ {req["admin"].leave}
    /\ UNCHANGED <<branch, works, assigned, override, holidays, locked, row, leave, ask, admin>>

ApprovePayslip ==
    /\ ~locked /\ locked' = TRUE
    /\ Administer
    /\ UNCHANGED <<branch, works, assigned, override, holidays, companyLeaves, row, leave, ask, req>>

-----------------------------------------------------------------------------
(* Shifts *)

Reshift(newWorks, newAssigned, newOverride) ==
    /\ works' = newWorks /\ assigned' = newAssigned /\ override' = newOverride
    /\ <<works, assigned, override>>' # <<works, assigned, override>>
    /\ Administer
    /\ UNCHANGED <<branch, holidays, companyLeaves, locked, row, leave, ask, req>>

updateShift(s, worked) == Reshift([works EXCEPT ![s] = worked], assigned, override)

(* A new weekly off of the company is that of every shift. *)
updatePolicy(worked) == Reshift([s \in Shifts \cup {None} |-> IF s = None THEN works[s] ELSE worked], assigned, override)

assignEmployeesToShift(s) == Reshift(works, s, override)
removeEmployeeFromShift == Reshift(works, None, override)

setOverride(s) == Reshift(works, assigned, s)
deleteOverride == override # None /\ Reshift(works, assigned, None)

-----------------------------------------------------------------------------
(* Leave *)

(* The day is marked only if it is a leave day, by the holidays and the assigned *)
(* shift, and nobody worked it.                                                *)
ApproveLeave(kind) ==
    /\ leave = "none" /\ leave' = kind
    /\ LET leaveDay == works[assigned] /\ ~\E h \in Binding : Covers(h)
           kept == PunchedIn \/ (row # None /\ row.status = "PRESENT")
       IN row' = IF ~leaveDay \/ kept THEN row
                 ELSE IF row = None
                 THEN [status |-> "ON_LEAVE", in |-> FALSE, out |-> FALSE, shift |-> assigned, off |-> FALSE]
                 ELSE [row EXCEPT !.status = "ON_LEAVE"]
    /\ Administer
    /\ UNCHANGED <<calendar, ask, req>>

cancelLeave ==
    /\ leave # "none" /\ leave' = "none"
    /\ row' = IF row # None /\ row.status = "ON_LEAVE" /\ ~PunchedIn THEN None ELSE row
    /\ Administer
    /\ UNCHANGED <<calendar, ask, req>>

-----------------------------------------------------------------------------
(* Working on a day off *)

AskReads ==
    /\ getDayOff /\ ask \in {"none", "REJECTED"}
    /\ Start("employee", [op |-> "ask"])
    /\ UNCHANGED <<calendar, row, leave, ask, admin>>

(* A rejected request is opened again. *)
AskCommits ==
    /\ Finish("employee", "ask")
    /\ ask' = "PENDING"
    /\ UNCHANGED <<calendar, row, leave, admin>>

ReviewReads(status) ==
    /\ ask = "PENDING"
    /\ Start("admin", [op |-> "review", status |-> status])
    /\ UNCHANGED <<calendar, row, leave, ask, admin>>

ReviewCommits ==
    /\ Finish("admin", "review")
    /\ ask' = req["admin"].status
    /\ UNCHANGED <<calendar, row, leave, admin>>

CheckInReads(by, status) ==
    /\ Admitted(by)
    /\ ~PunchedIn
    /\ status = "LATE" => ~NonWorking(resolveShift)
    /\ Start("employee", [op |-> "checkIn", status |-> status, shift |-> resolveShift, off |-> Off(resolveShift)])
    /\ UNCHANGED <<calendar, row, leave, ask, admin>>

(* The upsert replaces what the row has become by now. *)
CheckInCommits ==
    /\ Finish("employee", "checkIn")
    /\ LET q == req["employee"] IN
       row' = [status |-> q.status, in |-> TRUE, out |-> row # None /\ row.out, shift |-> q.shift, off |-> q.off]
    /\ UNCHANGED <<calendar, leave, ask, admin>>

(* Judged by the shift punched in on, and by the calendar as it is by now. *)
CheckOutReads(status) ==
    /\ PunchedIn /\ ~row.out
    /\ LET s == IF row.shift # None THEN row.shift ELSE resolveShift IN
       /\ status # "PRESENT" => ~NonWorking(s)
       /\ Start("employee", [op |-> "checkOut", status |-> status, off |-> Off(s)])
    /\ UNCHANGED <<calendar, row, leave, ask, admin>>

CheckOutCommits ==
    /\ Finish("employee", "checkOut")
    /\ row' = [row EXCEPT !.status = req["employee"].status, !.out = TRUE, !.off = @ /\ req["employee"].off]
    /\ UNCHANGED <<calendar, leave, ask, admin>>

(* A punch of a biometric device is one of the employee. *)
ingestPunch(type, status) ==
    \/ type = "IN" /\ CheckInReads("device", status)
    \/ type = "OUT" /\ CheckOutReads(status)

-----------------------------------------------------------------------------
(* The absent sweep *)

SweepReads ==
    /\ row = None /\ SweepVerdict # "skip"
    /\ Start("sweep", [op |-> "mark", status |-> SweepVerdict])
    /\ UNCHANGED <<calendar, row, leave, ask, admin>>

(* skipDuplicates: a row written meanwhile stays. *)
SweepCommits ==
    /\ Finish("sweep", "mark")
    /\ row' = IF row # None THEN row
              ELSE [status |-> req["sweep"].status, in |-> FALSE, out |-> FALSE, shift |-> assigned, off |-> FALSE]
    /\ UNCHANGED <<calendar, leave, ask, admin>>

-----------------------------------------------------------------------------
Next ==
    \/ \E h \in Holidays : createHoliday(h) \/ deleteHoliday(h) \/ \E g \in Holidays : updateHoliday(h, g)
    \/ \E S \in SUBSET Holidays : bulkCreateHolidays(S)
    \/ \E c \in CompanyLeaves : AnnounceReads(c) \/ WithdrawReads(c)
    \/ AnnounceCommits \/ WithdrawCommits \/ ApprovePayslip
    \/ \E worked \in BOOLEAN : updatePolicy(worked) \/ \E s \in Shifts : updateShift(s, worked)
    \/ \E s \in Shifts : assignEmployeesToShift(s) \/ setOverride(s)
    \/ removeEmployeeFromShift \/ deleteOverride
    \/ \E kind \in {"paid", "unpaid"} : ApproveLeave(kind)
    \/ cancelLeave
    \/ AskReads \/ AskCommits
    \/ \E status \in {"APPROVED", "REJECTED"} : ReviewReads(status)
    \/ ReviewCommits
    \/ \E by \in Punchers, status \in {"PRESENT", "LATE"} : CheckInReads(by, status)
    \/ CheckInCommits
    \/ \E status \in {"PRESENT", "LATE", "HALF_DAY"} : CheckOutReads(status) \/ ingestPunch("OUT", status)
    \/ \E status \in {"PRESENT", "LATE"} : ingestPunch("IN", status)
    \/ CheckOutCommits
    \/ SweepReads \/ SweepCommits

Spec == Init /\ [][Next]_vars

-----------------------------------------------------------------------------
(* Whoever is asked says the same of the day of an employee with a shift and no   *)
(* override: punching, the sweep, the reminders and both dashboards.             *)
OneAnswer ==
    /\ CanPunch = Admitted("employee")
    /\ override = None /\ assigned # None =>
          /\ Reminded = (~getDayOff /\ leave = "none")
          /\ row = None =>
                /\ (BranchColumn = "off") = getDayOff
                /\ VirtualAbsent = (BranchColumn = "absent")
                /\ (SweepVerdict = "ABSENT") = VirtualAbsent

(* A day off that was not worked, or worked only while it was one, costs nothing  *)
(* whenever it was declared: payroll takes no pay and counts no late for it.     *)
NotCharged ==
    LET closed == /\ getDayOff /\ \A c \in companyLeaves : Covers(c) => c.paid
                  /\ override = None /\ assigned # None
        day == DayClass(PayRecord, FALSE)
    IN closed /\ leave # "unpaid" /\ (PunchedIn => row.off) => day["unpaid"] = 0 /\ day["late"] = 0

(* Attendance, leave, payroll and the absent marker agree about a day off, in       *)
(* every order of its declaration, punches, reviews and the sweep.               *)
DayOffHolds == OneAnswer /\ NotCharged
=============================================================================
