------------------------------ MODULE PayDay ------------------------------
(***************************************************************************)
(* What payroll makes of one day, decided twice by the code: for the counts   *)
(* of a payslip (utils/payrollCycle.js) and for the row of the ledger printed *)
(* on it (payroll.service.js).  A day is counted in halves.  `open' says that *)
(* it is the present day, still without a loss if nothing is on record.       *)
(***************************************************************************)
CONSTANT None   \* no attendance row

Statuses == {"PRESENT", "WORK_FROM_HOME", "LATE", "HALF_DAY", "ON_LEAVE", "ABSENT", "HOLIDAY", "WEEK_OFF"}

(* Holidays and company leaves of the employee's branch, the shift, the         *)
(* attendance row, and an approved leave request for the day.                  *)
DayRecords == [holiday : BOOLEAN, works : BOOLEAN, status : Statuses \cup {None},
               leave : {"none", "paid", "unpaid"}, company : SUBSET {"paid", "unpaid"}]

UnpaidLeave(r) == r.leave = "unpaid"

(* Of company leaves that overlap, one unpaid makes the day unpaid. *)
CompanyPaid(r) == "unpaid" \notin r.company

Kinds == {"present", "paid", "unpaid", "holiday", "weekOff", "late"}
Zero == [k \in Kinds |-> 0]

DayClass(r, open) ==
    IF r.holiday \/ r.status = "HOLIDAY" THEN [Zero EXCEPT !.holiday = 2]
    ELSE IF r.status = "WEEK_OFF" \/ ~r.works THEN [Zero EXCEPT !.weekOff = 2]
    ELSE IF r.status \in {"PRESENT", "WORK_FROM_HOME"} THEN [Zero EXCEPT !.present = 2]
    ELSE IF r.status = "LATE" THEN [Zero EXCEPT !.present = 2, !.late = 1]
    ELSE IF r.status = "HALF_DAY" THEN [Zero EXCEPT !.present = 1, !.unpaid = 1]
    ELSE IF r.status = "ON_LEAVE"
         THEN IF UnpaidLeave(r) THEN [Zero EXCEPT !.unpaid = 2] ELSE [Zero EXCEPT !.paid = 2]
    ELSE IF r.company # {}
         THEN IF CompanyPaid(r) THEN [Zero EXCEPT !.paid = 2] ELSE [Zero EXCEPT !.unpaid = 2]
    ELSE IF r.status = None /\ open THEN Zero
    ELSE [Zero EXCEPT !.unpaid = 2]

DayCategory(r, open) ==
    IF r.holiday \/ r.status = "HOLIDAY" THEN "HOLIDAY"
    ELSE IF r.status = "WEEK_OFF" \/ ~r.works THEN "WEEK_OFF"
    ELSE IF r.status \in {"PRESENT", "WORK_FROM_HOME", "LATE", "HALF_DAY"} THEN r.status
    ELSE IF r.status = "ON_LEAVE" THEN IF UnpaidLeave(r) THEN "UNPAID_LEAVE" ELSE "PAID_LEAVE"
    ELSE IF r.company # {} THEN IF CompanyPaid(r) THEN "COMPANY_LEAVE_PAID" ELSE "COMPANY_LEAVE_UNPAID"
    ELSE IF r.status = None /\ open THEN "OPEN"
    ELSE "ABSENT"

LopDays(category) ==
    IF category \in {"ABSENT", "UNPAID_LEAVE", "COMPANY_LEAVE_UNPAID"} THEN 2
    ELSE IF category = "HALF_DAY" THEN 1 ELSE 0

=============================================================================
