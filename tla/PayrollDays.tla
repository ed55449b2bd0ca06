---------------------------- MODULE PayrollDays ----------------------------
(***************************************************************************)
(* The days payroll pays for: the periods of src/utils/payrollCycle.js, and   *)
(* the two walks over one in src/services/payroll.service.js.  One makes the  *)
(* counts a payslip is computed from, the other the ledger printed on it: the *)
(* code decides every day twice.                                             *)
(*                                                                         *)
(* Payroll of one employee is run month after month.  Days are numbered      *)
(* through; what is on record for a day is any of DayRecords.  Amounts are    *)
(* left out: a day is counted in halves.                                     *)
(***************************************************************************)
EXTENDS PayrollCalendar, PayDay, FiniteSetsExt

VARIABLES
    cycle,   \* the cycle days of the policy
    rules,   \* the late-coming rules
    today,   \* the organization's date
    month,   \* the payroll month that is computed
    cursor,  \* the next day of its walk
    counts,  \* classifyPayrollDays: half days of each kind, and lates
    ledger,  \* buildDailyPayrollLedger: what its rows so far add up to
    walked   \* auxiliary: days counted, with the month that counted them

vars == <<cycle, rules, today, month, cursor, counts, ledger, walked>>

Months == 1 .. Horizon

-----------------------------------------------------------------------------
(* The period of a payroll month *)

First(m) == IF cycle.start < cycle.end THEN Date(m, cycle.start) ELSE Date(m - 1, cycle.start)

(* MUTANT: a cycle that crosses months ends on its end day. *)
Last_Inclusive(m) == Date(m, cycle.end)

Last(m) == IF cycle.start < cycle.end THEN Date(m, cycle.end) ELSE Date(m, cycle.end) - 1

getPayrollPeriod(m) == First(m) .. Last(m)

(* The cycle an allowance of permission hours is shown for. *)
findCycleContaining(day) ==
    LET base == MonthOf(day) IN
    IF day \in getPayrollPeriod(base) THEN base
    ELSE IF day \in getPayrollPeriod(base + 1) THEN base + 1
    ELSE IF day \in getPayrollPeriod(base - 1) THEN base - 1
    ELSE base

-----------------------------------------------------------------------------
(* One day *)

classifyPayrollDays(r, day) == DayClass(r, day = today)

Category(r, day) == DayCategory(r, day = today)

-----------------------------------------------------------------------------
(* Coming late *)

(* Days the rules take for n lates of a month. *)
LateDays(n) == MapThenSumSet(LAMBDA rule : (n \div rule.lateDays) * rule.lopDays, rules)

(* MUTANT: every late is charged all the days its number is worth. *)
LateCharge_Whole(n) == LateDays(n)

(* What the n-th late adds, on the row of its day. *)
LateCharge(n) == IF LateDays(n) > LateDays(n - 1) THEN LateDays(n) - LateDays(n - 1) ELSE 0

(* Without rules, lates beyond the allowance cost a share of a day each. *)
LateFine(n) == IF rules = {} /\ n > MaxLates THEN 1 ELSE 0

EmptyLedger == [lop |-> 0, open |-> 0, late |-> 0, charged |-> 0, fined |-> 0]

-----------------------------------------------------------------------------
TypeOK ==
    /\ cycle \in Cycles /\ rules \in RuleSets /\ today \in Todays
    /\ month \in Months /\ cursor \in Int
    /\ counts \in [Kinds -> Nat]
    /\ ledger \in [lop : Nat, open : Nat, late : Nat, charged : Nat, fined : Nat]
    /\ walked \subseteq Int \X Months

Init ==
    /\ cycle \in Cycles /\ rules \in RuleSets /\ today \in Todays
    /\ month = 1 /\ cursor = First(1)
    /\ counts = Zero /\ ledger = EmptyLedger
    /\ walked = {}

(* Days after today are not counted. *)
WalkDay(r) ==
    /\ cursor <= Last(month) /\ cursor <= today
    /\ LET day == classifyPayrollDays(r, cursor)
           category == Category(r, cursor)
           n == ledger.late + 1
       IN /\ counts' = [k \in Kinds |-> counts[k] + day[k]]
          /\ ledger' = IF category = "LATE"
                       THEN [ledger EXCEPT !.late = n, !.charged = @ + LateCharge(n), !.fined = @ + LateFine(n)]
                       ELSE [ledger EXCEPT !.lop = @ + LopDays(category),
                                           !.open = @ + (IF category = "OPEN" THEN 2 ELSE 0)]
    /\ walked' = walked \cup {<<cursor, month>>}
    /\ cursor' = cursor + 1
    /\ UNCHANGED <<cycle, rules, today, month>>

(* calculateEmployeePayroll for the month after; a month is run when it is over. *)
NextMonth ==
    /\ cursor > Last(month) /\ today > Last(month) /\ month < Horizon
    /\ month' = month + 1 /\ cursor' = First(month + 1)
    /\ counts' = Zero /\ ledger' = EmptyLedger
    /\ UNCHANGED <<cycle, rules, today, walked>>

Next == NextMonth \/ \E r \in DayRecords : WalkDay(r)

Spec == Init /\ [][Next]_vars

-----------------------------------------------------------------------------
(* No day is counted in two months, whatever days the cycle is set to and        *)
(* however short the months are; a cycle that ends where it starts leaves no day  *)
(* out; and the permissions of a day are shown for the month that counted it.     *)
DaysPaidOnce ==
    /\ \A p, q \in walked : p[1] = q[1] => p[2] = q[2]
    /\ cycle.start = cycle.end => \A day \in First(1) .. cursor - 1 : \E m \in Months : <<day, m>> \in walked
    /\ \A p \in walked : findCycleContaining(p[1]) = p[2]

(* The two walks agree: the days walked are all accounted for, the ledger's rows  *)
(* add up to the loss of pay and the lates counted.                             *)
WalksAgree ==
    /\ 2 * (cursor - First(month)) =
          counts["present"] + counts["paid"] + counts["unpaid"] + counts["holiday"] + counts["weekOff"] + ledger.open
    /\ ledger.lop = counts["unpaid"] /\ ledger.late = counts["late"]
    /\ ledger.fined = IF rules = {} /\ counts["late"] > MaxLates THEN counts["late"] - MaxLates ELSE 0

(* A payslip's counts, its total and the rows printed on it say the same, and the  *)
(* rows charge for lates what the rules take for the month's number of them.      *)
DaysAddUp == WalksAgree /\ ledger.charged = LateDays(counts["late"])
=============================================================================
