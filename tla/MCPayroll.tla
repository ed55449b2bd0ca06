----------------------------- MODULE MCPayroll -----------------------------
(***************************************************************************)
(* Payroll for TLC, from its two sides, which share no state: the run that   *)
(* settles claims, loans and shoots (PayrollRun), and the days a payslip      *)
(* counts (PayrollDays).  Init picks the side that moves; the other stays in  *)
(* one initial state.                                                       *)
(***************************************************************************)
EXTENDS PayrollRun, PayrollCalendar

VARIABLES side, cycle, rules, today, month, cursor, counts, ledger, walked

(* Three payroll months with their neighbours, of two to four days each, and    *)
(* every pair of cycle days, some of them past the end of every month.          *)
Calendar == [m \in -1 .. 4 |-> CASE m = -1 -> -4 [] m = 0 -> 0 [] m = 1 -> 4 [] m = 2 -> 7 [] m = 3 -> 9 [] m = 4 -> 13]
CyclePairs == [start : 1 .. 5, end : 1 .. 5]

(* No rules about lates; or a day for every second late and two for every third. *)
LateRules == {{}, {[lateDays |-> 2, lopDays |-> 1], [lateDays |-> 3, lopDays |-> 2]}}

D == INSTANCE PayrollDays

daysVars == <<cycle, rules, today, month, cursor, counts, ledger, walked>>

PayrollInit ==
    /\ side \in {"run", "days"}
    /\ Init /\ D!Init
    /\ side # "run" =>
          /\ \A e \in Employees, l \in Loans, c \in Claims : loan[l].emp = e /\ claim[c].emp = e
          /\ \A x \in Settlements : settle[x].month = 1 /\ settle[x].calendar = 1
    /\ side # "days" => cycle = [start |-> 1, end |-> 5] /\ rules = {} /\ \A t \in Todays : today <= t

RunStep == side = "run" /\ Next /\ UNCHANGED <<side, daysVars>>
DaysStep == side = "days" /\ D!Next /\ UNCHANGED <<side, vars>>

(* The walk ends with the last month or at the present day. *)
WalkOver == side = "days" /\ ~ENABLED D!Next /\ UNCHANGED <<side, vars, daysVars>>

PayrollSpec == PayrollInit /\ [][RunStep \/ DaysStep \/ WalkOver]_<<side, vars, daysVars>>
-----------------------------------------------------------------------------
(* No day is counted in two months, and the permissions of a day are shown for  *)
(* the month that counted it.                                                  *)
DaysPaidOnce == D!DaysPaidOnce

(* The two walks over a period say the same of every day, and the ledger charges *)
(* for lates what the rules take for their number.                              *)
DaysAddUp == D!DaysAddUp
=============================================================================
