-------------------------- MODULE PayrollCalendar --------------------------
(***************************************************************************)
(* The calendar payroll cycles are cut from, and the settings of an           *)
(* organization they depend on: src/utils/payrollCycle.js.  Days are         *)
(* numbered through.                                                        *)
(***************************************************************************)
EXTENDS Integers, FiniteSets

CONSTANTS
    Horizon,     \* bound: payroll months are 1 .. Horizon
    FirstDay,    \* the calendar: the number of the first day of each month
    Cycles,      \* pairs of cycle days an organization may set
    Todays,      \* bound: the days on which payroll may be looked at
    RuleSets,    \* late-coming rules of an organization
    MaxLates     \* maxLatesBeforeDeduction, for an organization without rules

ASSUME CalendarAssumption ==
    /\ Horizon \in Nat \ {0}
    /\ FirstDay \in [-1 .. Horizon + 1 -> Int]
    /\ \A m, n \in -1 .. Horizon + 1 : m < n => FirstDay[m] < FirstDay[n]

ASSUME PolicyAssumption ==
    /\ Cycles \subseteq [start : Nat \ {0}, end : Nat \ {0}] /\ Todays \subseteq Int
    /\ \A rs \in RuleSets : IsFiniteSet(rs) /\ rs \subseteq [lateDays : Nat \ {0}, lopDays : Nat]
    /\ MaxLates \in Nat

MonthLength(m) == FirstDay[m + 1] - FirstDay[m]

(* Day 31 is the last day of a shorter month; normalizeCycleDay refuses 0.      *)
clampDay(m, day) == IF day < MonthLength(m) THEN day ELSE MonthLength(m)
Date(m, day) == FirstDay[m] + clampDay(m, day) - 1

MonthOf(day) == CHOOSE m \in -1 .. Horizon : FirstDay[m] <= day /\ day < FirstDay[m + 1]
=============================================================================
