---------------------------- MODULE MCAttendance ----------------------------
(***************************************************************************)
(* A working day for TLC from three sides that share no state: the punches    *)
(* that are recorded (PunchClock), the corrections of what was recorded       *)
(* (Correction), and whether there was work that day at all (DaysOff).  Init   *)
(* picks the side that moves; the others keep one initial state.             *)
(***************************************************************************)
EXTENDS PunchClock

CONSTANTS
    Branches, Shifts, MaxAdmin,                        \* of the calendar
    Dates, Times, Slots, MaxCorrections, MaxMarks      \* of the corrections

VARIABLES
    side,
    branch, works, assigned, override, holidays, companyLeaves, locked, mark, leave, ask, calls, admin,
    record, corr, claims, closed, marks

O == INSTANCE DaysOff WITH row <- mark, req <- calls
K == INSTANCE Correction WITH Days <- Dates, row <- record, req <- claims, locked <- closed

(* No record is not a status a record can have. *)
ASSUME NoStatusAssumption == None \notin O!Statuses

ASSUME CorrectionAssumption == K!CorrectionAssumption /\ K!NoRowAssumption

offVars == <<branch, works, assigned, override, holidays, companyLeaves, locked, mark, leave, ask, calls, admin>>
correctionVars == <<record, corr, claims, closed, marks>>

AttendanceInit ==
    /\ side \in {"punches", "calendar", "corrections"}
    /\ Init /\ O!Init /\ K!Init
    /\ \A s, t \in Shifts : works[s] = works[t]   \* as the company's policy leaves them
    /\ side # "calendar" => branch = None /\ assigned = None /\ \A s \in DOMAIN works : works[s]
    /\ side # "corrections" => \A d \in Dates : record[d] = None

PunchStep == side = "punches" /\ Next /\ UNCHANGED <<side, offVars, correctionVars>>
CalendarStep == side = "calendar" /\ O!Next /\ UNCHANGED <<side, vars, correctionVars>>
CorrectionStep == side = "corrections" /\ K!Next /\ UNCHANGED <<side, vars, offVars>>

AttendanceSpec ==
    AttendanceInit /\ [][PunchStep \/ CalendarStep \/ CorrectionStep]_<<side, vars, offVars, correctionVars>>
-----------------------------------------------------------------------------
(* Punching, leave, the absent marker, the dashboards and payroll agree about a    *)
(* day off, and it costs its employee nothing.                                 *)
DayOffHolds == O!DayOffHolds

(* An approved correction has an attendance row and is linked to it, in every order *)
(* of reviews and direct marks.                                                  *)
ApprovedHasRow == K!ApprovedHasRow
=============================================================================
