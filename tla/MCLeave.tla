------------------------------ MODULE MCLeave ------------------------------
(***************************************************************************)
(* Time off for TLC from its two sources, which share no state: leave         *)
(* (Leave), and overtime with the comp-off it turns into (Overtime).  Init    *)
(* picks the side that moves; the other keeps its initial state.             *)
(***************************************************************************)
EXTENDS Leave, TLC

CONSTANTS Units, MaxAsks, Takes, DayOff, NeedsApproval, MaxEmployee, MaxReviewer

VARIABLES side, att, ot, alloc, comp, take, booked, shoot, settle, slip, desk, granted, work

T == INSTANCE Overtime WITH req <- desk

ASSUME TimeOffAssumption == T!OvertimeAssumption /\ T!NoRowAssumption

(* Leave requests and the slots of requests in flight are interchangeable. *)
Symmetry == Permutations(Ids) \cup Permutations(Slots)

overtimeVars == <<att, ot, alloc, comp, take, booked, shoot, settle, slip, desk, granted, work>>

TimeOffInit == side \in {"leave", "overtime"} /\ Init /\ T!Init

LeaveStep == side = "leave" /\ Next /\ UNCHANGED <<side, overtimeVars>>
OvertimeStep == side = "overtime" /\ T!Next /\ UNCHANGED <<side, vars>>

(* Nobody need work overtime. *)
OvertimeRests == side = "overtime" /\ UNCHANGED <<side, vars, overtimeVars>>

TimeOffSpec == TimeOffInit /\ [][LeaveStep \/ OvertimeStep \/ OvertimeRests]_<<side, vars, overtimeVars>>
-----------------------------------------------------------------------------
(* "Approval can shorten a claim but never grow it: payroll pays these minutes":  *)
(* what a request pays stays within what was granted, also after the session     *)
(* that recomputes it.                                                       *)
GrantBoundsPay == T!GrantBoundsPay

(* Redemptions that are paid for, or wait, never exceed what was credited, and   *)
(* the days off that were written are the ones the balance paid for.            *)
BalanceCovers == T!BalanceCovers

(* A settlement is payroll's exactly when it and both parts of its overtime were *)
(* reviewed, in whatever order: none is paid too early and none is stuck.        *)
ReadyWhenReviewed == T!ReadyWhenReviewed
=============================================================================
