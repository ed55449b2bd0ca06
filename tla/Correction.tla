----------------------------- MODULE Correction -----------------------------
(***************************************************************************)
(* Attendance corrections of one employee: the requests and reviews of      *)
(* src/services/correction.service.js and the direct marking by an admin    *)
(* (adminMarkAttendance), which writes the same attendance rows and the     *)
(* same stream of corrections, while payroll locks the month.               *)
(*                                                                         *)
(* createCorrectionRequest and reviewRequest check first and write later;   *)
(* the checks of other requests fit in between, so each is a "Checks" and a *)
(* "Commits" action.  adminMarkAttendance decides inside its transaction.   *)
(***************************************************************************)
EXTENDS Integers, Sequences, FiniteSets

CONSTANTS
    Days,            \* calendar days, all in one payroll month
    Times,           \* punch times
    None,            \* no time, no row, no request
    Slots,           \* requests in flight at once
    MaxCorrections,  \* bound: corrections ever created
    MaxMarks         \* bound: direct marks by an admin

CorrectionAssumption ==
    /\ Times \subseteq Nat /\ None \notin Times
    /\ MaxCorrections \in Nat /\ MaxMarks \in Nat

VARIABLES
    row,       \* the attendance row of each day, or None
    corr,      \* the AttendanceCorrection rows, oldest first
    req,       \* requests past their checks
    locked,    \* a payslip of the month is APPROVED or DISBURSED
    marks      \* direct marks so far

vars == <<row, corr, req, locked, marks>>

MaybeTime == Times \cup {None}
Rows == [in : MaybeTime, out : MaybeTime]
NoRowAssumption == None \notin Rows
Statuses == {"PENDING", "APPROVED", "REJECTED"}
(* linked: attendanceId is set.                                             *)
Corrections == [day : Days, in : MaybeTime, out : MaybeTime,
                status : Statuses, linked : BOOLEAN]
Creates == [op : {"create"}, day : Days, in : MaybeTime, out : MaybeTime, linked : BOOLEAN]
Reviews == [op : {"review"}, c : Nat, status : {"APPROVED", "REJECTED"}]

TypeOK ==
    /\ row \in [Days -> Rows \cup {None}]
    /\ corr \in Seq(Corrections)
    /\ req \in [Slots -> Creates \cup Reviews \cup {None}]
    /\ locked \in BOOLEAN
    /\ marks \in 0 .. MaxMarks

After(out, in) == in # None /\ out # None => out > in

(* Rows as punches leave them: none, open, or closed after they were opened. *)
Init ==
    /\ row \in [Days -> {r \in Rows : r.in # None /\ After(r.out, r.in)} \cup {None}]
    /\ corr = <<>>
    /\ req = [s \in Slots |-> None]
    /\ locked = FALSE
    /\ marks = 0

-----------------------------------------------------------------------------
Creating == {s \in Slots : req[s] # None /\ req[s].op = "create"}
RoomLeft == Len(corr) + Cardinality(Creating) < MaxCorrections   \* bound

(* The employee asks for a correction; with an attendance id the row must be *)
(* complete.                                                                *)
CreateChecks(s, d, in, out, linked) ==
    /\ req[s] = None
    /\ in # None \/ out # None
    /\ After(out, in)
    /\ linked => row[d] # None /\ row[d].in # None /\ row[d].out # None
    /\ ~locked /\ RoomLeft
    /\ \A c \in DOMAIN corr : corr[c].day = d => corr[c].status # "PENDING"
    /\ req' = [req EXCEPT ![s] = [op |-> "create", day |-> d, in |-> in, out |-> out, linked |-> linked]]
    /\ UNCHANGED <<row, corr, locked, marks>>

CreateCommits(s) ==
    /\ req[s] # None /\ req[s].op = "create"
    /\ corr' = Append(corr, [day |-> req[s].day, in |-> req[s].in, out |-> req[s].out,
                             status |-> "PENDING", linked |-> req[s].linked])
    /\ req' = [req EXCEPT ![s] = None]
    /\ UNCHANGED <<row, locked, marks>>

(* A reviewer of a rank above the employee's decides. *)
ReviewChecks(s, c, status) ==
    /\ req[s] = None
    /\ corr[c].status = "PENDING"
    /\ status = "APPROVED" => ~locked
    /\ req' = [req EXCEPT ![s] = [op |-> "review", c |-> c, status |-> status]]
    /\ UNCHANGED <<row, corr, locked, marks>>

Given(new, old) == IF new # None THEN new ELSE old

(* The upsert of both writers: a time not given keeps its stored value. *)
Overwrite(d, in, out) ==
    [row EXCEPT ![d] = IF @ = None THEN [in |-> in, out |-> out]
                       ELSE [in |-> Given(in, @.in), out |-> Given(out, @.out)]]

(* MUTANT: the decision is stored before, and without, the attendance row.   *)
ReviewCommits_NoRow(s) ==
    /\ req[s] # None /\ req[s].op = "review"
    /\ corr' = [corr EXCEPT ![req[s].c].status = req[s].status]
    /\ req' = [req EXCEPT ![s] = None]
    /\ UNCHANGED <<row, locked, marks>>

(* One transaction, whatever the correction's status is by now. *)
ReviewCommits(s) ==
    /\ req[s] # None /\ req[s].op = "review"
    /\ LET c == req[s].c
       IN  IF req[s].status = "APPROVED"
           THEN /\ row' = Overwrite(corr[c].day, corr[c].in, corr[c].out)
                /\ corr' = [corr EXCEPT ![c].status = "APPROVED", ![c].linked = TRUE]
           ELSE /\ corr' = [corr EXCEPT ![c].status = "REJECTED"]
                /\ row' = row
    /\ req' = [req EXCEPT ![s] = None]
    /\ UNCHANGED <<locked, marks>>

(* The correction of day d that an admin's reason is written to. *)
LatestLinked(d) ==
    {c \in DOMAIN corr : /\ corr[c].day = d /\ corr[c].linked
                         /\ \A e \in DOMAIN corr : corr[e].day = d /\ corr[e].linked => e <= c}

(* An admin marks a day directly.  With a reason, the day's latest linked     *)
(* correction is approved in place, or one is created; neither the month's   *)
(* lock nor the order of the times is checked.                              *)
AdminMark(d, in, out, reason) ==
    /\ marks < MaxMarks
    /\ row' = Overwrite(d, in, out)
    /\ IF ~reason THEN corr' = corr
       ELSE IF LatestLinked(d) # {}
       THEN corr' = [c \in DOMAIN corr |->
                        IF c \in LatestLinked(d) THEN [corr[c] EXCEPT !.status = "APPROVED"] ELSE corr[c]]
       ELSE /\ RoomLeft
            /\ corr' = Append(corr, [day |-> d, in |-> in, out |-> out,
                                     status |-> "APPROVED", linked |-> TRUE])
    /\ marks' = marks + 1
    /\ UNCHANGED <<req, locked>>

(* Payroll approves the month's payslips. *)
LockMonth ==
    /\ ~locked
    /\ locked' = TRUE
    /\ UNCHANGED <<row, corr, req, marks>>

Next ==
    \/ \E s \in Slots :
          \/ \E d \in Days, in, out \in MaybeTime, linked \in BOOLEAN : CreateChecks(s, d, in, out, linked)
          \/ CreateCommits(s)
          \/ \E c \in DOMAIN corr, status \in {"APPROVED", "REJECTED"} : ReviewChecks(s, c, status)
          \/ ReviewCommits(s)
    \/ \E d \in Days, in, out \in MaybeTime, reason \in BOOLEAN : AdminMark(d, in, out, reason)
    \/ LockMonth

Spec == Init /\ [][Next]_vars

-----------------------------------------------------------------------------
(* An approved correction has an attendance row and is linked to it, in every *)
(* order of reviews and direct marks.                                       *)
ApprovedHasRow ==
    \A c \in DOMAIN corr : corr[c].status = "APPROVED" => row[corr[c].day] # None /\ corr[c].linked

(* Neither a partial correction nor a partial direct mark erases a punch      *)
(* time that is already recorded.                                           *)
KeepsPunches ==
    [][\A d \in Days : row[d] # None =>
          /\ row'[d] # None
          /\ row[d].in # None => row'[d].in # None
          /\ row[d].out # None => row'[d].out # None]_vars
=============================================================================
