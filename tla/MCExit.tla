------------------------------- MODULE MCExit -------------------------------
(***************************************************************************)
(* The instance of Exit that is model-checked, under names that leave those   *)
(* of PayrollRun free: Payroll_proofs is about both.                         *)
(***************************************************************************)
EXTENDS Integers

CONSTANTS Exits, Assets, Principal, MaxWork, Nobody

VARIABLES person, exit, items, final, advance, asset, desk, byPayroll, recovered, charged, work

X == INSTANCE Exit WITH settle <- final, loan <- advance, req <- desk, None <- Nobody

(* No row is not a row. *)
ASSUME ExitAssumption ==
    X!ExitAssumption /\ Nobody \notin X!Holders \cup X!EmployeeExit \cup X!Clearance \cup X!FinalSettlement \cup X!AssetRows

ExitSpec == X!Spec
-----------------------------------------------------------------------------
(* A loan is closed only when payroll and the paid settlements recovered all of it, *)
(* whatever payroll recovered since a settlement was calculated.                 *)
LoanNeverForgiven == X!LoanNeverForgiven

(* An asset is out exactly when somebody holds it, and its log names the holder,  *)
(* after any sequence of the handlers of assets.                                  *)
CustodyAgrees == X!CustodyAgrees

(* Whoever is terminated by a settlement loses the login.                         *)
LeaverSignedOff == X!LeaverSignedOff
=============================================================================
