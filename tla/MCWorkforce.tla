---------------------------- MODULE MCWorkforce ----------------------------
(***************************************************************************)
(* The instance of Workforce that is model-checked, under names that leave    *)
(* those of Session free: Session_proofs is about both.                      *)
(***************************************************************************)
EXTENDS Integers

CONSTANTS Mails, Cands, Staff, Desks, Limit, MaxWork, Nobody

VARIABLES cand, staff, handled, edits, work

W == INSTANCE Workforce WITH Slots <- Desks, None <- Nobody, req <- handled

(* No row is not a row. *)
ASSUME WorkforceAssumption == W!WorkforceAssumption /\ Nobody \notin W!Candidate \cup W!Employee

WorkforceSymmetry == W!Symmetry
WorkforceSpec == W!Spec
-----------------------------------------------------------------------------
(* An accepted or activated candidate has an employee, the same person, whom no   *)
(* other candidate has.                                                          *)
HiresAreLinked == W!HiresAreLinked

(* No activation, acceptance, import or reactivation takes the company beyond the *)
(* seats of its plan; only the edit of a status does.                            *)
SeatsAreChecked == W!SeatsAreChecked
=============================================================================
