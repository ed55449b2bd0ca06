------------------------------ MODULE Workforce ------------------------------
(***************************************************************************)
(* How people come to be employees: src/services/onboarding.service.js and   *)
(* employee.service.js, with the seats of the plan in entitlement.service.js. *)
(*                                                                         *)
(* A candidate is invited, fills in the portal, is reviewed, gets an offer    *)
(* and accepts it, or is activated by an admin; employees are also created,   *)
(* imported, edited, deactivated and deleted directly.  An address stands for *)
(* a person: a user and its employee are one row, written together.          *)
(* Handlers read first and write in a later step, so that they interleave.   *)
(***************************************************************************)
EXTENDS Integers, FiniteSets, TLC

CONSTANTS
    Mails,    \* addresses
    Cands,    \* identities of candidates (bound: invitations)
    Staff,    \* identities of employees (bound: hires)
    Slots,    \* requests under way at once
    Limit,    \* seats of the plan (resolveLimits(org).maxEmployees)
    MaxWork,  \* bound: requests
    None

WorkforceAssumption ==
    /\ IsFiniteSet(Staff) /\ Limit \in Nat /\ MaxWork \in Nat
    /\ None \notin Mails \cup Cands \cup Staff

VARIABLES
    cand,   \* the OnboardingCandidate table, with whether a document was uploaded
    staff,  \* the Employee table and the login of each, its User row
    req,    \* the requests under way, and what they have read
    edits,  \* how often a status was edited by hand
    work    \* requests so far

vars == <<cand, staff, req, edits, work>>

Symmetry == Permutations(Mails) \cup Permutations(Slots)

Stages == {"INVITED", "PROFILE_SUBMITTED", "UNDER_HR_REVIEW", "HR_VERIFIED", "OFFER_GENERATED",
           "OFFER_SENT", "OFFER_ACCEPTED", "OFFER_REJECTED", "ACTIVATED", "REJECTED"}
SeatStatuses == {"ACTIVE", "NOTICE_PERIOD"}
Statuses == SeatStatuses \cup {"INACTIVE", "TERMINATED"}
Candidate == [mail : Mails, stage : Stages, offer : BOOLEAN, docs : BOOLEAN,
              expired : BOOLEAN, emp : Staff \cup {None}]
Employee == [mail : Mails, status : Statuses, login : BOOLEAN, deleted : BOOLEAN]

Known == {c \in Cands : cand[c] # None}
Hired == {e \in Staff : staff[e] # None}
Fresh(S, Used) == IF S = Used THEN {} ELSE {CHOOSE x \in S \ Used : TRUE}

(* countSeats *)
Seats == Cardinality({e \in Hired : ~staff[e].deleted /\ staff[e].status \in SeatStatuses})

(* The employee whose login has the address: deleting one frees its address.  *)
Holder(m) == {e \in Hired : staff[e].mail = m /\ ~staff[e].deleted}

TypeOK ==
    /\ cand \in [Cands -> Candidate \cup {None}]
    /\ staff \in [Staff -> Employee \cup {None}]
    /\ DOMAIN req = Slots
    /\ edits \in 0 .. MaxWork /\ work \in 0 .. MaxWork

NoReq == [op |-> "none"]
Init ==
    /\ cand = [c \in Cands |-> None] /\ staff = [e \in Staff |-> None]
    /\ req = [s \in Slots |-> NoReq] /\ edits = 0 /\ work = 0

Starts(s, r) ==
    /\ req[s] = NoReq /\ work < MaxWork
    /\ work' = work + 1
    /\ req' = [req EXCEPT ![s] = r]
    /\ UNCHANGED <<cand, staff, edits>>

Ends(s) == req' = [req EXCEPT ![s] = NoReq] /\ UNCHANGED <<edits, work>>

(* A handler that only writes, whatever the row it found. *)
AtOnce == work < MaxWork /\ work' = work + 1 /\ UNCHANGED req

(* A request that is refused by the database, or dies with its process. *)
Lost(s) == req[s] # NoReq /\ Ends(s) /\ UNCHANGED <<cand, staff>>

-----------------------------------------------------------------------------
(* Seats and rows *)

(* assertSeatAvailable locks the organization, so that no other holder of the  *)
(* lock adds an employee before this transaction ends.                       *)
assertSeatAvailable == Seats < Limit
Capacity == Limit - Seats

(* The address of a user is unique, and so is the user of an employee. *)
Hires(f) ==
    /\ \A m \in DOMAIN f : Holder(m) = {}
    /\ staff' = [e \in Staff |->
                   IF \E m \in DOMAIN f : f[m] = e
                   THEN [mail |-> CHOOSE m \in DOMAIN f : f[m] = e, status |-> "ACTIVE",
                         login |-> TRUE, deleted |-> FALSE]
                   ELSE staff[e]]

HiresOne(m, e) == Hires([x \in {m} |-> e])

(* OnboardingCandidate.employeeId is unique. *)
Linkable(c, e) == \A d \in Known \ {c} : cand[d].emp # e

-----------------------------------------------------------------------------
(* Invitation, portal and review *)

JoinerReads(s, m) ==
    /\ Holder(m) = {}
    /\ \A c \in Known : cand[c].mail = m => cand[c].stage \in {"ACTIVATED", "REJECTED"}
    /\ Starts(s, [op |-> "invite", mail |-> m])

JoinerCommits(s) ==
    /\ req[s].op = "invite"
    /\ \E c \in Fresh(Cands, Known) :
         cand' = [cand EXCEPT ![c] = [mail |-> req[s].mail, stage |-> "INVITED", offer |-> FALSE,
                                      docs |-> FALSE, expired |-> FALSE, emp |-> None]]
    /\ Ends(s) /\ UNCHANGED staff

(* Fourteen days pass. *)
Expire(c) ==
    /\ c \in Known /\ ~cand[c].expired
    /\ cand' = [cand EXCEPT ![c].expired = TRUE]
    /\ UNCHANGED <<staff, req, edits, work>>

assertPortalCandidate(c) ==
    /\ c \in Known /\ ~cand[c].expired
    /\ cand[c].stage \notin {"ACTIVATED", "REJECTED", "OFFER_REJECTED"}

PortalReads(s, c, op) ==
    /\ assertPortalCandidate(c)
    /\ Starts(s, [op |-> op, cand |-> c, stage |-> cand[c].stage, docs |-> cand[c].docs,
                  emp |-> cand[c].emp])

ProfileCommits(s) ==
    /\ req[s].op = "profile"
    /\ LET r == req[s] IN
       cand' = IF r.stage # "INVITED" THEN cand
               ELSE [cand EXCEPT ![r.cand].stage = IF r.docs THEN "UNDER_HR_REVIEW" ELSE "PROFILE_SUBMITTED"]
    /\ Ends(s) /\ UNCHANGED staff

UploadCommits(s) ==
    /\ req[s].op = "upload"
    /\ LET r == req[s]
           to == IF r.stage = "PROFILE_SUBMITTED" THEN "UNDER_HR_REVIEW" ELSE cand[r.cand].stage
       IN cand' = [cand EXCEPT ![r.cand].docs = TRUE, ![r.cand].stage = to]
    /\ Ends(s) /\ UNCHANGED staff

VerifyReads(s, c) ==
    /\ c \in Known /\ cand[c].stage # "ACTIVATED"
    /\ Starts(s, [op |-> "verify", cand |-> c])

VerifyCommits(s) ==
    /\ req[s].op = "verify"
    /\ \E to \in {"HR_VERIFIED", "REJECTED"} : cand' = [cand EXCEPT ![req[s].cand].stage = to]
    /\ Ends(s) /\ UNCHANGED staff

-----------------------------------------------------------------------------
(* Offer and activation *)

generateOfferLetter(c) ==
    /\ c \in Known /\ ~cand[c].offer
    /\ cand' = [cand EXCEPT ![c].offer = TRUE]
    /\ AtOnce /\ UNCHANGED <<staff, edits>>

adminApproveAndGenerateOffer(c) ==
    /\ c \in Known
    /\ cand' = [cand EXCEPT ![c].stage = "OFFER_GENERATED", ![c].offer = TRUE]
    /\ AtOnce /\ UNCHANGED <<staff, edits>>

hrReviewAndSendOffer(c) ==
    /\ c \in Known /\ cand[c].offer
    /\ cand' = [cand EXCEPT ![c].stage = "OFFER_SENT"]
    /\ AtOnce /\ UNCHANGED <<staff, edits>>

DeclineCommits(s) ==
    /\ req[s].op = "decline"
    /\ cand' = [cand EXCEPT ![req[s].cand].stage = "OFFER_REJECTED"]
    /\ Ends(s) /\ UNCHANGED staff

(* The transaction of respondToOffer: the account, before the candidate's row. *)
AcceptHires(s) ==
    /\ req[s].op = "accept" /\ req[s].emp = None
    /\ assertSeatAvailable
    /\ \E e \in Fresh(Staff, Hired) :
         /\ HiresOne(cand[req[s].cand].mail, e)
         /\ req' = [req EXCEPT ![s].emp = e]
    /\ UNCHANGED <<cand, edits, work>>

(* MUTANT: the acceptance is written with the link that was read at first. *)
AcceptCommits_Before(s) ==
    /\ req[s].op = "accept" /\ req[s].emp # None
    /\ cand' = [cand EXCEPT ![req[s].cand].stage = "OFFER_ACCEPTED"]
    /\ Ends(s) /\ UNCHANGED staff

AcceptCommits(s) ==
    /\ req[s].op = "accept" /\ req[s].emp # None
    /\ Linkable(req[s].cand, req[s].emp)
    /\ cand' = [cand EXCEPT ![req[s].cand].stage = "OFFER_ACCEPTED", ![req[s].cand].emp = req[s].emp]
    /\ Ends(s) /\ UNCHANGED staff

(* adminApproveAndActivate looks for the account before its transaction. *)
ActivateReads(s, c) ==
    /\ c \in Known /\ cand[c].stage # "ACTIVATED"
    /\ \E e \in IF Holder(cand[c].mail) = {} THEN {None} ELSE Holder(cand[c].mail) :
         Starts(s, [op |-> "activate", cand |-> c, emp |-> e])

ActivateCommits(s) ==
    /\ req[s].op = "activate"
    /\ LET c == req[s].cand IN
       \E e \in IF req[s].emp = None THEN Fresh(Staff, Hired) ELSE {req[s].emp} :
         /\ IF req[s].emp = None THEN assertSeatAvailable /\ HiresOne(cand[c].mail, e) ELSE UNCHANGED staff
         /\ Linkable(c, e)
         /\ cand' = [cand EXCEPT ![c].stage = "ACTIVATED", ![c].emp = e, ![c].offer = TRUE]
    /\ Ends(s)

-----------------------------------------------------------------------------
(* Employees created, changed and removed directly *)

(* createEmployee and inviteEmployee are an import of one. *)
HireReads(s, M) ==
    /\ \E m \in M : Holder(m) = {}
    /\ Starts(s, [op |-> "hire", mails |-> {m \in M : Holder(m) = {}}])

(* MUTANT: every row is inserted once a single seat is free. *)
HireCommits_Unsliced(s) ==
    /\ req[s].op = "hire" /\ assertSeatAvailable
    /\ \E f \in [req[s].mails -> Staff \ Hired] :
         /\ \A m, n \in req[s].mails : f[m] = f[n] => m = n
         /\ Hires(f)
    /\ Ends(s) /\ UNCHANGED cand

(* Rows beyond the free seats are reported as failed; an address or a code taken *)
(* in the meantime fails the whole import.                                      *)
HireCommits(s) ==
    /\ req[s].op = "hire" /\ assertSeatAvailable
    /\ \E M \in SUBSET req[s].mails :
         /\ Cardinality(M) = IF Cardinality(req[s].mails) < Capacity THEN Cardinality(req[s].mails)
                             ELSE Capacity
         /\ \E f \in [M -> Staff \ Hired] :
              /\ \A m, n \in M : f[m] = f[n] => m = n
              /\ Hires(f)
    /\ Ends(s) /\ UNCHANGED cand

(* updateEmployee asks the plan for no seat, and takes deleted rows too. *)
updateEmployee(e, to) ==
    /\ e \in Hired /\ to # staff[e].status
    /\ staff' = [staff EXCEPT ![e].status = to]
    /\ edits' = edits + 1
    /\ AtOnce /\ UNCHANGED cand

(* deleteEmployee, and bulkDeleteEmployees of several. *)
deleteEmployees(E) ==
    /\ E # {} /\ \A e \in E : e \in Hired /\ ~staff[e].deleted
    /\ staff' = [e \in Staff |->
                   IF e \in E THEN [staff[e] EXCEPT !.deleted = TRUE, !.status = "INACTIVE", !.login = FALSE]
                   ELSE staff[e]]
    /\ AtOnce /\ UNCHANGED <<cand, edits>>

(* The last step of an exit. *)
Terminate(e) ==
    /\ e \in Hired /\ ~staff[e].deleted
    /\ staff' = [staff EXCEPT ![e].status = "TERMINATED", ![e].login = FALSE]
    /\ AtOnce /\ UNCHANGED <<cand, edits>>

Eligible(e, to) ==
    /\ e \in Hired /\ ~staff[e].deleted
    /\ IF to = "INACTIVE" THEN staff[e].login \/ staff[e].status # "INACTIVE"
       ELSE staff[e].status # "TERMINATED" /\ ~(staff[e].login /\ staff[e].status # "INACTIVE")

AccessReads(s, E, to) ==
    /\ E # {} /\ \A e \in E : Eligible(e, to)
    /\ Starts(s, [op |-> "access", who |-> E, to |-> to])

Allowed(E, to) ==
    IF to = "INACTIVE" \/ Cardinality(E) <= Capacity THEN {E}
    ELSE {A \in SUBSET E : Cardinality(A) = Capacity}

AccessCommits(s) ==
    /\ req[s].op = "access"
    /\ req[s].to = "ACTIVE" => assertSeatAvailable
    /\ \E A \in Allowed(req[s].who, req[s].to) :
         staff' = [e \in Staff |->
                     IF e \in A THEN [staff[e] EXCEPT !.status = req[s].to, !.login = req[s].to = "ACTIVE"]
                     ELSE staff[e]]
    /\ Ends(s) /\ UNCHANGED cand

-----------------------------------------------------------------------------
Portal == \E s \in Slots :
    \/ \E c \in Cands, op \in {"profile", "upload", "accept", "decline"} : PortalReads(s, c, op)
    \/ ProfileCommits(s) \/ UploadCommits(s) \/ DeclineCommits(s) \/ AcceptHires(s) \/ AcceptCommits(s)

HR ==
    \/ \E s \in Slots :
         \/ \E m \in Mails : JoinerReads(s, m)
         \/ \E c \in Cands : VerifyReads(s, c) \/ ActivateReads(s, c)
         \/ JoinerCommits(s) \/ VerifyCommits(s) \/ ActivateCommits(s)
    \/ \E c \in Cands : generateOfferLetter(c) \/ adminApproveAndGenerateOffer(c) \/ hrReviewAndSendOffer(c)

Employees ==
    \/ \E s \in Slots :
         \/ \E M \in SUBSET Mails : HireReads(s, M)
         \/ \E E \in SUBSET Staff, to \in {"ACTIVE", "INACTIVE"} : AccessReads(s, E, to)
         \/ HireCommits(s) \/ AccessCommits(s)
    \/ \E e \in Staff : Terminate(e) \/ \E to \in Statuses : updateEmployee(e, to)
    \/ \E E \in SUBSET Staff : deleteEmployees(E)

Next == Portal \/ HR \/ Employees \/ (\E c \in Cands : Expire(c)) \/ (\E s \in Slots : Lost(s))

Spec == Init /\ [][Next]_vars

-----------------------------------------------------------------------------
(* However activations, acceptances, imports and reactivations interleave, and  *)
(* however stale what they read first, none of them takes the company beyond   *)
(* the seats of its plan: only an edit of a status does.                      *)
SeatsAreChecked == [][Seats' > Seats => Seats' <= Limit \/ edits' > edits]_vars

(* An accepted or activated candidate has an employee of the same address, and   *)
(* one that no other candidate has: also when the tab was opened twice, when an *)
(* admin activated in between, or when the account was made and the request died. *)
HiresAreLinked ==
    \A c \in Known : cand[c].stage \in {"OFFER_ACCEPTED", "ACTIVATED"} =>
        /\ cand[c].emp \in Hired
        /\ staff[cand[c].emp].mail = cand[c].mail
        /\ \A d \in Known \ {c} : cand[d].emp # cand[c].emp
=============================================================================
