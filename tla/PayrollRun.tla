----------------------------- MODULE PayrollRun -----------------------------
(***************************************************************************)
(* The monthly payroll of src/services/payroll.service.js and the money it  *)
(* settles: expense claims (expense.service.js), loan instalments           *)
(* (loan.service.js) and shoot settlements.                                 *)
(*                                                                         *)
(* generateOrganizationPayslips is one long request: it checks the month's   *)
(* locks, detaches what the previous payslips settled, and then, employee by *)
(* employee, computes a payslip and commits it with its claims, settlements  *)
(* and repayments in a transaction.  Claims, loans and payslips are reviewed *)
(* by other requests meanwhile, each of which reads first and writes later.  *)
(***************************************************************************)
EXTENDS Integers, FiniteSets, Functions

CONSTANTS
    Employees, Claims, Loans, Settlements,
    LastMonth,     \* bound: the payroll months are 1 .. LastMonth
    Amount,        \* what a loan is for
    Instalment,    \* its monthly recovery
    Runs,          \* generation requests in flight
    Slots,         \* reviews in flight
    Serial,        \* TRUE: payroll's own requests come one at a time
    Straddles,     \* TRUE: the payroll cycle starts in the month before
    None

ASSUME PayrollAssumption ==
    /\ LastMonth \in Nat /\ Amount \in Nat /\ Instalment \in Nat \ {0}
    /\ Serial \in BOOLEAN /\ Straddles \in BOOLEAN
    /\ None \notin Int /\ None \notin Employees /\ Employees # {}

VARIABLES
    slip,      \* the payslip of an employee and a month, or None
    claim,     \* the ExpenseClaim rows; month is that of the linked payslip
    loan,      \* the LoanAdvance rows
    repaid,    \* the LoanRepayment of a loan and a month; 0: no row
    settle,    \* the ShootSettlement rows
    run,       \* generation requests
    req,       \* reviews past their checks
    over       \* payroll months that have ended

vars == <<slip, claim, loan, repaid, settle, run, req, over>>

Months == 1 .. LastMonth
SlipStatuses == {"DRAFT", "PENDING_APPROVAL", "APPROVED", "REJECTED", "DISBURSED"}
LOCKED_PAYSLIP_STATUSES == {"APPROVED", "DISBURSED"}
LoanStatuses == {"NONE", "PENDING", "APPROVED", "REJECTED", "CLOSED"}
ClaimStatuses == {"NONE", "PENDING", "APPROVED", "REJECTED", "PAID", "GONE"}

ClaimRows == [emp : Employees, status : ClaimStatuses, month : Months \cup {None}]
LoanRows == [emp : Employees, status : LoanStatuses, outstanding : Nat]
SettlementRows == [emp : Employees, month : Months, calendar : Int,
                   status : {"NOT_READY", "READY", "PROCESSED"}]
(* A payslip pays claims and settlements and takes back instalments (due).  *)
Slips == [status : SlipStatuses, claims : SUBSET Claims, settled : SUBSET Settlements,
          due : [Loans -> Nat]]
ASSUME NoPayslipAssumption == None \notin Slips

(* seen: the balance of the loans the transaction is about to collect from.  *)
RunRecords == [month : Months, step : {"recycle", "compute", "begin", "commit"},
               todo : SUBSET Employees, emp : Employees \cup {None},
               claims : SUBSET Claims, settled : SUBSET Settlements, due : [Loans -> Nat],
               seen : [Loans -> Nat \cup {None}]]
ASSUME NoRunAssumption == None \notin RunRecords
Requests ==
    [op : {"claim"}, c : Claims, status : {"APPROVED", "REJECTED"}]
    \cup [op : {"cancel"}, c : Claims]
    \cup [op : {"loan"}, l : Loans, status : {"APPROVED", "REJECTED", "CLOSED"}]
    \cup [op : {"slip"}, emp : Employees, month : Months, status : SlipStatuses]

TypeOK ==
    /\ slip \in [Employees -> [Months -> Slips \cup {None}]]
    /\ claim \in [Claims -> ClaimRows]
    /\ loan \in [Loans -> LoanRows]
    /\ repaid \in [Loans -> [Months -> Nat]]
    /\ settle \in [Settlements -> SettlementRows]
    /\ run \in [Runs -> RunRecords \cup {None}]
    /\ req \in [Slots -> Requests \cup {None}]
    /\ over \in 0 .. LastMonth

(* A settlement's shoot day lies in a payroll month and a calendar month.    *)
Init ==
    /\ slip = [e \in Employees |-> [m \in Months |-> None]]
    /\ claim \in [Claims -> {[emp |-> e, status |-> "NONE", month |-> None] : e \in Employees}]
    /\ loan \in [Loans -> {[emp |-> e, status |-> "NONE", outstanding |-> Amount] : e \in Employees}]
    /\ repaid = [l \in Loans |-> [m \in Months |-> 0]]
    /\ settle \in [Settlements -> [emp : Employees, month : Months, calendar : 0 .. LastMonth,
                                   status : {"NOT_READY"}]]
    /\ \A x \in Settlements :
          settle[x].calendar \in {settle[x].month} \cup {n \in {settle[x].month - 1} : Straddles}
    /\ run = [g \in Runs |-> None]
    /\ req = [s \in Slots |-> None]
    /\ over = 0

-----------------------------------------------------------------------------
(* The calendar, and the records that the employees and their managers make. *)
MonthEnds ==
    /\ over < LastMonth
    /\ over' = over + 1
    /\ UNCHANGED <<slip, claim, loan, repaid, settle, run, req>>

ClaimSubmit(c) ==
    /\ claim[c].status = "NONE"
    /\ claim' = [claim EXCEPT ![c].status = "PENDING"]
    /\ UNCHANGED <<slip, loan, repaid, settle, run, req, over>>

LoanApply(l) ==
    /\ loan[l].status = "NONE"
    /\ loan' = [loan EXCEPT ![l].status = "PENDING"]
    /\ UNCHANGED <<slip, claim, repaid, settle, run, req, over>>

SettlementReady(x) ==
    /\ settle[x].status = "NOT_READY"
    /\ settle' = [settle EXCEPT ![x].status = "READY"]
    /\ UNCHANGED <<slip, claim, loan, repaid, run, req, over>>

(* A review checks the row it read ...                                      *)
Checks(s, r) ==
    /\ req[s] = None
    /\ req' = [req EXCEPT ![s] = r]
    /\ UNCHANGED <<slip, claim, loan, repaid, settle, run, over>>

ClaimReviewChecks(s, c, status) ==
    /\ claim[c].status \notin {"NONE", "GONE", "PAID"}
    /\ Checks(s, [op |-> "claim", c |-> c, status |-> status])

ClaimCancelChecks(s, c) ==
    /\ claim[c].status = "PENDING"
    /\ Checks(s, [op |-> "cancel", c |-> c])

LoanReviewChecks(s, l, status) ==
    /\ IF status = "CLOSED" THEN loan[l].status = "APPROVED" ELSE loan[l].status = "PENDING"
    /\ Checks(s, [op |-> "loan", l |-> l, status |-> status])

(* ... and then updates it by its id, whatever it has become.               *)
ClaimReviewCommits(s) ==
    /\ req[s] # None /\ req[s].op = "claim"
    /\ claim' = IF claim[req[s].c].status = "GONE" THEN claim
                ELSE [claim EXCEPT ![req[s].c].status = req[s].status]
    /\ req' = [req EXCEPT ![s] = None]
    /\ UNCHANGED <<slip, loan, repaid, settle, run, over>>

ClaimCancelCommits(s) ==
    /\ req[s] # None /\ req[s].op = "cancel"
    /\ claim' = [claim EXCEPT ![req[s].c].status = "GONE", ![req[s].c].month = None]
    /\ req' = [req EXCEPT ![s] = None]
    /\ UNCHANGED <<slip, loan, repaid, settle, run, over>>

(* MUTANT: the review writes back the whole row as it was applied for. *)
LoanReviewCommits_Row(s) ==
    /\ req[s] # None /\ req[s].op = "loan"
    /\ loan' = [loan EXCEPT ![req[s].l].status = req[s].status, ![req[s].l].outstanding = Amount]
    /\ req' = [req EXCEPT ![s] = None]
    /\ UNCHANGED <<slip, claim, repaid, settle, run, over>>

LoanReviewCommits(s) ==
    /\ req[s] # None /\ req[s].op = "loan"
    /\ loan' = [loan EXCEPT ![req[s].l].status = req[s].status]
    /\ req' = [req EXCEPT ![s] = None]
    /\ UNCHANGED <<slip, claim, repaid, settle, run, over>>

-----------------------------------------------------------------------------
(* With Serial, an administrator waits for an answer before the next request. *)
AdminFree ==
    Serial => /\ \A g \in Runs : run[g] = None
              /\ \A s \in Slots : req[s] # None => req[s].op # "slip"

Locked(e, m) == slip[e][m] # None /\ slip[e][m].status \in LOCKED_PAYSLIP_STATUSES

(* MUTANT: the lock of the month is not checked. *)
GenerateStarts_NoLock(g, m) ==
    /\ AdminFree /\ run[g] = None
    /\ m <= over
    /\ run' = [run EXCEPT ![g] = [month |-> m, step |-> "recycle", todo |-> Employees, emp |-> None,
                                  claims |-> {}, settled |-> {}, due |-> [l \in Loans |-> 0],
                                  seen |-> [l \in Loans |-> None]]]
    /\ UNCHANGED <<slip, claim, loan, repaid, settle, req, over>>

(* The month must be unlocked and over.                                     *)
GenerateStarts(g, m) ==
    /\ AdminFree /\ run[g] = None
    /\ \A e \in Employees : ~Locked(e, m)
    /\ m <= over
    /\ run' = [run EXCEPT ![g] = [month |-> m, step |-> "recycle", todo |-> Employees, emp |-> None,
                                  claims |-> {}, settled |-> {}, due |-> [l \in Loans |-> 0],
                                  seen |-> [l \in Loans |-> None]]]
    /\ UNCHANGED <<slip, claim, loan, repaid, settle, req, over>>

(* The claims, once those on some employees' payslips of a month are open again. *)
Detached(emps, m) ==
    [c \in Claims |-> IF claim[c].month = m /\ claim[c].emp \in emps
                      THEN [claim[c] EXCEPT !.month = None, !.status = "APPROVED"] ELSE claim[c]]

(* MUTANT: what the previous payslips settled stays attached to them.       *)
GenerateRecycles_Nothing(g) ==
    /\ run[g] # None /\ run[g].step = "recycle"
    /\ run' = [run EXCEPT ![g].step = "compute"]
    /\ UNCHANGED <<slip, claim, loan, repaid, settle, req, over>>

(* Claims are detached from the month's open payslips; settlements are       *)
(* reopened by the calendar month, not by the payroll cycle.                *)
GenerateRecycles(g) ==
    /\ run[g] # None /\ run[g].step = "recycle"
    /\ LET m == run[g].month
           recyclable == {e \in Employees : slip[e][m] # None /\ ~Locked(e, m)}
       IN  /\ claim' = Detached(recyclable, m)
           /\ settle' = [x \in Settlements |->
                           IF /\ settle[x].calendar = m /\ settle[x].emp \in recyclable
                              /\ settle[x].status = "PROCESSED"
                           THEN [settle[x] EXCEPT !.status = "READY"] ELSE settle[x]]
    /\ run' = [run EXCEPT ![g].step = "compute"]
    /\ UNCHANGED <<slip, loan, repaid, req, over>>

Smaller(a, b) == IF a <= b THEN a ELSE b

(* recoverForPayroll: loans that still owe; a month's posted amount repeats. *)
Recoverable(l, e) ==
    loan[l].emp = e /\ loan[l].status = "APPROVED" /\ loan[l].outstanding > 0
Due(e, m) ==
    [l \in Loans |-> IF ~Recoverable(l, e) THEN 0
                     ELSE IF repaid[l][m] # 0 THEN repaid[l][m]
                     ELSE Smaller(Instalment, loan[l].outstanding)]

OpenClaims(e) == {c \in Claims : claim[c].emp = e /\ claim[c].status = "APPROVED" /\ claim[c].month = None}

(* calculateEmployeePayroll, outside the transaction.                       *)
GenerateComputes(g, e) ==
    /\ run[g] # None /\ run[g].step = "compute" /\ e \in run[g].todo
    /\ run' = [run EXCEPT ![g].step = "begin", ![g].emp = e,
                          ![g].claims = OpenClaims(e),
                          ![g].settled = {x \in Settlements : /\ settle[x].emp = e
                                                              /\ settle[x].month = run[g].month
                                                              /\ settle[x].status = "READY"},
                          ![g].due = Due(e, run[g].month)]
    /\ UNCHANGED <<slip, claim, loan, repaid, settle, req, over>>

(* The run goes on with the employees that are left, or is over.            *)
Onward(g, e) ==
    LET left == run[g].todo \ {e}
    IN  run' = [run EXCEPT ![g] = IF left = {} THEN None
                                  ELSE [run[g] EXCEPT !.step = "compute", !.todo = left, !.emp = None]]

(* An employee whose payroll cannot be computed keeps the old payslip.      *)
GenerateSkips(g, e) ==
    /\ run[g] # None /\ run[g].step = "compute" /\ e \in run[g].todo
    /\ Onward(g, e)
    /\ UNCHANGED <<slip, claim, loan, repaid, settle, req, over>>

ToCollect(e, m) ==
    [l \in Loans |-> IF Recoverable(l, e) /\ repaid[l][m] = 0 THEN loan[l].outstanding ELSE None]

(* The transaction reads the balances it will write.                        *)
GenerateReads(g) ==
    /\ run[g] # None /\ run[g].step = "begin"
    /\ run' = [run EXCEPT ![g].step = "commit", ![g].seen = ToCollect(run[g].emp, run[g].month)]
    /\ UNCHANGED <<slip, claim, loan, repaid, settle, req, over>>

(* An instalment, or what is left.                                          *)
Collected(r, l) == Smaller(Instalment, r.seen[l])

(* A second repayment of a month breaks a unique key: the request fails.     *)
GenerateCommits(g) ==
    /\ run[g] # None /\ run[g].step = "commit"
    /\ LET r == run[g]
           posted == {l \in Loans : r.seen[l] # None}
       IN  IF \E l \in posted : repaid[l][r.month] # 0
           THEN /\ run' = [run EXCEPT ![g] = None]
                /\ UNCHANGED <<slip, claim, loan, repaid, settle>>
           ELSE /\ slip' = [slip EXCEPT ![r.emp][r.month] =
                               [status |-> "PENDING_APPROVAL", claims |-> r.claims,
                                settled |-> r.settled, due |-> r.due]]
                /\ claim' = [c \in Claims |->
                               IF c \in r.claims /\ claim[c].month = None /\ claim[c].status # "GONE"
                               THEN [claim[c] EXCEPT !.status = "PAID", !.month = r.month] ELSE claim[c]]
                /\ settle' = [x \in Settlements |->
                               IF x \in r.settled /\ settle[x].status = "READY"
                               THEN [settle[x] EXCEPT !.status = "PROCESSED"] ELSE settle[x]]
                /\ repaid' = [l \in Loans |->
                               IF l \in posted THEN [repaid[l] EXCEPT ![r.month] = Collected(r, l)]
                               ELSE repaid[l]]
                /\ loan' = [l \in Loans |->
                               IF l \in posted
                               THEN [loan[l] EXCEPT !.outstanding = r.seen[l] - Collected(r, l),
                                                    !.status = IF r.seen[l] = Collected(r, l)
                                                               THEN "CLOSED" ELSE "APPROVED"]
                               ELSE loan[l]]
                /\ Onward(g, r.emp)
    /\ UNCHANGED <<req, over>>

-----------------------------------------------------------------------------
(* The approval workflow of payslips.                                       *)
STATUS_TRANSITIONS(from) ==
    CASE from = "DRAFT" -> {"PENDING_APPROVAL", "APPROVED", "REJECTED"}
      [] from = "PENDING_APPROVAL" -> {"APPROVED", "REJECTED", "DRAFT"}
      [] from = "APPROVED" -> {"DISBURSED", "REJECTED"}
      [] from = "REJECTED" -> {"DRAFT", "PENDING_APPROVAL"}
      [] from = "DISBURSED" -> {}

(* One payslip is moved, or disbursed on its own.                           *)
SlipChecks(s, e, m, status) ==
    /\ AdminFree
    /\ slip[e][m] # None
    /\ status \in STATUS_TRANSITIONS(slip[e][m].status) \cup {slip[e][m].status}
    /\ Checks(s, [op |-> "slip", emp |-> e, month |-> m, status |-> status])

(* A rejection detaches the claims, in the same transaction.                *)
SlipCommits(s) ==
    /\ req[s] # None /\ req[s].op = "slip"
    /\ LET e == req[s].emp
           m == req[s].month
       IN  /\ slip' = [slip EXCEPT ![e][m].status = req[s].status]
           /\ claim' = IF req[s].status = "REJECTED" THEN Detached({e}, m) ELSE claim
    /\ req' = [req EXCEPT ![s] = None]
    /\ UNCHANGED <<loan, repaid, settle, run, over>>

Moved(m, from, to) ==
    slip' = [e \in Employees |->
               IF slip[e][m] # None /\ slip[e][m].status \in from
               THEN [slip[e] EXCEPT ![m].status = to] ELSE slip[e]]

ApproveBatch(m) ==
    /\ AdminFree
    /\ Moved(m, {"DRAFT", "PENDING_APPROVAL"}, "APPROVED")
    /\ UNCHANGED <<claim, loan, repaid, settle, run, req, over>>

DisburseBatch(m) ==
    /\ AdminFree
    /\ Moved(m, {"APPROVED"}, "DISBURSED")
    /\ UNCHANGED <<claim, loan, repaid, settle, run, req, over>>

Next ==
    \/ MonthEnds
    \/ \E c \in Claims : ClaimSubmit(c)
    \/ \E l \in Loans : LoanApply(l)
    \/ \E x \in Settlements : SettlementReady(x)
    \/ \E s \in Slots :
          \/ \E c \in Claims, status \in {"APPROVED", "REJECTED"} : ClaimReviewChecks(s, c, status)
          \/ \E c \in Claims : ClaimCancelChecks(s, c)
          \/ \E l \in Loans, status \in {"APPROVED", "REJECTED", "CLOSED"} : LoanReviewChecks(s, l, status)
          \/ \E e \in Employees, m \in Months, status \in SlipStatuses : SlipChecks(s, e, m, status)
          \/ ClaimReviewCommits(s)
          \/ ClaimCancelCommits(s)
          \/ LoanReviewCommits(s)
          \/ SlipCommits(s)
    \/ \E g \in Runs :
          \/ \E m \in Months : GenerateStarts(g, m)
          \/ GenerateRecycles(g)
          \/ \E e \in Employees : GenerateComputes(g, e) \/ GenerateSkips(g, e)
          \/ GenerateReads(g)
          \/ GenerateCommits(g)
    \/ \E m \in Months : ApproveBatch(m) \/ DisburseBatch(m)

Spec == Init /\ [][Next]_vars

-----------------------------------------------------------------------------
(* A claim that is attached to a payslip, and so never offered to another,   *)
(* is really paid by that payslip.                                          *)
LinkedIsReimbursed ==
    \A c \in Claims : claim[c].month # None =>
        slip[claim[c].emp][claim[c].month] # None /\ c \in slip[claim[c].emp][claim[c].month].claims

(* A settlement marked PROCESSED is in the payslip of its payroll month.     *)
ProcessedIsSettled ==
    \A x \in Settlements : settle[x].status = "PROCESSED" =>
        slip[settle[x].emp][settle[x].month] # None /\ x \in slip[settle[x].emp][settle[x].month].settled

(* recoverForPayroll: the repayments posted and the balance left make up the  *)
(* loan, however often a month is generated.                                *)
LedgerBalances ==
    \A l \in Loans : loan[l].outstanding + FoldFunction(+, 0, repaid[l]) = Amount

(* generateOrganizationPayslips refuses to "rewrite settled amounts", and     *)
(* "Disbursed is terminal".                                                 *)
SettledAmountsKept ==
    [][\A e \in Employees, m \in Months : Locked(e, m) =>
          /\ slip'[e][m] # None
          /\ slip'[e][m] = [slip[e][m] EXCEPT !.status = slip'[e][m].status]
          /\ slip[e][m].status = "DISBURSED" => slip'[e][m].status = "DISBURSED"]_vars

=============================================================================
