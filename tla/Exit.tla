--------------------------------- MODULE Exit ---------------------------------
(***************************************************************************)
(* How an employee leaves: src/services/offboarding.service.js, with the      *)
(* company's assets in asset.service.js, and the loan that the settlement     *)
(* recovers, which payroll recovers too.                                     *)
(*                                                                         *)
(* The leaver and three desks work at once, each on one request: a manager,   *)
(* an admin and the store of assets.  A handler reads first and writes in a   *)
(* later step.  Of the settlement only the recoveries are kept.             *)
(***************************************************************************)
EXTENDS Integers, FiniteSets

CONSTANTS
    Exits,      \* identities of exit records (bound: exits)
    Assets,     \* laptops
    Principal,  \* the loan
    MaxWork,    \* bound: requests
    None

ExitAssumption == Principal \in Nat /\ MaxWork \in Nat /\ None \notin Exits \cup Assets

VARIABLES
    person,    \* the leaver: Employee.status and User.isActive
    exit,      \* the EmployeeExit table
    items,     \* the EmployeeClearance rows of each exit
    settle,    \* the FinalSettlement of each exit
    loan,      \* the LoanAdvance row
    asset,     \* the Asset table, with the maintenance open and the last assignment logged
    req,       \* the request each desk has under way, and what it has read
    byPayroll, \* auxiliary: recovered by payroll
    recovered, \* auxiliary: deducted from the settlements that were paid
    charged,   \* auxiliary: exits for which an asset was returned with a charge
    work       \* requests so far

vars == <<person, exit, items, settle, loan, asset, req, byPayroll, recovered, charged, work>>

Desks == {"leaver", "manager", "admin", "store"}
Items == {"it", "other"}
Pending == {"RESIGNED", "UNDER_HR_REVIEW"}
ActiveNotice == {"NOTICE_PERIOD", "CLEARANCE_IN_PROGRESS", "SETTLEMENT_CALCULATED"}
Stages == Pending \cup ActiveNotice \cup {"TERMINATED", "REJECTED", "WITHDRAWN"}
ItemStatuses == {"PENDING", "CLEARED", "RECOVERABLE_DUE"}
AssetStatuses == {"AVAILABLE", "ASSIGNED", "UNDER_MAINTENANCE", "DAMAGED"}
Holders == {"leaver", "colleague"}

EmployeeExit == [stage : Stages, resigned : BOOLEAN]
Clearance == [status : ItemStatuses, owed : {0, 1}]
FinalSettlement == [paid : BOOLEAN, recovery : 0 .. 2, loan : 0 .. Principal]
LoanAdvance == [open : BOOLEAN, left : 0 .. Principal]
AssetRows == [status : AssetStatuses, holder : Holders \cup {None}, fixing : BOOLEAN, logged : Holders \cup {None}]

TypeOK ==
    /\ person \in [status : {"ACTIVE", "NOTICE_PERIOD", "TERMINATED"}, login : BOOLEAN]
    /\ exit \in [Exits -> EmployeeExit \cup {None}]
    /\ items \in [Exits -> [Items -> Clearance \cup {None}]]
    /\ settle \in [Exits -> FinalSettlement \cup {None}]
    /\ loan \in LoanAdvance
    /\ asset \in [Assets -> AssetRows \cup {None}]
    /\ DOMAIN req = Desks /\ {byPayroll, recovered} \subseteq Nat /\ charged \subseteq Exits
    /\ work \in 0 .. MaxWork

NoReq == [op |-> "none"]
Init ==
    /\ person = [status |-> "ACTIVE", login |-> TRUE]
    /\ exit = [x \in Exits |-> None] /\ items = [x \in Exits |-> [i \in Items |-> None]]
    /\ settle = [x \in Exits |-> None] /\ loan = [open |-> TRUE, left |-> Principal]
    /\ asset = [a \in Assets |-> None]
    /\ req = [d \in Desks |-> NoReq] /\ byPayroll = 0 /\ recovered = 0 /\ charged = {}
    /\ work = 0

Known == {x \in Exits : exit[x] # None}
Working == person.status \in {"ACTIVE", "NOTICE_PERIOD"}

Free(d) == req[d] = NoReq /\ work < MaxWork
Starts(d, r) ==
    /\ Free(d) /\ work' = work + 1
    /\ req' = [req EXCEPT ![d] = r]
    /\ UNCHANGED <<person, exit, items, settle, loan, asset, byPayroll, recovered, charged>>
Becomes(d, r) == req' = [req EXCEPT ![d] = r] /\ UNCHANGED work
Ends(d) == Becomes(d, NoReq)
ToStage(x, stage) == exit' = [exit EXCEPT ![x].stage = stage]

-----------------------------------------------------------------------------
(* Resignation, termination and review *)

InitiateReads(d) ==
    /\ d \in {"leaver", "manager"}
    /\ \A x \in Known : exit[x].stage \in {"TERMINATED", "REJECTED", "WITHDRAWN"}
    /\ Starts(d, [op |-> "initiate"])

(* A termination by HR is in its notice at once; the rows of the clearance come  *)
(* one by one after the transaction.                                            *)
InitiateCommits(d) ==
    /\ req[d].op = "initiate" /\ Known # Exits
    /\ LET x == CHOOSE x \in Exits : x \notin Known
           resigned == d = "leaver"
       IN /\ exit' = [exit EXCEPT ![x] = [stage |-> IF resigned THEN "RESIGNED" ELSE "NOTICE_PERIOD",
                                          resigned |-> resigned]]
          /\ person' = IF resigned THEN person ELSE [person EXCEPT !.status = "NOTICE_PERIOD"]
          /\ Becomes(d, [op |-> "items", exit |-> x])
    /\ UNCHANGED <<items, settle, loan, asset, byPayroll, recovered, charged>>

ItemCreates(d) ==
    /\ req[d].op = "items"
    /\ LET x == req[d].exit
           i == IF items[x]["it"] = None THEN "it" ELSE "other"
       IN /\ items' = [items EXCEPT ![x][i] = [status |-> "PENDING", owed |-> 0]]
          /\ IF i = "it" THEN UNCHANGED <<req, work>> ELSE Ends(d)
    /\ UNCHANGED <<person, exit, settle, loan, asset, byPayroll, recovered, charged>>

ReviewReads(d, x, to) ==
    /\ x \in Known /\ exit[x].stage \in Pending
    /\ IF to = "UNDER_HR_REVIEW" THEN exit[x].stage = "RESIGNED" ELSE d = "admin"
    /\ Starts(d, [op |-> "review", exit |-> x, to |-> to])

ReviewCommits(d) ==
    /\ req[d].op = "review"
    /\ ToStage(req[d].exit, req[d].to)
    /\ person' = IF req[d].to = "NOTICE_PERIOD" THEN [person EXCEPT !.status = "NOTICE_PERIOD"] ELSE person
    /\ Ends(d)
    /\ UNCHANGED <<items, settle, loan, asset, byPayroll, recovered, charged>>

WithdrawReads(x) ==
    /\ x \in Known /\ exit[x].resigned /\ exit[x].stage \in Pending
    /\ Starts("leaver", [op |-> "withdraw", exit |-> x])

WithdrawCommits ==
    /\ req["leaver"].op = "withdraw"
    /\ ToStage(req["leaver"].exit, "WITHDRAWN")
    /\ Ends("leaver")
    /\ UNCHANGED <<person, items, settle, loan, asset, byPayroll, recovered, charged>>

-----------------------------------------------------------------------------
(* Clearance *)

ClearReads(d, x, i) ==
    /\ x \in Known /\ items[x][i] # None /\ exit[x].stage \in ActiveNotice
    /\ Starts(d, [op |-> "clear", exit |-> x, item |-> i])

(* The stage is read again after the row is written, and written last. *)
ClearCommits(d) ==
    /\ req[d].op = "clear"
    /\ LET x == req[d].exit IN
       /\ \E status \in ItemStatuses, owed \in {0, 1} :
            items' = [items EXCEPT ![x][req[d].item] = [status |-> status, owed |-> owed]]
       /\ IF exit[x].stage = "NOTICE_PERIOD" THEN Becomes(d, [op |-> "advance", exit |-> x]) ELSE Ends(d)
    /\ UNCHANGED <<person, exit, settle, loan, asset, byPayroll, recovered, charged>>

Advance(d) ==
    /\ req[d].op = "advance"
    /\ ToStage(req[d].exit, "CLEARANCE_IN_PROGRESS")
    /\ Ends(d)
    /\ UNCHANGED <<person, items, settle, loan, asset, byPayroll, recovered, charged>>

-----------------------------------------------------------------------------
(* Settlement *)

Owed(x) == (IF items[x]["it"] = None THEN 0 ELSE items[x]["it"].owed)
         + (IF items[x]["other"] = None THEN 0 ELSE items[x]["other"].owed)

outstandingForEmployee == IF loan.open THEN loan.left ELSE 0

(* The recovery of the loan is what is owed, or whatever amount is entered. *)
CalculateReads(d, x, part) ==
    /\ x \in Known
    /\ settle[x] # None => ~settle[x].paid
    /\ Starts(d, [op |-> "calculate", exit |-> x, recovery |-> Owed(x), loan |-> part,
                  stage |-> exit[x].stage])

(* The upsert sets the amounts and leaves the status of a row that is there. *)
CalculateCommits(d) ==
    /\ req[d].op = "calculate"
    /\ LET r == req[d]
           paid == settle[r.exit] # None /\ settle[r.exit].paid
       IN /\ settle' = [settle EXCEPT ![r.exit] = [paid |-> paid, recovery |-> r.recovery, loan |-> r.loan]]
          /\ IF r.stage = "TERMINATED" THEN UNCHANGED exit ELSE ToStage(r.exit, "SETTLEMENT_CALCULATED")
    /\ Ends(d)
    /\ UNCHANGED <<person, items, loan, asset, byPayroll, recovered, charged>>

DisburseReads(x) ==
    /\ x \in Known /\ settle[x] # None
    /\ ~settle[x].paid
    /\ Starts("admin", [op |-> "disburse", exit |-> x])

(* MUTANT: any recovery closes the loans. *)
LoanAfter_Any(part) ==
    IF outstandingForEmployee > 0 /\ part > 0 THEN [open |-> FALSE, left |-> 0] ELSE loan

(* Loans are closed when the settlement recovered at least what is owed now. *)
LoanAfter(part) ==
    IF outstandingForEmployee > 0 /\ part >= outstandingForEmployee THEN [open |-> FALSE, left |-> 0] ELSE loan

(* MUTANT: the handler ends with the transaction. *)
DisburseCommits_Ends ==
    /\ req["admin"].op = "disburse"
    /\ LET x == req["admin"].exit IN
       /\ settle' = [settle EXCEPT ![x].paid = TRUE]
       /\ ToStage(x, "TERMINATED")
       /\ person' = [person EXCEPT !.status = "TERMINATED"]
       /\ loan' = LoanAfter(settle[x].loan)
       /\ recovered' = recovered + settle[x].loan
    /\ Ends("admin")
    /\ UNCHANGED <<items, asset, byPayroll, charged>>

DisburseCommits ==
    /\ req["admin"].op = "disburse"
    /\ LET x == req["admin"].exit IN
       /\ settle' = [settle EXCEPT ![x].paid = TRUE]
       /\ ToStage(x, "TERMINATED")
       /\ person' = [person EXCEPT !.status = "TERMINATED"]
       /\ loan' = LoanAfter(settle[x].loan)
       /\ recovered' = recovered + settle[x].loan
    /\ Becomes("admin", [op |-> "signoff"])
    /\ UNCHANGED <<items, asset, byPayroll, charged>>

(* After the transaction: the login, and the refresh tokens. *)
SignOff ==
    /\ req["admin"].op = "signoff"
    /\ person' = [person EXCEPT !.login = FALSE]
    /\ Ends("admin")
    /\ UNCHANGED <<exit, items, settle, loan, asset, byPayroll, recovered, charged>>

(* recoverForPayroll, while payroll still counts the leaver. *)
Payroll ==
    /\ Working /\ outstandingForEmployee > 0
    /\ loan' = [open |-> loan.left > 1, left |-> loan.left - 1]
    /\ byPayroll' = byPayroll + 1
    /\ UNCHANGED <<person, exit, items, settle, asset, req, recovered, charged, work>>

-----------------------------------------------------------------------------
(* Assets *)

Stored == UNCHANGED <<person, exit, items, settle, loan, byPayroll, recovered>>
Put(a, status, holder, fixing, logged) ==
    asset' = [asset EXCEPT ![a] = [status |-> status, holder |-> holder, fixing |-> fixing, logged |-> logged]]
AtOnce == Free("store") /\ work' = work + 1 /\ UNCHANGED req

(* Whoever gets an asset is found working before it is written. *)
HandReads(a, h) ==
    /\ h = "leaver" => Working
    /\ IF asset[a] = None THEN TRUE
       ELSE \/ asset[a].status = "AVAILABLE" /\ asset[a].holder = None      \* assertAssignable
            \/ asset[a].status = "ASSIGNED" /\ asset[a].holder \notin {None, h}  \* assertTransferable
    /\ Starts("store", [op |-> "hand", asset |-> a, to |-> h])

(* createAsset with an employee, assignAsset and transferAsset: the asset, then  *)
(* the log.                                                                     *)
HandCommits ==
    /\ req["store"].op = "hand"
    /\ LET r == req["store"]
           fixing == asset[r.asset] # None /\ asset[r.asset].fixing
       IN Put(r.asset, "ASSIGNED", r.to, fixing, r.to)
    /\ Ends("store") /\ Stored /\ UNCHANGED charged

createAsset(a) ==
    /\ asset[a] = None
    /\ Put(a, "AVAILABLE", None, FALSE, None)
    /\ AtOnce /\ Stored /\ UNCHANGED charged

(* The status may be edited while nobody holds the asset, but not to ASSIGNED. *)
updateAsset(a, status) ==
    /\ asset[a] # None /\ asset[a].holder = None /\ status # "ASSIGNED"
    /\ asset' = [asset EXCEPT ![a].status = status]
    /\ AtOnce /\ Stored /\ UNCHANGED charged

deleteAsset(a) ==
    /\ asset[a] # None /\ asset[a].status # "ASSIGNED"
    /\ asset' = [asset EXCEPT ![a] = None]
    /\ AtOnce /\ Stored /\ UNCHANGED charged

(* The columns of EmployeeClearance; an update that names another is refused. *)
Columns == {"status", "recoveryAmount", "clearedBy", "clearedAt", "remarks"}
Written == {"status", "clearedAt", "clearedBy", "clearanceNotes", "dueAmount"}

(* The asset and the log are written before the clearance of the notice is.     *)
returnAsset(a, condition, charge) ==
    /\ asset[a] # None /\ asset[a].holder # None
    /\ Put(a, condition, None, asset[a].fixing, None)
    /\ LET noticed == {x \in Known : asset[a].holder = "leaver" /\ items[x]["it"] # None
                                       /\ exit[x].stage \in {"NOTICE_PERIOD", "CLEARANCE_IN_PROGRESS"}}
       IN /\ charged' = IF charge > 0 THEN charged \cup noticed ELSE charged
          /\ items' = IF Written \subseteq Columns
                      THEN [x \in Exits |-> IF x \notin noticed THEN items[x]
                              ELSE [items[x] EXCEPT !["it"] =
                                      [status |-> IF charge > 0 THEN "RECOVERABLE_DUE" ELSE "CLEARED",
                                       owed |-> charge]]]
                      ELSE items
    /\ AtOnce /\ UNCHANGED <<person, exit, settle, loan, byPayroll, recovered>>

logMaintenance(a) ==
    /\ asset[a] # None
    /\ asset' = [asset EXCEPT ![a].fixing = TRUE, ![a].status = "UNDER_MAINTENANCE"]
    /\ AtOnce /\ Stored /\ UNCHANGED charged

(* MUTANT: the asset goes back on the shelf, whoever holds it. *)
StatusAfterMaintenance_Shelf(a) == "AVAILABLE"

StatusAfterMaintenance(a) == IF asset[a].holder # None THEN "ASSIGNED" ELSE "AVAILABLE"

completeMaintenance(a) ==
    /\ asset[a] # None /\ asset[a].fixing
    /\ asset' = [asset EXCEPT ![a].fixing = FALSE, ![a].status = StatusAfterMaintenance(a)]
    /\ AtOnce /\ Stored /\ UNCHANGED charged

-----------------------------------------------------------------------------
Leaving ==
    \/ \E d \in {"leaver", "manager"} : InitiateReads(d) \/ InitiateCommits(d) \/ ItemCreates(d)
    \/ \E x \in Exits : WithdrawReads(x)
    \/ WithdrawCommits

Desk == \E d \in {"manager", "admin"} :
    \/ \E x \in Exits :
         \/ \E to \in {"UNDER_HR_REVIEW", "NOTICE_PERIOD", "REJECTED"} : ReviewReads(d, x, to)
         \/ \E i \in Items : ClearReads(d, x, i)
         \/ \E part \in 0 .. Principal : CalculateReads(d, x, part)
    \/ ReviewCommits(d) \/ ClearCommits(d) \/ Advance(d) \/ CalculateCommits(d)

Store ==
    \/ \E a \in Assets :
         \/ \E h \in Holders : HandReads(a, h)
         \/ createAsset(a) \/ deleteAsset(a) \/ logMaintenance(a) \/ completeMaintenance(a)
         \/ \E status \in AssetStatuses : updateAsset(a, status)
         \/ \E condition \in {"AVAILABLE", "DAMAGED"}, charge \in {0, 1} : returnAsset(a, condition, charge)
    \/ HandCommits

Next == Leaving \/ Desk \/ Store \/ (\E x \in Exits : DisburseReads(x)) \/ DisburseCommits \/ SignOff \/ Payroll

(* A request that has begun goes on; nothing says that one is ever made. *)
Fairness == WF_vars(DisburseCommits) /\ WF_vars(SignOff)
Spec == Init /\ [][Next]_vars /\ Fairness

-----------------------------------------------------------------------------
(* A loan is closed only when payroll and the paid settlements recovered all of  *)
(* it, however long before the payment the settlement was calculated, and        *)
(* whatever payroll recovered since.                                            *)
LoanNeverForgiven == ~loan.open => byPayroll + recovered >= Principal

(* Whoever is terminated by a settlement loses the login, whatever else the      *)
(* desks do meanwhile.                                                           *)
LeaverSignedOff == person.status = "TERMINATED" ~> ~person.login

(* After any sequence of legal calls, an asset is out exactly when somebody      *)
(* holds it, and the last entry of its log names the holder.                     *)
CustodyAgrees ==
    \A a \in Assets : asset[a] # None =>
        /\ asset[a].status = "ASSIGNED" => asset[a].holder # None
        /\ asset[a].holder # None => asset[a].status \in {"ASSIGNED", "UNDER_MAINTENANCE"}
        /\ asset[a].logged = asset[a].holder

=============================================================================
