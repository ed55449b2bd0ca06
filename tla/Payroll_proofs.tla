---------------------------- MODULE Payroll_proofs ----------------------------
(***************************************************************************)
(* Proofs about both sides of payroll: about PayrollRun for any employees,   *)
(* claims, loans, settlements, months and requests in flight, and about      *)
(* PayrollDays for every calendar whose months have at least one day, every   *)
(* pair of cycle days and every record of every day; and about Exit, whose     *)
(* last settlement recovers a loan and whose leaver hands assets back, for     *)
(* any exits, assets, principal and requests.                                *)
(***************************************************************************)
EXTENDS MCPayroll, MCExit, Sums_proofs

(* A payslip under review exists: payslips are never deleted.               *)
ReviewedExists ==
    \A s \in Slots : req[s] # None /\ req[s].op = "slip" => slip[req[s].emp][req[s].month] # None

(* The employee whose payslip is being made is still on the run's list.     *)
RunPick ==
    \A g \in Runs : run[g] # None /\ run[g].step \in {"begin", "commit"} => run[g].emp \in run[g].todo

TypeInv == TypeOK /\ ReviewedExists /\ RunPick

LEMMA SmallerNat == \A a, b \in Nat : Smaller(a, b) \in Nat /\ a - Smaller(b, a) \in Nat
  BY DEF Smaller

(* Rows stay rows when some of their fields change.                         *)
LEMMA ClaimMoves ==
  ASSUME NEW r \in ClaimRows, NEW st \in ClaimStatuses, NEW m \in Months \cup {None}
  PROVE  /\ [r EXCEPT !.status = st] \in ClaimRows
         /\ [r EXCEPT !.month = m, !.status = st] \in ClaimRows
         /\ [r EXCEPT !.status = st, !.month = m] \in ClaimRows
         /\ [r EXCEPT !.status = st, !.month = m].emp = r.emp
         /\ [r EXCEPT !.month = m, !.status = st].emp = r.emp
         /\ [r EXCEPT !.status = st, !.month = m].month = m
         /\ [r EXCEPT !.month = m, !.status = st].month = m
BY DEF ClaimRows

LEMMA LoanMoves ==
  ASSUME NEW r \in LoanRows, NEW st \in LoanStatuses, NEW n \in Nat
  PROVE  /\ [r EXCEPT !.status = st] \in LoanRows
         /\ [r EXCEPT !.outstanding = n, !.status = st] \in LoanRows
BY DEF LoanRows

LEMMA DetachedTyped ==
  ASSUME TypeOK, NEW emps, NEW m
  PROVE  Detached(emps, m) \in [Claims -> ClaimRows]
<1>1. \A c \in Claims : [claim[c] EXCEPT !.month = None, !.status = "APPROVED"] \in ClaimRows
  BY ClaimMoves DEF TypeOK, ClaimStatuses
<1> QED
  BY <1>1 DEF Detached, TypeOK

(* A step keeps the types of all it leaves alone. *)
LEMMA ReviewsTyped ==
  ASSUME TypeOK, NEW s \in Slots,
         \/ \E c \in Claims, status \in {"APPROVED", "REJECTED"} : ClaimReviewChecks(s, c, status)
         \/ \E c \in Claims : ClaimCancelChecks(s, c)
         \/ \E l \in Loans, status \in {"APPROVED", "REJECTED", "CLOSED"} : LoanReviewChecks(s, l, status)
         \/ \E e \in Employees, m \in Months, status \in SlipStatuses : SlipChecks(s, e, m, status)
  PROVE  TypeOK'
<1>1. PICK r \in Requests : Checks(s, r)
  BY DEF ClaimReviewChecks, ClaimCancelChecks, LoanReviewChecks, SlipChecks, Requests
<1> QED
  BY <1>1 DEF Checks, TypeOK

LEMMA CommitsTyped ==
  ASSUME TypeOK, ReviewedExists, NEW s \in Slots,
         ClaimReviewCommits(s) \/ ClaimCancelCommits(s) \/ LoanReviewCommits(s) \/ SlipCommits(s)
  PROVE  TypeOK'
<1>1. req' \in [Slots -> Requests \cup {None}]
  BY DEF TypeOK, ClaimReviewCommits, ClaimCancelCommits, LoanReviewCommits, SlipCommits
<1>2. req[s] # None /\ req[s] \in Requests
  BY DEF TypeOK, ClaimReviewCommits, ClaimCancelCommits, LoanReviewCommits, SlipCommits
<1>3. CASE ClaimReviewCommits(s)
  <2>1. req[s].c \in Claims /\ req[s].status \in ClaimStatuses
    BY <1>2, <1>3 DEF ClaimReviewCommits, Requests, ClaimStatuses
  <2> QED
    BY <1>1, <1>3, <2>1, ClaimMoves DEF TypeOK, ClaimReviewCommits
<1>4. CASE ClaimCancelCommits(s)
  <2>1. req[s].c \in Claims /\ claim[req[s].c] \in ClaimRows
    BY <1>2, <1>4 DEF ClaimCancelCommits, Requests, TypeOK
  <2>2. claim' = [claim EXCEPT ![req[s].c] = [claim[req[s].c] EXCEPT !.status = "GONE", !.month = None]]
    BY <1>4, <2>1 DEF ClaimCancelCommits, TypeOK, ClaimRows
  <2>3. [claim[req[s].c] EXCEPT !.status = "GONE", !.month = None] \in ClaimRows
    BY <2>1, ClaimMoves DEF ClaimStatuses
  <2> QED
    BY <1>1, <1>4, <2>1, <2>2, <2>3 DEF TypeOK, ClaimCancelCommits
<1>5. CASE LoanReviewCommits(s)
  <2>1. req[s].l \in Loans /\ req[s].status \in LoanStatuses
    BY <1>2, <1>5 DEF LoanReviewCommits, Requests, LoanStatuses
  <2> QED
    BY <1>1, <1>5, <2>1, LoanMoves DEF TypeOK, LoanReviewCommits
<1>6. CASE SlipCommits(s)
  <2> DEFINE e == req[s].emp
             m == req[s].month
             status == req[s].status
  <2>1. e \in Employees /\ m \in Months /\ status \in SlipStatuses
    BY <1>2, <1>6 DEF SlipCommits, Requests
  <2>2. claim' \in [Claims -> ClaimRows]
    BY <1>6, DetachedTyped DEF SlipCommits, TypeOK
  <2>3. slip' = [slip EXCEPT ![e] = [slip[e] EXCEPT ![m] = [slip[e][m] EXCEPT !.status = status]]]
    BY <1>6 DEF SlipCommits
  <2>4. slip[e][m] \in Slips
    BY <1>6, <2>1 DEF TypeOK, ReviewedExists, SlipCommits
  <2> HIDE DEF e, m, status
  <2>5. [slip[e][m] EXCEPT !.status = status] \in Slips
    BY <2>1, <2>4 DEF Slips
  <2>6. slip' \in [Employees -> [Months -> Slips \cup {None}]]
    BY <2>1, <2>3, <2>5 DEF TypeOK
  <2>7. UNCHANGED <<loan, repaid, settle, run, over>>
    BY <1>6 DEF SlipCommits
  <2> QED
    BY <1>1, <2>2, <2>6, <2>7 DEF TypeOK
<1> QED
  BY <1>3, <1>4, <1>5, <1>6

(* The steps of a generation request. *)
LEMMA RunsTyped ==
  ASSUME TypeOK, NEW g \in Runs,
         \/ \E m \in Months : GenerateStarts(g, m)
         \/ GenerateRecycles(g)
         \/ \E e \in Employees : GenerateComputes(g, e) \/ GenerateSkips(g, e)
         \/ GenerateReads(g)
  PROVE  TypeOK'
<1>1. CASE \E m \in Months : GenerateStarts(g, m)
  <2>1. PICK m \in Months : GenerateStarts(g, m)
    BY <1>1
  <2> DEFINE r == [month |-> m, step |-> "recycle", todo |-> Employees, emp |-> None,
                   claims |-> {}, settled |-> {}, due |-> [l \in Loans |-> 0],
                   seen |-> [l \in Loans |-> None]]
  <2>2. r \in RunRecords
    BY DEF RunRecords
  <2>3. run' = [run EXCEPT ![g] = r]
    BY <2>1 DEF GenerateStarts
  <2> HIDE DEF r
  <2> QED
    BY <2>1, <2>2, <2>3 DEF GenerateStarts, TypeOK
<1>2. CASE GenerateRecycles(g)
  <2>1. run[g] \in RunRecords
    BY <1>2 DEF GenerateRecycles, TypeOK
  <2>2. [run[g] EXCEPT !.step = "compute"] \in RunRecords
    BY <2>1 DEF RunRecords
  <2>3. run' = [run EXCEPT ![g] = [run[g] EXCEPT !.step = "compute"]]
    BY <1>2 DEF GenerateRecycles
  <2>4. claim' \in [Claims -> ClaimRows]
    BY <1>2, DetachedTyped DEF GenerateRecycles
  <2>5. settle' \in [Settlements -> SettlementRows]
    <3>1. \A x \in Settlements : [settle[x] EXCEPT !.status = "READY"] \in SettlementRows
      BY DEF TypeOK, SettlementRows
    <3> QED
      BY <1>2, <3>1 DEF GenerateRecycles, TypeOK
  <2>6. UNCHANGED <<slip, loan, repaid, req, over>>
    BY <1>2 DEF GenerateRecycles
  <2> QED
    BY <2>2, <2>3, <2>4, <2>5, <2>6 DEF TypeOK
<1>3. ASSUME NEW e \in Employees, GenerateComputes(g, e) PROVE TypeOK'
  <2> DEFINE cs == OpenClaims(e)
             xs == {x \in Settlements : /\ settle[x].emp = e /\ settle[x].month = run[g].month
                                        /\ settle[x].status = "READY"}
             ds == Due(e, run[g].month)
             r == [run[g] EXCEPT !.step = "begin", !.emp = e, !.claims = cs, !.settled = xs, !.due = ds]
  <2>1. run[g] \in RunRecords /\ run[g].month \in Months
    BY <1>3 DEF GenerateComputes, TypeOK, RunRecords
  <2>2. cs \in SUBSET Claims /\ xs \in SUBSET Settlements
    BY DEF OpenClaims
  <2>3. ds \in [Loans -> Nat]
    <3>1. \A l \in Loans : loan[l].outstanding \in Nat /\ Instalment \in Nat
      BY PayrollAssumption DEF TypeOK, LoanRows
    <3>2. \A l \in Loans : repaid[l][run[g].month] \in Nat /\ Smaller(Instalment, loan[l].outstanding) \in Nat
      BY <2>1, <3>1, SmallerNat DEF TypeOK
    <3> QED
      BY <3>2 DEF Due
  <2>4. run' = [run EXCEPT ![g] = r]
    BY <1>3 DEF GenerateComputes
  <2> HIDE DEF cs, xs, ds
  <2>5. r \in RunRecords
    BY <2>1, <2>2, <2>3 DEF RunRecords
  <2> HIDE DEF r
  <2>6. run' \in [Runs -> RunRecords \cup {None}]
    BY <2>4, <2>5 DEF TypeOK
  <2> QED
    BY <1>3, <2>6 DEF GenerateComputes, TypeOK
<1>4. ASSUME NEW e \in Employees, GenerateSkips(g, e) PROVE TypeOK'
  <2> DEFINE left == run[g].todo \ {e}
             r == [run[g] EXCEPT !.step = "compute", !.todo = left, !.emp = None]
  <2>1. run[g] \in RunRecords
    BY <1>4 DEF GenerateSkips, TypeOK
  <2>2. r \in RunRecords
    BY <2>1 DEF RunRecords
  <2>3. run' = [run EXCEPT ![g] = IF left = {} THEN None ELSE r]
    BY <1>4 DEF GenerateSkips, Onward
  <2> HIDE DEF left, r
  <2>4. run' \in [Runs -> RunRecords \cup {None}]
    BY <2>2, <2>3 DEF TypeOK
  <2> QED
    BY <1>4, <2>4 DEF GenerateSkips, TypeOK
<1>5. CASE GenerateReads(g)
  <2>1. run[g] \in RunRecords
    BY <1>5 DEF GenerateReads, TypeOK
  <2>2. ToCollect(run[g].emp, run[g].month) \in [Loans -> Nat \cup {None}]
    BY DEF ToCollect, TypeOK, LoanRows
  <2>3. [run[g] EXCEPT !.step = "commit", !.seen = ToCollect(run[g].emp, run[g].month)] \in RunRecords
    BY <2>1, <2>2 DEF RunRecords
  <2>4. run' = [run EXCEPT ![g] = [run[g] EXCEPT !.step = "commit",
                                                 !.seen = ToCollect(run[g].emp, run[g].month)]]
    BY <1>5 DEF GenerateReads
  <2> QED
    BY <1>5, <2>3, <2>4 DEF GenerateReads, TypeOK
<1> QED
  BY <1>1, <1>2, <1>3, <1>4, <1>5

(* A run's transaction. *)
LEMMA GenerationTyped ==
  ASSUME TypeOK, NEW g \in Runs, GenerateCommits(g), run[g].emp \in Employees
  PROVE  TypeOK'
<1> DEFINE r == run[g]
           posted == {l \in Loans : r.seen[l] # None}
           next == [status |-> "PENDING_APPROVAL", claims |-> r.claims,
                    settled |-> r.settled, due |-> r.due]
           left == r.todo \ {r.emp}
           rest == [r EXCEPT !.step = "compute", !.todo = left, !.emp = None]
<1>1. r \in RunRecords /\ r.month \in Months /\ r.emp \in Employees
  BY DEF GenerateCommits, TypeOK, RunRecords
<1>2. UNCHANGED <<req, over>>
  BY DEF GenerateCommits
<1>3. \A l \in posted : /\ Collected(r, l) \in Nat
                        /\ r.seen[l] - Collected(r, l) \in Nat
  BY <1>1, PayrollAssumption, SmallerNat DEF Collected, RunRecords
<1>4. CASE \E l \in posted : repaid[l][r.month] # 0
  <2>1. run' = [run EXCEPT ![g] = None] /\ UNCHANGED <<slip, claim, loan, repaid, settle>>
    BY <1>4 DEF GenerateCommits
  <2> QED
    BY <1>2, <2>1 DEF TypeOK
<1>5. CASE ~\E l \in posted : repaid[l][r.month] # 0
  <2>1. /\ slip' = [slip EXCEPT ![r.emp][r.month] = next]
        /\ claim' = [c \in Claims |->
                        IF c \in r.claims /\ claim[c].month = None /\ claim[c].status # "GONE"
                        THEN [claim[c] EXCEPT !.status = "PAID", !.month = r.month] ELSE claim[c]]
        /\ settle' = [x \in Settlements |->
                        IF x \in r.settled /\ settle[x].status = "READY"
                        THEN [settle[x] EXCEPT !.status = "PROCESSED"] ELSE settle[x]]
        /\ repaid' = [l \in Loans |->
                        IF l \in posted THEN [repaid[l] EXCEPT ![r.month] = Collected(r, l)]
                        ELSE repaid[l]]
        /\ loan' = [l \in Loans |->
                        IF l \in posted
                        THEN [loan[l] EXCEPT !.outstanding = r.seen[l] - Collected(r, l),
                                             !.status = IF r.seen[l] = Collected(r, l)
                                                        THEN "CLOSED" ELSE "APPROVED"]
                        ELSE loan[l]]
        /\ run' = [run EXCEPT ![g] = IF left = {} THEN None ELSE rest]
    BY <1>5 DEF GenerateCommits, Onward
  <2>2. slip' \in [Employees -> [Months -> Slips \cup {None}]]
    <3>1. next \in Slips
      BY <1>1 DEF RunRecords, Slips, SlipStatuses
    <3>2. slip' = [slip EXCEPT ![r.emp] = [slip[r.emp] EXCEPT ![r.month] = next]]
      BY <2>1
    <3> HIDE DEF next, r
    <3> QED
      BY <1>1, <3>1, <3>2 DEF TypeOK
  <2>3. claim' \in [Claims -> ClaimRows]
    <3>1. \A c \in Claims : [claim[c] EXCEPT !.status = "PAID", !.month = r.month] \in ClaimRows
      BY <1>1, ClaimMoves DEF TypeOK, ClaimStatuses
    <3> HIDE DEF r
    <3> QED
      BY <2>1, <3>1 DEF TypeOK
  <2>4. settle' \in [Settlements -> SettlementRows]
    <3>1. \A x \in Settlements : [settle[x] EXCEPT !.status = "PROCESSED"] \in SettlementRows
      BY DEF TypeOK, SettlementRows
    <3> HIDE DEF r
    <3> QED
      BY <2>1, <3>1 DEF TypeOK
  <2>5. repaid' \in [Loans -> [Months -> Nat]]
    <3> HIDE DEF r, posted
    <3> QED
      BY <1>1, <1>3, <2>1 DEF TypeOK
  <2>6. loan' \in [Loans -> LoanRows]
    <3> DEFINE st(l) == IF r.seen[l] = Collected(r, l) THEN "CLOSED" ELSE "APPROVED"
               n(l) == r.seen[l] - Collected(r, l)
    <3>1. \A l \in posted : [loan[l] EXCEPT !.outstanding = n(l), !.status = st(l)] \in LoanRows
      <4> TAKE l \in posted
      <4>1. loan[l] \in LoanRows /\ st(l) \in LoanStatuses /\ n(l) \in Nat
        BY <1>3 DEF TypeOK, LoanStatuses
      <4> HIDE DEF st, n
      <4> QED
        BY <4>1, LoanMoves
    <3>2. loan' = [l \in Loans |->
                     IF l \in posted THEN [loan[l] EXCEPT !.outstanding = n(l), !.status = st(l)] ELSE loan[l]]
      BY <2>1
    <3> HIDE DEF st, n, posted
    <3> QED
      BY <3>1, <3>2 DEF TypeOK
  <2>7. run' \in [Runs -> RunRecords \cup {None}]
    <3>1. rest \in RunRecords
      BY <1>1 DEF RunRecords
    <3> HIDE DEF rest, left
    <3> QED
      BY <2>1, <3>1 DEF TypeOK
  <2> QED
    BY <1>2, <2>2, <2>3, <2>4, <2>5, <2>6, <2>7 DEF TypeOK
<1> QED
  BY <1>4, <1>5

-----------------------------------------------------------------------------
(* The steps of the other services: no payslip and no run moves, claims may be *)
(* detached and settlements become READY.                                   *)
Background ==
    /\ UNCHANGED <<slip, run>>
    /\ \A s \in Slots : req'[s] # None => req'[s] = req[s] \/ req'[s].op # "slip"
    /\ \A c \in Claims : claim'[c].emp = claim[c].emp /\ claim'[c].month \in {claim[c].month, None}
    /\ \A x \in Settlements :
          /\ settle'[x].emp = settle[x].emp /\ settle'[x].month = settle[x].month
          /\ settle'[x].calendar = settle[x].calendar
          /\ settle'[x].status \in {settle[x].status, "READY"}

BackgroundStep ==
    \/ MonthEnds
    \/ \E c \in Claims : ClaimSubmit(c)
    \/ \E l \in Loans : LoanApply(l)
    \/ \E x \in Settlements : SettlementReady(x)
    \/ \E s \in Slots :
          \/ \E c \in Claims, status \in {"APPROVED", "REJECTED"} : ClaimReviewChecks(s, c, status)
          \/ \E c \in Claims : ClaimCancelChecks(s, c)
          \/ \E l \in Loans, status \in {"APPROVED", "REJECTED", "CLOSED"} : LoanReviewChecks(s, l, status)
          \/ ClaimReviewCommits(s)
          \/ ClaimCancelCommits(s)
          \/ LoanReviewCommits(s)

LEMMA BackgroundSteps == ASSUME TypeOK, BackgroundStep PROVE Background
<1>1. CASE MonthEnds \/ \E l \in Loans : LoanApply(l)
  BY <1>1 DEF MonthEnds, LoanApply, Background
<1>2. CASE \E c \in Claims : ClaimSubmit(c)
  BY <1>2 DEF ClaimSubmit, Background, TypeOK, ClaimRows
<1>3. CASE \E x \in Settlements : SettlementReady(x)
  BY <1>3 DEF SettlementReady, Background, TypeOK, SettlementRows
<1>4. ASSUME NEW s \in Slots,
             \/ \E c \in Claims, status \in {"APPROVED", "REJECTED"} : ClaimReviewChecks(s, c, status)
             \/ \E c \in Claims : ClaimCancelChecks(s, c)
             \/ \E l \in Loans, status \in {"APPROVED", "REJECTED", "CLOSED"} : LoanReviewChecks(s, l, status)
      PROVE  Background
  <2>1. ASSUME NEW r, Checks(s, r), r.op # "slip" PROVE Background
    BY <2>1 DEF Checks, Background, TypeOK
  <2>2. ASSUME NEW c \in Claims, NEW status, ClaimReviewChecks(s, c, status) PROVE Background
    BY <2>1, <2>2 DEF ClaimReviewChecks
  <2>3. ASSUME NEW c \in Claims, ClaimCancelChecks(s, c) PROVE Background
    BY <2>1, <2>3 DEF ClaimCancelChecks
  <2>4. ASSUME NEW l \in Loans, NEW status, LoanReviewChecks(s, l, status) PROVE Background
    BY <2>1, <2>4 DEF LoanReviewChecks
  <2> QED
    BY <1>4, <2>2, <2>3, <2>4
<1>5. ASSUME NEW s \in Slots, ClaimReviewCommits(s) PROVE Background
  <2>1. req[s].c \in Claims
    BY <1>5 DEF ClaimReviewCommits, TypeOK, Requests
  <2> QED
    BY <1>5, <2>1 DEF ClaimReviewCommits, Background, TypeOK, ClaimRows
<1>6. ASSUME NEW s \in Slots, ClaimCancelCommits(s) PROVE Background
  <2>1. req[s].c \in Claims /\ claim[req[s].c] \in ClaimRows
    BY <1>6 DEF ClaimCancelCommits, TypeOK, Requests
  <2>2. claim' = [claim EXCEPT ![req[s].c] = [claim[req[s].c] EXCEPT !.status = "GONE", !.month = None]]
    BY <1>6, <2>1 DEF ClaimCancelCommits, TypeOK, ClaimRows
  <2>3. \A c \in Claims : claim'[c].emp = claim[c].emp /\ claim'[c].month \in {claim[c].month, None}
    <3> DEFINE q == req[s].c
               gone == [claim[q] EXCEPT !.status = "GONE", !.month = None]
    <3>1. gone.emp = claim[q].emp /\ gone.month = None
      BY <2>1 DEF ClaimRows
    <3>2. claim' = [claim EXCEPT ![q] = gone]
      BY <2>2
    <3> HIDE DEF gone, q
    <3> QED
      BY <3>1, <3>2 DEF TypeOK
  <2> QED
    BY <1>6, <2>3 DEF ClaimCancelCommits, Background, TypeOK
<1>7. ASSUME NEW s \in Slots, LoanReviewCommits(s) PROVE Background
  BY <1>7 DEF LoanReviewCommits, Background, TypeOK
<1> QED
  BY <1>1, <1>2, <1>3, <1>4, <1>5, <1>6, <1>7 DEF BackgroundStep

LEMMA BackgroundTyped == ASSUME TypeInv, BackgroundStep PROVE TypeOK'
<1> USE DEF TypeInv
<1>1. CASE MonthEnds
  BY <1>1, PayrollAssumption DEF MonthEnds, TypeOK
<1>2. CASE \E c \in Claims : ClaimSubmit(c)
  <2>1. PICK c \in Claims : ClaimSubmit(c)
    BY <1>2
  <2> QED
    BY <2>1, ClaimMoves DEF ClaimSubmit, TypeOK, ClaimStatuses
<1>3. CASE \E l \in Loans : LoanApply(l)
  <2>1. PICK l \in Loans : LoanApply(l)
    BY <1>3
  <2> QED
    BY <2>1, LoanMoves, PayrollAssumption DEF LoanApply, TypeOK, LoanStatuses
<1>4. CASE \E x \in Settlements : SettlementReady(x)
  <2>1. PICK x \in Settlements : SettlementReady(x)
    BY <1>4
  <2>2. settle[x] \in SettlementRows /\ settle' = [settle EXCEPT ![x] = [settle[x] EXCEPT !.status = "READY"]]
    BY <2>1 DEF SettlementReady, TypeOK
  <2>3. [settle[x] EXCEPT !.status = "READY"] \in SettlementRows
    BY <2>2 DEF SettlementRows
  <2>4. settle' \in [Settlements -> SettlementRows]
    BY <2>2, <2>3 DEF TypeOK
  <2> QED
    BY <2>1, <2>4 DEF SettlementReady, TypeOK
<1> QED
  BY <1>1, <1>2, <1>3, <1>4, ReviewsTyped, CommitsTyped DEF BackgroundStep

(* Next, by who moves. *)
PayrollStep ==
    \/ \E s \in Slots, e \in Employees, m \in Months, status \in SlipStatuses : SlipChecks(s, e, m, status)
    \/ \E s \in Slots : SlipCommits(s)
    \/ \E g \in Runs :
          \/ \E m \in Months : GenerateStarts(g, m)
          \/ GenerateRecycles(g)
          \/ \E e \in Employees : GenerateComputes(g, e) \/ GenerateSkips(g, e)
          \/ GenerateReads(g)
          \/ GenerateCommits(g)
    \/ \E m \in Months : ApproveBatch(m) \/ DisburseBatch(m)

LEMMA NextSplits == Next => BackgroundStep \/ PayrollStep
BY DEF Next, BackgroundStep, PayrollStep

(* A payslip that exists keeps all but its status. *)
Restatused ==
    \A e \in Employees, m \in Months :
        IF slip[e][m] = None THEN slip'[e][m] = None
        ELSE /\ slip'[e][m] \in Slips
             /\ slip'[e][m] = [slip[e][m] EXCEPT !.status = slip'[e][m].status]

LEMMA Restatus ==
  ASSUME NEW p \in Slips, NEW st \in SlipStatuses
  PROVE  /\ [p EXCEPT !.status = st] \in Slips
         /\ [p EXCEPT !.status = st].status = st
         /\ [p EXCEPT !.status = st].claims = p.claims
         /\ [p EXCEPT !.status = st].settled = p.settled
         /\ p = [p EXCEPT !.status = p.status]
BY DEF Slips

LEMMA SameContents ==
  ASSUME NEW p \in Slips, NEW q \in Slips, q = [p EXCEPT !.status = q.status]
  PROVE  q.claims = p.claims /\ q.settled = p.settled
BY DEF Slips

LEMMA SameSlips == ASSUME TypeOK, slip' = slip PROVE Restatused
<1> SUFFICES ASSUME NEW i \in Employees, NEW j \in Months
             PROVE  IF slip[i][j] = None THEN slip'[i][j] = None
                    ELSE /\ slip'[i][j] \in Slips
                         /\ slip'[i][j] = [slip[i][j] EXCEPT !.status = slip'[i][j].status]
  BY DEF Restatused
<1>1. slip'[i][j] = slip[i][j] /\ (slip[i][j] = None \/ slip[i][j] \in Slips)
  BY DEF TypeOK
<1> QED
  BY <1>1, Restatus DEF Slips

LEMMA SlipCommitted ==
  ASSUME TypeInv, NEW s \in Slots, SlipCommits(s)
  PROVE  /\ Restatused
         /\ req[s].emp \in Employees /\ req[s].month \in Months
         /\ slip'[req[s].emp][req[s].month].status = req[s].status
         /\ \A e \in Employees, m \in Months :
               e # req[s].emp \/ m # req[s].month => slip'[e][m] = slip[e][m]
<1> DEFINE e == req[s].emp
           m == req[s].month
           p == [slip[e][m] EXCEPT !.status = req[s].status]
<1>1. e \in Employees /\ m \in Months /\ req[s].status \in SlipStatuses
  BY DEF TypeInv, TypeOK, SlipCommits, Requests
<1>2. slip[e][m] \in Slips
  BY <1>1 DEF TypeInv, TypeOK, ReviewedExists, SlipCommits
<1>3. slip' = [slip EXCEPT ![e] = [slip[e] EXCEPT ![m] = p]]
  BY DEF SlipCommits
<1>4. p \in Slips /\ p.status = req[s].status /\ p = [slip[e][m] EXCEPT !.status = p.status]
  BY <1>1, <1>2, Restatus
<1>5. \A i \in Employees, j \in Months : slip[i][j] = None \/ slip[i][j] \in Slips
  BY DEF TypeInv, TypeOK
<1> HIDE DEF e, m, p
<1>6. slip'[e][m] = p /\ \A i \in Employees, j \in Months : i # e \/ j # m => slip'[i][j] = slip[i][j]
  BY <1>1, <1>3 DEF TypeInv, TypeOK
<1>7. Restatused
  <2> SUFFICES ASSUME NEW i \in Employees, NEW j \in Months
               PROVE  IF slip[i][j] = None THEN slip'[i][j] = None
                      ELSE /\ slip'[i][j] \in Slips
                           /\ slip'[i][j] = [slip[i][j] EXCEPT !.status = slip'[i][j].status]
    BY DEF Restatused
  <2>1. CASE i = e /\ j = m
    BY <1>2, <1>4, <1>6, <2>1, NoPayslipAssumption
  <2>2. CASE ~(i = e /\ j = m)
    <3>1. slip'[i][j] = slip[i][j]
      BY <1>6, <2>2
    <3> QED
      BY <1>5, <3>1, Restatus DEF Slips
  <2> QED
    BY <2>1, <2>2
<1> QED
  BY <1>1, <1>4, <1>6, <1>7 DEF e, m

LEMMA BatchMoved ==
  ASSUME TypeOK, NEW n \in Months, ApproveBatch(n) \/ DisburseBatch(n)
  PROVE  /\ Restatused
         /\ slip' \in [Employees -> [Months -> Slips \cup {None}]]
         /\ \A e \in Employees, m \in Months : slip[e][m] # None /\ slip[e][m].status = "DISBURSED" =>
               slip'[e][m].status = "DISBURSED"
<1>1. PICK from \in SUBSET SlipStatuses, to \in SlipStatuses : Moved(n, from, to) /\ "DISBURSED" \notin from
  <2>1. CASE ApproveBatch(n)
    BY <2>1 DEF ApproveBatch, SlipStatuses
  <2>2. CASE DisburseBatch(n)
    BY <2>2 DEF DisburseBatch, SlipStatuses
  <2> QED
    BY <2>1, <2>2
<1> DEFINE p(e) == [slip[e][n] EXCEPT !.status = to]
           moves(e) == slip[e][n] # None /\ slip[e][n].status \in from
<1>2. slip' = [e \in Employees |-> IF moves(e) THEN [slip[e] EXCEPT ![n] = p(e)] ELSE slip[e]]
  BY <1>1 DEF Moved
<1>3. \A e \in Employees : moves(e) => /\ slip[e][n] \in Slips /\ p(e) \in Slips /\ p(e).status = to
                                       /\ p(e) = [slip[e][n] EXCEPT !.status = p(e).status]
  BY Restatus DEF TypeOK
<1>4. \A i \in Employees, j \in Months : slip[i][j] = None \/ slip[i][j] \in Slips
  BY DEF TypeOK
<1>5. \A e \in Employees : moves(e) => slip[e][n] # None /\ slip[e][n].status # "DISBURSED"
  BY <1>1
<1> HIDE DEF p, moves
<1>6. slip' \in [Employees -> [Months -> Slips \cup {None}]]
  BY <1>2, <1>3 DEF TypeOK
<1>7. \A i \in Employees, j \in Months :
         slip'[i][j] = IF moves(i) /\ j = n THEN p(i) ELSE slip[i][j]
  BY <1>2, <1>3 DEF TypeOK
<1>8. Restatused
  <2> SUFFICES ASSUME NEW i \in Employees, NEW j \in Months
               PROVE  IF slip[i][j] = None THEN slip'[i][j] = None
                      ELSE /\ slip'[i][j] \in Slips
                           /\ slip'[i][j] = [slip[i][j] EXCEPT !.status = slip'[i][j].status]
    BY DEF Restatused
  <2>1. CASE moves(i) /\ j = n
    BY <1>3, <1>5, <1>7, <2>1
  <2>2. CASE ~(moves(i) /\ j = n)
    <3>1. slip'[i][j] = slip[i][j]
      BY <1>7, <2>2
    <3> QED
      BY <1>4, <3>1, Restatus DEF Slips
  <2> QED
    BY <2>1, <2>2
<1>9. \A e \in Employees, m \in Months : slip[e][m] # None /\ slip[e][m].status = "DISBURSED" =>
               slip'[e][m].status = "DISBURSED"
  BY <1>5, <1>7
<1> QED
  BY <1>6, <1>8, <1>9

(* What a run's transaction writes: all of it, or nothing. *)
CommitFails(g) ==
    /\ UNCHANGED <<slip, claim, loan, repaid, settle, req>>
    /\ run' = [run EXCEPT ![g] = None]

CommitWrites(g) ==
    LET r == run[g] IN
    /\ slip'[r.emp][r.month] \in Slips
    /\ slip'[r.emp][r.month].status = "PENDING_APPROVAL"
    /\ slip'[r.emp][r.month].claims = r.claims
    /\ slip'[r.emp][r.month].settled = r.settled
    /\ \A e \in Employees, m \in Months : e # r.emp \/ m # r.month => slip'[e][m] = slip[e][m]
    /\ \A c \in Claims :
          /\ claim'[c].emp = claim[c].emp
          /\ \/ claim'[c].month = claim[c].month
             \/ c \in r.claims /\ claim[c].month = None /\ claim'[c].month = r.month
    /\ \A x \in Settlements :
          /\ settle'[x].emp = settle[x].emp /\ settle'[x].month = settle[x].month
          /\ settle'[x].calendar = settle[x].calendar
          /\ x \in r.settled \/ settle'[x].status = settle[x].status
          /\ x \notin r.settled => settle'[x] = settle[x]
    /\ Onward(g, r.emp)
    /\ req' = req

LEMMA Commits ==
  ASSUME TypeInv, NEW g \in Runs, GenerateCommits(g)
  PROVE  /\ run[g] # None /\ run[g].step = "commit"
         /\ run[g].emp \in run[g].todo /\ run[g].emp \in Employees /\ run[g].month \in Months
         /\ CommitFails(g) \/ CommitWrites(g)
<1> DEFINE r == run[g]
           posted == {l \in Loans : r.seen[l] # None}
           next == [status |-> "PENDING_APPROVAL", claims |-> r.claims,
                    settled |-> r.settled, due |-> r.due]
<1>1. r # None /\ r.step = "commit" /\ r \in RunRecords
  BY DEF GenerateCommits, TypeInv, TypeOK
<1>2. r.emp \in r.todo /\ r.emp \in Employees /\ r.month \in Months
  BY <1>1 DEF TypeInv, RunPick, RunRecords
<1>3. CASE \E l \in posted : repaid[l][r.month] # 0
  BY <1>1, <1>2, <1>3 DEF GenerateCommits, CommitFails
<1>4. CASE ~\E l \in posted : repaid[l][r.month] # 0
  <2>1. /\ slip' = [slip EXCEPT ![r.emp][r.month] = next]
        /\ claim' = [c \in Claims |->
                        IF c \in r.claims /\ claim[c].month = None /\ claim[c].status # "GONE"
                        THEN [claim[c] EXCEPT !.status = "PAID", !.month = r.month] ELSE claim[c]]
        /\ settle' = [x \in Settlements |->
                        IF x \in r.settled /\ settle[x].status = "READY"
                        THEN [settle[x] EXCEPT !.status = "PROCESSED"] ELSE settle[x]]
        /\ Onward(g, r.emp)
        /\ req' = req
    BY <1>4 DEF GenerateCommits
  <2>2. /\ next \in Slips /\ next.claims = r.claims /\ next.settled = r.settled
           /\ next.status = "PENDING_APPROVAL"
    BY <1>1 DEF RunRecords, Slips, SlipStatuses
  <2>3. /\ slip'[r.emp][r.month] = next
        /\ \A e \in Employees, m \in Months : e # r.emp \/ m # r.month => slip'[e][m] = slip[e][m]
    <3>1. slip' = [slip EXCEPT ![r.emp] = [slip[r.emp] EXCEPT ![r.month] = next]]
      BY <2>1
    <3> HIDE DEF next, r
    <3> QED
      BY <1>2, <3>1 DEF TypeInv, TypeOK
  <2>4. ASSUME NEW c \in Claims
        PROVE  /\ claim'[c].emp = claim[c].emp
               /\ \/ claim'[c].month = claim[c].month
                  \/ c \in r.claims /\ claim[c].month = None /\ claim'[c].month = r.month
    <3> DEFINE paid == [claim[c] EXCEPT !.status = "PAID", !.month = r.month]
    <3>1. paid.emp = claim[c].emp /\ paid.month = r.month
      <4>1. claim[c] \in ClaimRows
        BY DEF TypeInv, TypeOK
      <4> HIDE DEF r
      <4> QED
        BY <4>1 DEF ClaimRows
    <3>2. claim'[c] = IF c \in r.claims /\ claim[c].month = None /\ claim[c].status # "GONE"
                      THEN paid ELSE claim[c]
      BY <2>1
    <3> HIDE DEF paid, r
    <3> QED
      BY <3>1, <3>2
  <2>5. ASSUME NEW x \in Settlements
        PROVE  /\ settle'[x].emp = settle[x].emp /\ settle'[x].month = settle[x].month
               /\ settle'[x].calendar = settle[x].calendar
               /\ x \in r.settled \/ settle'[x].status = settle[x].status
               /\ x \notin r.settled => settle'[x] = settle[x]
    <3>1. settle[x] \in SettlementRows
      BY DEF TypeInv, TypeOK
    <3>2. settle'[x] = IF x \in r.settled /\ settle[x].status = "READY"
                       THEN [settle[x] EXCEPT !.status = "PROCESSED"] ELSE settle[x]
      BY <2>1
    <3> HIDE DEF r
    <3> QED
      BY <3>1, <3>2 DEF SettlementRows
  <2>6. CommitWrites(g)
    BY <2>1, <2>2, <2>3, <2>4, <2>5 DEF CommitWrites
  <2> QED
    BY <1>1, <1>2, <2>6
<1> QED
  BY <1>3, <1>4

(* The other steps of a run leave the payslips and the reviews alone.       *)
RunMoves(g) ==
    /\ UNCHANGED <<slip, req>>
    /\ \A h \in Runs : h # g => run'[h] = run[h]

LEMMA RunMovesOnly ==
  ASSUME TypeOK, NEW g \in Runs,
         \/ \E m \in Months : GenerateStarts(g, m)
         \/ GenerateRecycles(g)
         \/ \E e \in Employees : GenerateComputes(g, e) \/ GenerateSkips(g, e)
         \/ GenerateReads(g)
  PROVE  RunMoves(g)
<1>1. CASE \E m \in Months : GenerateStarts(g, m)
  BY <1>1 DEF GenerateStarts, RunMoves, TypeOK
<1>2. CASE GenerateRecycles(g)
  BY <1>2 DEF GenerateRecycles, RunMoves, TypeOK
<1>3. ASSUME NEW e \in Employees, GenerateComputes(g, e) PROVE RunMoves(g)
  BY <1>3 DEF GenerateComputes, RunMoves, TypeOK
<1>4. ASSUME NEW e \in Employees, GenerateSkips(g, e) PROVE RunMoves(g)
  BY <1>4 DEF GenerateSkips, Onward, RunMoves, TypeOK
<1>5. CASE GenerateReads(g)
  BY <1>5 DEF GenerateReads, RunMoves, TypeOK
<1> QED
  BY <1>1, <1>2, <1>3, <1>4, <1>5

(* A run goes on as the same request: its month stays, its list shrinks, and  *)
(* past the recycling it stays there.                                       *)
RunContinues(g) ==
    run'[g] # None =>
        /\ run[g] # None
        /\ run'[g] \in RunRecords
        /\ run'[g].month = run[g].month
        /\ run'[g].todo \subseteq run[g].todo
        /\ run'[g].step # "recycle"

LEMMA OnwardContinues ==
  ASSUME NEW g \in Runs, run \in [Runs -> RunRecords \cup {None}], run[g] # None,
         NEW e, Onward(g, e)
  PROVE  /\ RunContinues(g)
         /\ \A h \in Runs : h # g => run'[h] = run[h]
         /\ run'[g] # None => run'[g].step = "compute" /\ e \notin run'[g].todo
<1> DEFINE left == run[g].todo \ {e}
           r == [run[g] EXCEPT !.step = "compute", !.todo = left, !.emp = None]
<1>1. run[g] \in RunRecords /\ left \subseteq run[g].todo /\ e \notin left
  OBVIOUS
<1>2. r \in RunRecords /\ r.month = run[g].month /\ r.todo = left /\ r.step = "compute"
  <2> HIDE DEF left
  <2> QED
    BY <1>1 DEF RunRecords
<1>3. run' = [run EXCEPT ![g] = IF left = {} THEN None ELSE r]
  BY DEF Onward
<1> HIDE DEF left, r
<1>4. run'[g] = (IF left = {} THEN None ELSE r) /\ \A h \in Runs : h # g => run'[h] = run[h]
  BY <1>3
<1> QED
  BY <1>1, <1>2, <1>4 DEF RunContinues

(* What each step of a run leaves in its record. *)
LEMMA Recycled ==
  ASSUME TypeOK, NEW g \in Runs, GenerateRecycles(g)
  PROVE  /\ RunContinues(g)
         /\ run[g] # None /\ run[g].step = "recycle" /\ run'[g] # None /\ run'[g].step = "compute"
<1>1. run[g] \in RunRecords /\ run[g] # None /\ run[g].step = "recycle"
  BY DEF GenerateRecycles, TypeOK
<1>2. run'[g] = [run[g] EXCEPT !.step = "compute"]
  BY DEF GenerateRecycles, TypeOK
<1>3. run'[g] \in RunRecords /\ run'[g].step = "compute" /\ run'[g].month = run[g].month
      /\ run'[g].todo = run[g].todo
  BY <1>1, <1>2 DEF RunRecords
<1>4. None \notin RunRecords
  BY NoRunAssumption
<1> QED
  BY <1>1, <1>3, <1>4 DEF RunContinues

LEMMA Computed ==
  ASSUME TypeOK, NEW g \in Runs, NEW e \in Employees, GenerateComputes(g, e)
  PROVE  /\ RunContinues(g)
         /\ run[g] # None /\ run[g].step = "compute"
         /\ run'[g].emp = e /\ e \in run'[g].todo /\ run'[g].step = "begin"
         /\ run'[g].claims = OpenClaims(e)
         /\ \A x \in run'[g].settled : settle[x].emp = e /\ settle[x].month = run[g].month
<1> DEFINE cs == OpenClaims(e)
           xs == {x \in Settlements : /\ settle[x].emp = e /\ settle[x].month = run[g].month
                                      /\ settle[x].status = "READY"}
           ds == Due(e, run[g].month)
           r == [run[g] EXCEPT !.step = "begin", !.emp = e, !.claims = cs, !.settled = xs, !.due = ds]
<1>1. run[g] \in RunRecords /\ run[g] # None /\ run[g].step = "compute" /\ e \in run[g].todo
  BY DEF GenerateComputes, TypeOK
<1>2. run' = [run EXCEPT ![g] = r]
  BY DEF GenerateComputes
<1>3. TypeOK'
  BY RunsTyped
<1>4. \A x \in xs : settle[x].emp = e /\ settle[x].month = run[g].month
  OBVIOUS
<1> HIDE DEF cs, xs, ds
<1>5. /\ r.step = "begin" /\ r.emp = e /\ r.claims = cs /\ r.settled = xs
      /\ r.month = run[g].month /\ r.todo = run[g].todo
  BY <1>1 DEF RunRecords
<1> HIDE DEF r
<1>6. run'[g] = r
  BY <1>2 DEF TypeOK
<1> QED
  BY <1>1, <1>3, <1>4, <1>5, <1>6 DEF RunContinues, TypeOK, cs

LEMMA Read ==
  ASSUME TypeOK, NEW g \in Runs, GenerateReads(g)
  PROVE  /\ RunContinues(g)
         /\ run[g] # None /\ run[g].step = "begin"
         /\ run'[g].step = "commit" /\ run'[g].emp = run[g].emp /\ run'[g].todo = run[g].todo
         /\ run'[g].claims = run[g].claims /\ run'[g].settled = run[g].settled
<1> DEFINE ls == ToCollect(run[g].emp, run[g].month)
           r == [run[g] EXCEPT !.step = "commit", !.seen = ls]
<1>1. run[g] \in RunRecords /\ run[g] # None /\ run[g].step = "begin"
  BY DEF GenerateReads, TypeOK
<1>2. run' = [run EXCEPT ![g] = r]
  BY DEF GenerateReads
<1>3. TypeOK'
  BY RunsTyped
<1> HIDE DEF ls
<1>4. /\ r.step = "commit" /\ r.emp = run[g].emp /\ r.todo = run[g].todo /\ r.month = run[g].month
      /\ r.claims = run[g].claims /\ r.settled = run[g].settled
  BY <1>1 DEF RunRecords
<1> HIDE DEF r
<1>5. run'[g] = r
  BY <1>2 DEF TypeOK
<1> QED
  BY <1>1, <1>3, <1>4, <1>5 DEF RunContinues, TypeOK

LEMMA TypeStep == ASSUME TypeInv, [Next]_vars PROVE TypeInv'
<1>1. CASE UNCHANGED vars
  BY <1>1 DEF vars, TypeInv, TypeOK, ReviewedExists, RunPick
<1>2. CASE BackgroundStep
  <2>1. Background /\ TypeOK'
    BY <1>2, BackgroundSteps, BackgroundTyped DEF TypeInv
  <2> QED
    BY <2>1 DEF Background, TypeInv, ReviewedExists, RunPick
<1>3. ASSUME NEW s \in Slots, NEW e \in Employees, NEW m \in Months, NEW status \in SlipStatuses,
             SlipChecks(s, e, m, status)
      PROVE  TypeInv'
  <2>1. TypeOK'
    BY <1>3, ReviewsTyped DEF TypeInv
  <2>2. req' = [req EXCEPT ![s] = [op |-> "slip", emp |-> e, month |-> m, status |-> status]]
        /\ UNCHANGED <<slip, run>> /\ slip[e][m] # None
    BY <1>3 DEF SlipChecks, Checks
  <2> QED
    BY <2>1, <2>2 DEF TypeInv, TypeOK, ReviewedExists, RunPick
<1>4. ASSUME NEW s \in Slots, SlipCommits(s) PROVE TypeInv'
  <2>1. TypeOK' /\ Restatused
    BY <1>4, CommitsTyped, SlipCommitted DEF TypeInv
  <2>2. run' = run /\ req' = [req EXCEPT ![s] = None]
    BY <1>4 DEF SlipCommits
  <2>3. \A e \in Employees, m \in Months : slip[e][m] # None => slip'[e][m] # None
    BY <2>1, NoPayslipAssumption DEF Restatused
  <2>4. \A t \in Slots : req[t] # None /\ req[t].op = "slip" => req[t].emp \in Employees /\ req[t].month \in Months
    BY DEF TypeInv, TypeOK, Requests
  <2> QED
    BY <2>1, <2>2, <2>3, <2>4 DEF TypeInv, TypeOK, ReviewedExists, RunPick
<1>5. ASSUME NEW g \in Runs,
             \/ \E m \in Months : GenerateStarts(g, m)
             \/ GenerateRecycles(g)
             \/ \E e \in Employees : GenerateComputes(g, e) \/ GenerateSkips(g, e)
             \/ GenerateReads(g)
      PROVE  TypeInv'
  <2>1. TypeOK' /\ RunMoves(g)
    BY <1>5, RunsTyped, RunMovesOnly DEF TypeInv
  <2>2. ReviewedExists'
    BY <2>1 DEF RunMoves, TypeInv, ReviewedExists
  <2>3. run'[g] # None /\ run'[g].step \in {"begin", "commit"} => run'[g].emp \in run'[g].todo
    <3>1. CASE \E m \in Months : GenerateStarts(g, m)
      BY <3>1 DEF GenerateStarts, TypeInv, TypeOK
    <3>2. CASE GenerateRecycles(g)
      BY <3>2, Recycled DEF TypeInv
    <3>3. ASSUME NEW e \in Employees, GenerateComputes(g, e)
          PROVE  run'[g].emp \in run'[g].todo
      BY <3>3, Computed DEF TypeInv
    <3>4. ASSUME NEW e \in Employees, GenerateSkips(g, e)
          PROVE  run'[g] # None => run'[g].step = "compute"
      BY <3>4, OnwardContinues DEF GenerateSkips, TypeInv, TypeOK
    <3>5. CASE GenerateReads(g)
      BY <3>5, Read DEF TypeInv, RunPick
    <3> QED
      BY <1>5, <3>1, <3>2, <3>3, <3>4, <3>5
  <2> QED
    BY <2>1, <2>2, <2>3 DEF RunMoves, TypeInv, RunPick
<1>6. ASSUME NEW g \in Runs, GenerateCommits(g) PROVE TypeInv'
  <2>1. /\ run[g] # None /\ run[g].emp \in Employees /\ run[g].month \in Months
        /\ CommitFails(g) \/ CommitWrites(g)
    BY <1>6, Commits
  <2>2. TypeOK'
    BY <1>6, <2>1, GenerationTyped DEF TypeInv
  <2>3. CASE CommitFails(g)
    BY <2>2, <2>3 DEF CommitFails, TypeInv, TypeOK, ReviewedExists, RunPick
  <2>4. CASE CommitWrites(g)
    <3>1. \A e \in Employees, m \in Months : slip[e][m] # None => slip'[e][m] # None
      BY <2>1, <2>4, NoPayslipAssumption DEF CommitWrites
    <3>2. \A t \in Slots : req[t] # None /\ req[t].op = "slip" => req[t].emp \in Employees /\ req[t].month \in Months
      BY DEF TypeInv, TypeOK, Requests
    <3>3. req' = req /\ Onward(g, run[g].emp)
      BY <2>4 DEF CommitWrites
    <3>4. /\ \A h \in Runs : h # g => run'[h] = run[h]
          /\ run'[g] # None => run'[g].step = "compute"
      BY <2>1, <3>3, OnwardContinues DEF TypeInv, TypeOK
    <3> QED
      BY <2>2, <3>1, <3>2, <3>3, <3>4 DEF TypeInv, ReviewedExists, RunPick
  <2> QED
    BY <2>1, <2>3, <2>4
<1>7. ASSUME NEW m \in Months, ApproveBatch(m) \/ DisburseBatch(m) PROVE TypeInv'
  <2>1. /\ Restatused
        /\ slip' \in [Employees -> [Months -> Slips \cup {None}]]
    BY <1>7, BatchMoved DEF TypeInv
  <2>2. UNCHANGED <<claim, loan, repaid, settle, run, req, over>>
    BY <1>7 DEF ApproveBatch, DisburseBatch
  <2>3. TypeOK'
    BY <2>1, <2>2 DEF TypeInv, TypeOK
  <2>4. \A e \in Employees, n \in Months : slip[e][n] # None => slip'[e][n] # None
    <3>1. \A e \in Employees, n \in Months : slip[e][n] # None => slip'[e][n] \in Slips
      BY <2>1 DEF Restatused
    <3> QED
      BY <3>1, NoPayslipAssumption
  <2>5. \A t \in Slots : req[t] # None /\ req[t].op = "slip" => req[t].emp \in Employees /\ req[t].month \in Months
    BY DEF TypeInv, TypeOK, Requests
  <2> QED
    BY <2>2, <2>3, <2>4, <2>5 DEF TypeInv, ReviewedExists, RunPick
<1> QED
  BY <1>1, <1>2, <1>3, <1>4, <1>5, <1>6, <1>7, NextSplits DEF PayrollStep

LEMMA InitTyped == Init => TypeInv
<1> SUFFICES ASSUME Init PROVE TypeInv
  OBVIOUS
<1>1. slip \in [Employees -> [Months -> Slips \cup {None}]]
  BY DEF Init
<1>2. claim \in [Claims -> ClaimRows]
  BY DEF Init, ClaimStatuses, ClaimRows
<1>3. loan \in [Loans -> LoanRows]
  BY PayrollAssumption DEF Init, LoanStatuses, LoanRows
<1>4. repaid \in [Loans -> [Months -> Nat]]
  BY DEF Init
<1>5. settle \in [Settlements -> SettlementRows]
  BY PayrollAssumption DEF Init, Months, SettlementRows
<1>6. /\ run \in [Runs -> RunRecords \cup {None}]
      /\ req \in [Slots -> Requests \cup {None}]
      /\ over \in 0 .. LastMonth
  BY PayrollAssumption DEF Init
<1>7. ReviewedExists /\ RunPick
  BY DEF Init, ReviewedExists, RunPick
<1> QED
  BY <1>1, <1>2, <1>3, <1>4, <1>5, <1>6, <1>7 DEF TypeInv, TypeOK

(* Types, with what a run in progress knows of the month it generates, hold    *)
(* under every interleaving of runs, reviews and disbursements.             *)
THEOREM PayrollInvariant == Spec => []TypeInv
BY InitTyped, TypeStep, PTL DEF Spec

(* Every variable of a payroll keeps its type, whatever the requests do. *)
THEOREM TypeCorrect == Spec => []TypeOK
BY PayrollInvariant, PTL DEF TypeInv

-----------------------------------------------------------------------------
(* What holds when an administrator's requests come one at a time.          *)
IsSlipReview(s) == req[s] # None /\ req[s].op = "slip"

OneAtATime ==
    /\ \A g, h \in Runs : run[g] # None /\ run[h] # None => g = h
    /\ \A s, t \in Slots : IsSlipReview(s) /\ IsSlipReview(t) => s = t
    /\ \A g \in Runs, s \in Slots : run[g] # None => ~IsSlipReview(s)

(* The month a run rewrites stays unlocked while it runs ...                *)
RunUnlocked == \A g \in Runs, e \in Employees : run[g] # None => ~Locked(e, run[g].month)

(* ... and the move a review has checked stays a legal one.                 *)
ReviewAllowed ==
    \A s \in Slots : IsSlipReview(s) =>
        LET from == slip[req[s].emp][req[s].month].status
        IN  req[s].status \in STATUS_TRANSITIONS(from) \cup {from}

SerialInv == TypeInv /\ OneAtATime /\ RunUnlocked /\ ReviewAllowed

(* What a step does to the two kinds of requests that write payslips.       *)
LEMMA OneAtATimeKept ==
  ASSUME Serial, TypeInv, OneAtATime, [Next]_vars
  PROVE  OneAtATime'
<1>1. CASE UNCHANGED vars
  BY <1>1 DEF vars, OneAtATime, IsSlipReview
<1>2. CASE BackgroundStep
  BY <1>2, BackgroundSteps DEF TypeInv, Background, OneAtATime, IsSlipReview
<1>3. ASSUME NEW s \in Slots, NEW e \in Employees, NEW m \in Months, NEW status \in SlipStatuses,
             SlipChecks(s, e, m, status)
      PROVE  OneAtATime'
  BY <1>3 DEF SlipChecks, Checks, AdminFree, OneAtATime, IsSlipReview, TypeInv, TypeOK
<1>4. ASSUME NEW s \in Slots, SlipCommits(s) PROVE OneAtATime'
  BY <1>4 DEF SlipCommits, OneAtATime, IsSlipReview, TypeInv, TypeOK
<1>5. ASSUME NEW g \in Runs, NEW m \in Months, GenerateStarts(g, m) PROVE OneAtATime'
  <2>1. RunMoves(g)
    BY <1>5, RunMovesOnly DEF TypeInv
  <2> QED
    BY <1>5, <2>1 DEF GenerateStarts, AdminFree, RunMoves, OneAtATime, IsSlipReview
<1>6. ASSUME NEW g \in Runs,
             \/ GenerateRecycles(g)
             \/ \E e \in Employees : GenerateComputes(g, e) \/ GenerateSkips(g, e)
             \/ GenerateReads(g)
      PROVE  OneAtATime'
  <2>1. RunMoves(g)
    BY <1>6, RunMovesOnly DEF TypeInv
  <2>2. run[g] # None
    BY <1>6 DEF GenerateRecycles, GenerateComputes, GenerateSkips, GenerateReads
  <2> QED
    BY <2>1, <2>2 DEF RunMoves, OneAtATime, IsSlipReview
<1>7. ASSUME NEW g \in Runs, GenerateCommits(g) PROVE OneAtATime'
  <2>1. run[g] # None /\ req' = req /\ \A h \in Runs : h # g => run'[h] = run[h]
    BY <1>7, Commits, OnwardContinues DEF CommitFails, CommitWrites, TypeInv, TypeOK
  <2> QED
    BY <2>1 DEF OneAtATime, IsSlipReview
<1>8. ASSUME NEW m \in Months, ApproveBatch(m) \/ DisburseBatch(m) PROVE OneAtATime'
  BY <1>8 DEF ApproveBatch, DisburseBatch, OneAtATime, IsSlipReview
<1> QED
  BY <1>1, <1>2, <1>3, <1>4, <1>5, <1>6, <1>7, <1>8, NextSplits DEF PayrollStep

LEMMA RunUnlockedKept ==
  ASSUME Serial, SerialInv, [Next]_vars
  PROVE  RunUnlocked'
<1> USE DEF SerialInv
<1>1. CASE UNCHANGED vars
  BY <1>1 DEF vars, RunUnlocked, Locked
<1>2. CASE BackgroundStep
  BY <1>2, BackgroundSteps DEF TypeInv, Background, RunUnlocked, Locked
<1>3. ASSUME NEW s \in Slots, NEW e \in Employees, NEW m \in Months, NEW status \in SlipStatuses,
             SlipChecks(s, e, m, status)
      PROVE  RunUnlocked'
  BY <1>3 DEF SlipChecks, Checks, RunUnlocked, Locked
<1>4. ASSUME NEW s \in Slots, SlipCommits(s) PROVE RunUnlocked'
  BY <1>4 DEF SlipCommits, OneAtATime, IsSlipReview, RunUnlocked
<1>5. ASSUME NEW g \in Runs, NEW m \in Months, GenerateStarts(g, m) PROVE RunUnlocked'
  <2>1. RunMoves(g) /\ run'[g].month = m
    BY <1>5, RunMovesOnly DEF TypeInv, TypeOK, GenerateStarts
  <2> QED
    BY <1>5, <2>1 DEF GenerateStarts, RunMoves, RunUnlocked, Locked
<1>6. ASSUME NEW g \in Runs,
             \/ GenerateRecycles(g)
             \/ \E e \in Employees : GenerateComputes(g, e) \/ GenerateSkips(g, e)
             \/ GenerateReads(g)
      PROVE  RunUnlocked'
  <2>1. RunMoves(g)
    BY <1>6, RunMovesOnly DEF TypeInv
  <2>2. RunContinues(g)
    BY <1>6, Recycled, Computed, Read, OnwardContinues DEF GenerateSkips, TypeInv, TypeOK
  <2> QED
    BY <2>1, <2>2 DEF RunMoves, RunContinues, RunUnlocked, Locked
<1>7. ASSUME NEW g \in Runs, GenerateCommits(g) PROVE RunUnlocked'
  <2>1. CASE CommitFails(g)
    BY <2>1 DEF CommitFails, RunUnlocked, Locked, TypeInv, TypeOK
  <2>2. CASE CommitWrites(g)
    <3>1. RunContinues(g) /\ \A h \in Runs : h # g => run'[h] = run[h]
      BY <1>7, <2>2, Commits, OnwardContinues DEF CommitWrites, TypeInv, TypeOK
    <3>2. \A h \in Runs : run'[h] # None => h = g
      BY <1>7, <3>1, Commits DEF OneAtATime
    <3>3. \A e \in Employees : slip'[e][run[g].month] # None =>
             slip'[e][run[g].month].status \notin LOCKED_PAYSLIP_STATUSES
      <4> TAKE e \in Employees
      <4>1. run[g] # None /\ run[g].month \in Months /\ ~Locked(e, run[g].month)
        BY <1>7, Commits DEF RunUnlocked
      <4>2. CASE e = run[g].emp
        BY <2>2, <4>2 DEF CommitWrites, Locked, LOCKED_PAYSLIP_STATUSES
      <4>3. CASE e # run[g].emp
        BY <2>2, <4>1, <4>3 DEF CommitWrites, Locked
      <4> QED
        BY <4>2, <4>3
    <3> QED
      BY <3>1, <3>2, <3>3 DEF RunContinues, RunUnlocked, Locked
  <2> QED
    BY <1>7, <2>1, <2>2, Commits
<1>8. ASSUME NEW m \in Months, ApproveBatch(m) \/ DisburseBatch(m) PROVE RunUnlocked'
  BY <1>8 DEF ApproveBatch, DisburseBatch, AdminFree, RunUnlocked
<1> QED
  BY <1>1, <1>2, <1>3, <1>4, <1>5, <1>6, <1>7, <1>8, NextSplits DEF PayrollStep

LEMMA ReviewAllowedKept ==
  ASSUME Serial, SerialInv, [Next]_vars
  PROVE  ReviewAllowed'
<1> USE DEF SerialInv
<1>1. CASE UNCHANGED vars
  BY <1>1 DEF vars, ReviewAllowed, IsSlipReview
<1>2. CASE BackgroundStep
  BY <1>2, BackgroundSteps DEF TypeInv, Background, ReviewAllowed, IsSlipReview
<1>3. ASSUME NEW s \in Slots, NEW e \in Employees, NEW m \in Months, NEW status \in SlipStatuses,
             SlipChecks(s, e, m, status)
      PROVE  ReviewAllowed'
  <2>1. /\ slip' = slip
        /\ req' = [req EXCEPT ![s] = [op |-> "slip", emp |-> e, month |-> m, status |-> status]]
        /\ status \in STATUS_TRANSITIONS(slip[e][m].status) \cup {slip[e][m].status}
    BY <1>3 DEF SlipChecks, Checks
  <2> QED
    BY <2>1 DEF ReviewAllowed, IsSlipReview, TypeInv, TypeOK
<1>4. ASSUME NEW s \in Slots, SlipCommits(s) PROVE ReviewAllowed'
  BY <1>4 DEF SlipCommits, OneAtATime, IsSlipReview, ReviewAllowed, TypeInv, TypeOK
<1>5. ASSUME NEW g \in Runs,
             \/ \E m \in Months : GenerateStarts(g, m)
             \/ GenerateRecycles(g)
             \/ \E e \in Employees : GenerateComputes(g, e) \/ GenerateSkips(g, e)
             \/ GenerateReads(g)
      PROVE  ReviewAllowed'
  BY <1>5, RunMovesOnly DEF TypeInv, RunMoves, ReviewAllowed, IsSlipReview
<1>6. ASSUME NEW g \in Runs, GenerateCommits(g) PROVE ReviewAllowed'
  BY <1>6, Commits DEF CommitFails, CommitWrites, OneAtATime, IsSlipReview, ReviewAllowed
<1>7. ASSUME NEW m \in Months, ApproveBatch(m) \/ DisburseBatch(m) PROVE ReviewAllowed'
  BY <1>7 DEF ApproveBatch, DisburseBatch, AdminFree, ReviewAllowed, IsSlipReview
<1> QED
  BY <1>1, <1>2, <1>3, <1>4, <1>5, <1>6, <1>7, NextSplits DEF PayrollStep

(* One step never rewrites what a locked payslip settled. *)
SettledKept ==
    \A e \in Employees, m \in Months : Locked(e, m) =>
        /\ slip'[e][m] # None
        /\ slip'[e][m] = [slip[e][m] EXCEPT !.status = slip'[e][m].status]
        /\ slip[e][m].status = "DISBURSED" => slip'[e][m].status = "DISBURSED"

LEMMA SettledStep == ASSUME Serial, SerialInv, [Next]_vars PROVE SettledKept
<1> USE DEF SerialInv
<1>1. ASSUME slip' = slip PROVE SettledKept
  BY <1>1, SameSlips, NoPayslipAssumption DEF TypeInv, Restatused, SettledKept, Locked
<1>2. CASE UNCHANGED vars \/ BackgroundStep
  BY <1>1, <1>2, BackgroundSteps DEF vars, Background, TypeInv
<1>3. ASSUME NEW s \in Slots, NEW e \in Employees, NEW m \in Months, NEW status \in SlipStatuses,
             SlipChecks(s, e, m, status)
      PROVE  SettledKept
  BY <1>1, <1>3 DEF SlipChecks, Checks
<1>4. ASSUME NEW s \in Slots, SlipCommits(s) PROVE SettledKept
  <2>1. /\ Restatused
        /\ slip'[req[s].emp][req[s].month].status = req[s].status
        /\ \A e \in Employees, m \in Months :
              e # req[s].emp \/ m # req[s].month => slip'[e][m] = slip[e][m]
    BY <1>4, SlipCommitted
  <2>2. slip[req[s].emp][req[s].month].status = "DISBURSED" => req[s].status = "DISBURSED"
    BY <1>4 DEF SlipCommits, ReviewAllowed, IsSlipReview, STATUS_TRANSITIONS
  <2> QED
    BY <2>1, <2>2, NoPayslipAssumption DEF Restatused, SettledKept, Locked
<1>5. ASSUME NEW g \in Runs,
             \/ \E m \in Months : GenerateStarts(g, m)
             \/ GenerateRecycles(g)
             \/ \E e \in Employees : GenerateComputes(g, e) \/ GenerateSkips(g, e)
             \/ GenerateReads(g)
      PROVE  SettledKept
  BY <1>1, <1>5, RunMovesOnly DEF TypeInv, RunMoves
<1>6. ASSUME NEW g \in Runs, GenerateCommits(g) PROVE SettledKept
  <2>1. CASE CommitFails(g)
    BY <1>1, <2>1 DEF CommitFails
  <2>2. CASE CommitWrites(g)
    <3> SUFFICES ASSUME NEW e \in Employees, NEW m \in Months, Locked(e, m)
                 PROVE  slip'[e][m] = slip[e][m] /\ slip[e][m] \in Slips
      BY NoPayslipAssumption, Restatus DEF SettledKept, Slips
    <3>1. e # run[g].emp \/ m # run[g].month
      BY <1>6, Commits DEF RunUnlocked
    <3> QED
      BY <2>2, <3>1 DEF CommitWrites, Locked, TypeInv, TypeOK
  <2> QED
    BY <1>6, <2>1, <2>2, Commits
<1>7. ASSUME NEW m \in Months, ApproveBatch(m) \/ DisburseBatch(m) PROVE SettledKept
  BY <1>7, BatchMoved, NoPayslipAssumption DEF TypeInv, Restatused, SettledKept, Locked
<1> QED
  BY <1>2, <1>3, <1>4, <1>5, <1>6, <1>7, NextSplits DEF PayrollStep

(* When administrators wait for an answer before the next request, at most one *)
(* of them is in flight and a run in progress finds its month unlocked.     *)
THEOREM SerialInvariant == ASSUME Serial PROVE Spec => []SerialInv
<1>1. Init => SerialInv
  <2> SUFFICES ASSUME Init PROVE OneAtATime /\ RunUnlocked /\ ReviewAllowed /\ TypeInv
    BY DEF SerialInv
  <2>1. OneAtATime /\ RunUnlocked /\ ReviewAllowed
    BY DEF Init, OneAtATime, RunUnlocked, ReviewAllowed, IsSlipReview
  <2> QED
    BY <2>1, InitTyped
<1>2. SerialInv /\ [Next]_vars => SerialInv'
  BY TypeStep, OneAtATimeKept, RunUnlockedKept, ReviewAllowedKept DEF SerialInv
<1> QED
  BY <1>1, <1>2, PTL DEF Spec

(* With serial administration no payroll request, and no review left over    *)
(* from before, rewrites an approved or disbursed payslip.                  *)
THEOREM SettledAmountsAreKept == ASSUME Serial PROVE Spec => SettledAmountsKept
<1>1. SerialInv /\ [Next]_vars => SettledKept
  BY SettledStep
<1>2. SerialInv /\ [Next]_vars => [SettledKept]_vars
  BY <1>1
<1> QED
  BY <1>2, SerialInvariant, PTL DEF Spec, SettledAmountsKept, SettledKept

-----------------------------------------------------------------------------
(* What links a claim to a payslip.  Past its recycling a run has detached    *)
(* the claims of the employees still on its list, and it has gathered only   *)
(* the claims of the employee it is at.                                     *)
RunDetached ==
    \A g \in Runs, c \in Claims :
        run[g] # None /\ run[g].step # "recycle" /\ claim[c].month = run[g].month =>
            claim[c].emp \notin run[g].todo

RunOwnClaims ==
    \A g \in Runs, c \in Claims :
        run[g] # None /\ run[g].step \in {"begin", "commit"} /\ c \in run[g].claims =>
            claim[c].emp = run[g].emp

LinkInv == SerialInv /\ LinkedIsReimbursed /\ RunDetached /\ RunOwnClaims

(* Steps that only detach claims, and only change a payslip's status.       *)
OnlyDetaches ==
    /\ \A c \in Claims : claim'[c].emp = claim[c].emp /\ claim'[c].month \in {claim[c].month, None}
    /\ Restatused

LEMMA DetachedOnlyDetaches ==
  ASSUME TypeOK, NEW emps, NEW m, NEW c \in Claims
  PROVE  /\ Detached(emps, m)[c].emp = claim[c].emp
         /\ Detached(emps, m)[c].month \in {claim[c].month, None}
         /\ claim[c].month = m /\ claim[c].emp \in emps => Detached(emps, m)[c].month = None
BY DEF Detached, TypeOK, ClaimRows

LEMMA DetachingKeepsLinks ==
  ASSUME TypeOK, LinkedIsReimbursed, OnlyDetaches
  PROVE  LinkedIsReimbursed'
<1> SUFFICES ASSUME NEW c \in Claims, claim'[c].month # None
             PROVE  /\ slip'[claim'[c].emp][claim'[c].month] # None
                    /\ c \in slip'[claim'[c].emp][claim'[c].month].claims
  BY DEF LinkedIsReimbursed
<1>1. claim'[c].emp = claim[c].emp /\ claim'[c].month = claim[c].month
      /\ claim[c].emp \in Employees /\ claim[c].month \in Months
  BY DEF OnlyDetaches, TypeOK, ClaimRows
<1> DEFINE e == claim[c].emp
           m == claim[c].month
<1>2. slip[e][m] # None /\ c \in slip[e][m].claims /\ slip[e][m] \in Slips
  BY <1>1 DEF LinkedIsReimbursed, TypeOK
<1>3. slip'[e][m] \in Slips /\ slip'[e][m] = [slip[e][m] EXCEPT !.status = slip'[e][m].status]
  BY <1>1, <1>2 DEF OnlyDetaches, Restatused
<1>4. slip'[e][m].claims = slip[e][m].claims
  <2> HIDE DEF e, m
  <2> QED
    BY <1>2, <1>3, SameContents
<1> QED
  BY <1>1, <1>2, <1>3, <1>4, NoPayslipAssumption

(* The runs that the step of a payslip review or of another service leaves.  *)
LEMMA QuietKeepsRuns ==
  ASSUME TypeOK, RunDetached, RunOwnClaims, OnlyDetaches, run' = run
  PROVE  RunDetached' /\ RunOwnClaims'
<1>1. \A g \in Runs : run[g] # None => run[g].month # None
  BY PayrollAssumption DEF TypeOK, RunRecords, Months
<1> QED
  BY <1>1 DEF OnlyDetaches, RunDetached, RunOwnClaims

LEMMA LinkStep == ASSUME Serial, LinkInv, [Next]_vars PROVE LinkInv'
<1> USE DEF LinkInv, SerialInv
<1>1. SerialInv'
  BY TypeStep, OneAtATimeKept, RunUnlockedKept, ReviewAllowedKept
<1> SUFFICES LinkedIsReimbursed' /\ RunDetached' /\ RunOwnClaims'
  BY <1>1
<1>2. ASSUME OnlyDetaches, run' = run PROVE LinkedIsReimbursed' /\ RunDetached' /\ RunOwnClaims'
  BY <1>2, DetachingKeepsLinks, QuietKeepsRuns DEF TypeInv
<1>3. ASSUME slip' = slip, claim' = claim PROVE OnlyDetaches
  BY <1>3, SameSlips DEF OnlyDetaches, TypeInv
<1>4. CASE UNCHANGED vars
  BY <1>2, <1>3, <1>4 DEF vars
<1>5. CASE BackgroundStep
  BY <1>2, <1>5, BackgroundSteps, SameSlips DEF Background, OnlyDetaches, TypeInv
<1>6. ASSUME NEW s \in Slots, NEW e \in Employees, NEW m \in Months, NEW status \in SlipStatuses,
             SlipChecks(s, e, m, status)
      PROVE  LinkedIsReimbursed' /\ RunDetached' /\ RunOwnClaims'
  BY <1>2, <1>3, <1>6 DEF SlipChecks, Checks
<1>7. ASSUME NEW s \in Slots, SlipCommits(s)
      PROVE  LinkedIsReimbursed' /\ RunDetached' /\ RunOwnClaims'
  <2>1. run' = run /\ claim' \in {claim, Detached({req[s].emp}, req[s].month)} /\ Restatused
    BY <1>7, SlipCommitted DEF SlipCommits
  <2> QED
    BY <1>2, <2>1, DetachedOnlyDetaches DEF OnlyDetaches, TypeInv
<1>8. ASSUME NEW g \in Runs,
             \/ \E m \in Months : GenerateStarts(g, m)
             \/ \E e \in Employees : GenerateComputes(g, e) \/ GenerateSkips(g, e)
             \/ GenerateReads(g)
      PROVE  LinkedIsReimbursed' /\ RunDetached' /\ RunOwnClaims'
  <2>1. RunMoves(g) /\ claim' = claim
    BY <1>8, RunMovesOnly DEF TypeInv, GenerateStarts, GenerateComputes, GenerateSkips, GenerateReads
  <2>2. LinkedIsReimbursed'
    BY <1>3, <2>1, DetachingKeepsLinks DEF RunMoves, TypeInv
  <2>3. CASE \E m \in Months : GenerateStarts(g, m)
    <3>1. run'[g].step = "recycle"
      BY <2>3 DEF GenerateStarts, TypeInv, TypeOK
    <3> QED
      BY <2>1, <2>2, <3>1 DEF RunMoves, RunDetached, RunOwnClaims
  <2>4. ASSUME NEW e \in Employees, GenerateComputes(g, e)
        PROVE  RunDetached' /\ RunOwnClaims'
    BY <2>1, <2>4, Computed DEF OpenClaims, TypeInv, RunMoves, RunContinues, RunDetached, RunOwnClaims
  <2>5. ASSUME NEW e \in Employees, GenerateSkips(g, e)
        PROVE  RunDetached' /\ RunOwnClaims'
    <3>1. run[g] # None /\ run[g].step = "compute" /\ RunContinues(g)
          /\ (run'[g] # None => run'[g].step = "compute")
      BY <2>5, OnwardContinues DEF GenerateSkips, TypeInv, TypeOK
    <3> QED
      BY <2>1, <3>1 DEF RunMoves, RunContinues, RunDetached, RunOwnClaims
  <2>6. CASE GenerateReads(g)
    BY <2>1, <2>2, <2>6, Read DEF TypeInv, RunMoves, RunContinues, RunDetached, RunOwnClaims
  <2> QED
    BY <1>8, <2>2, <2>3, <2>4, <2>5, <2>6
<1>9. ASSUME NEW g \in Runs, GenerateRecycles(g)
      PROVE  LinkedIsReimbursed' /\ RunDetached' /\ RunOwnClaims'
  <2> DEFINE m == run[g].month
             recyclable == {e \in Employees : slip[e][m] # None /\ ~Locked(e, m)}
  <2>1. RunMoves(g) /\ claim' = Detached(recyclable, m)
    BY <1>9, RunMovesOnly DEF TypeInv, GenerateRecycles
  <2>2. OnlyDetaches
    BY <2>1, DetachedOnlyDetaches, SameSlips DEF OnlyDetaches, TypeInv, RunMoves
  <2>3. \A c \in Claims : claim[c].month = m => claim[c].emp \in recyclable
    BY <1>9, PayrollAssumption
       DEF GenerateRecycles, LinkedIsReimbursed, RunUnlocked, TypeInv, TypeOK, ClaimRows, RunRecords, Months
  <2>4. m # None
    BY <1>9, PayrollAssumption DEF GenerateRecycles, TypeInv, TypeOK, RunRecords, Months
  <2>5. \A c \in Claims : claim'[c].month # m
    BY <2>1, <2>3, <2>4, DetachedOnlyDetaches DEF TypeInv
  <2>6. LinkedIsReimbursed'
    BY <2>2, DetachingKeepsLinks DEF TypeInv
  <2>7. run'[g].month = m /\ run'[g].step = "compute"
    BY <1>9, Recycled DEF TypeInv, RunContinues
  <2>8. \A h \in Runs : run'[h] # None => h = g
    BY <1>9, <2>1 DEF GenerateRecycles, RunMoves, OneAtATime
  <2> HIDE DEF m, recyclable
  <2>9. RunDetached' /\ RunOwnClaims'
    BY <2>5, <2>7, <2>8 DEF RunDetached, RunOwnClaims
  <2> QED
    BY <2>6, <2>9
<1>10. ASSUME NEW g \in Runs, GenerateCommits(g)
       PROVE  LinkedIsReimbursed' /\ RunDetached' /\ RunOwnClaims'
  <2>0. /\ run[g] # None /\ run[g].step = "commit" /\ run[g].emp \in run[g].todo
        /\ run[g].emp \in Employees /\ run[g].month \in Months /\ run[g].month # None
        /\ CommitFails(g) \/ CommitWrites(g)
    BY <1>10, Commits, PayrollAssumption DEF Months
  <2>1. CASE CommitFails(g)
    <3>1. OnlyDetaches
      BY <1>3, <2>1 DEF CommitFails
    <3>2. run'[g] = None /\ \A h \in Runs : h # g => run'[h] = run[h]
      BY <2>1 DEF CommitFails, TypeInv, TypeOK
    <3> QED
      BY <2>1, <3>1, <3>2, DetachingKeepsLinks DEF CommitFails, TypeInv, RunDetached, RunOwnClaims
  <2>2. CASE CommitWrites(g)
    <3> DEFINE e == run[g].emp
               m == run[g].month
    <3>1. /\ RunContinues(g) /\ \A h \in Runs : h # g => run'[h] = run[h]
          /\ run'[g] # None => run'[g].step = "compute" /\ e \notin run'[g].todo
      BY <2>0, <2>2, OnwardContinues DEF CommitWrites, TypeInv, TypeOK
    <3>2. \A h \in Runs : run'[h] # None => h = g
      BY <2>0, <3>1 DEF OneAtATime
    <3>3. \A c \in Claims :
             /\ claim'[c].emp = claim[c].emp
             /\ \/ claim'[c].month = claim[c].month
                \/ c \in run[g].claims /\ claim'[c].month = m /\ claim[c].emp = e
      BY <2>0, <2>2 DEF CommitWrites, RunOwnClaims
    <3>4. \A c \in Claims : claim[c].month = m => claim[c].emp # e
      BY <2>0 DEF RunDetached
    <3>5. /\ slip'[e][m] \in Slips /\ slip'[e][m].claims = run[g].claims
          /\ \A i \in Employees, j \in Months : i # e \/ j # m => slip'[i][j] = slip[i][j]
      BY <2>2 DEF CommitWrites
    <3>6. \A c \in Claims : claim[c].emp \in Employees /\ claim[c].month \in Months \cup {None}
      BY DEF TypeInv, TypeOK, ClaimRows
    <3>7. RunDetached'
      <4>1. ASSUME NEW c \in Claims, run'[g] # None, claim'[c].month = run'[g].month
            PROVE  claim'[c].emp \notin run'[g].todo
        BY <2>0, <3>1, <3>3, <4>1 DEF RunContinues, RunDetached
      <4> QED
        BY <3>2, <4>1 DEF RunDetached
    <3>8. RunOwnClaims'
      BY <3>1, <3>2 DEF RunOwnClaims
    <3>9. LinkedIsReimbursed'
      <4> SUFFICES ASSUME NEW c \in Claims, claim'[c].month # None
                   PROVE  /\ slip'[claim[c].emp][claim'[c].month] # None
                          /\ c \in slip'[claim[c].emp][claim'[c].month].claims
        BY <3>3 DEF LinkedIsReimbursed
      <4> HIDE DEF e, m
      <4>1. CASE c \in run[g].claims /\ claim'[c].month = m /\ claim[c].emp = e
        BY <3>5, <4>1, NoPayslipAssumption
      <4>2. CASE claim'[c].month = claim[c].month
        BY <3>4, <3>5, <3>6, <4>2 DEF LinkedIsReimbursed
      <4> QED
        BY <3>3, <4>1, <4>2
    <3> QED
      BY <3>7, <3>8, <3>9
  <2> QED
    BY <2>0, <2>1, <2>2
<1>11. ASSUME NEW m \in Months, ApproveBatch(m) \/ DisburseBatch(m)
       PROVE  LinkedIsReimbursed' /\ RunDetached' /\ RunOwnClaims'
  <2>1. Restatused /\ run' = run /\ claim' = claim
    BY <1>11, BatchMoved DEF ApproveBatch, DisburseBatch, TypeInv
  <2> QED
    BY <1>2, <2>1 DEF OnlyDetaches
<1> QED
  BY <1>4, <1>5, <1>6, <1>7, <1>8, <1>9, <1>10, <1>11, NextSplits DEF PayrollStep

(* A claim that is attached to a payslip is paid by that payslip: under serial *)
(* administration no claim is stranded, however often months are regenerated, *)
(* payslips rejected and claims reviewed meanwhile.                         *)
THEOREM LinkedClaimsAreReimbursed == ASSUME Serial PROVE Spec => []LinkedIsReimbursed
<1>1. Init => LinkInv
  BY InitTyped DEF Init, LinkInv, SerialInv, OneAtATime, RunUnlocked, ReviewAllowed, IsSlipReview,
                   LinkedIsReimbursed, RunDetached, RunOwnClaims
<1>2. LinkInv /\ [Next]_vars => LinkInv'
  BY LinkStep
<1> QED
  BY <1>1, <1>2, PTL DEF Spec, LinkInv

-----------------------------------------------------------------------------
(* The same for settlements, which a run reopens by the calendar month: that  *)
(* is enough when the payroll cycle is the calendar month.                  *)
CalendarIsMonth == \A x \in Settlements : settle[x].calendar = settle[x].month

RunReopened ==
    \A g \in Runs, x \in Settlements :
        /\ run[g] # None /\ run[g].step # "recycle"
        /\ settle[x].status = "PROCESSED" /\ settle[x].month = run[g].month
        => settle[x].emp \notin run[g].todo

RunOwnSettlements ==
    \A g \in Runs, x \in Settlements :
        run[g] # None /\ run[g].step \in {"begin", "commit"} /\ x \in run[g].settled =>
            settle[x].emp = run[g].emp /\ settle[x].month = run[g].month

SettleInv ==
    SerialInv /\ ProcessedIsSettled /\ CalendarIsMonth /\ RunReopened /\ RunOwnSettlements

OnlyReopens ==
    /\ \A x \in Settlements :
          /\ settle'[x].emp = settle[x].emp /\ settle'[x].month = settle[x].month
          /\ settle'[x].calendar = settle[x].calendar
          /\ settle'[x].status \in {settle[x].status, "READY"}
    /\ Restatused

LEMMA ReopeningKeepsSettled ==
  ASSUME TypeOK, ProcessedIsSettled, CalendarIsMonth, OnlyReopens
  PROVE  ProcessedIsSettled' /\ CalendarIsMonth'
<1>1. CalendarIsMonth'
  BY DEF OnlyReopens, CalendarIsMonth
<1> SUFFICES ASSUME NEW x \in Settlements, settle'[x].status = "PROCESSED"
             PROVE  /\ slip'[settle'[x].emp][settle'[x].month] # None
                    /\ x \in slip'[settle'[x].emp][settle'[x].month].settled
  BY <1>1 DEF ProcessedIsSettled
<1> DEFINE e == settle[x].emp
           m == settle[x].month
<1>2. settle'[x].emp = e /\ settle'[x].month = m /\ settle[x].status = "PROCESSED"
  BY DEF OnlyReopens
<1>3. e \in Employees /\ m \in Months
  BY DEF TypeOK, SettlementRows
<1>4. slip[e][m] # None /\ x \in slip[e][m].settled /\ slip[e][m] \in Slips
  BY <1>2, <1>3 DEF ProcessedIsSettled, TypeOK
<1>5. slip'[e][m] \in Slips /\ slip'[e][m] = [slip[e][m] EXCEPT !.status = slip'[e][m].status]
  BY <1>3, <1>4 DEF OnlyReopens, Restatused
<1>6. slip'[e][m].settled = slip[e][m].settled
  <2> HIDE DEF e, m
  <2> QED
    BY <1>4, <1>5, SameContents
<1> QED
  BY <1>2, <1>4, <1>5, <1>6, NoPayslipAssumption

LEMMA QuietKeepsReopened ==
  ASSUME RunReopened, RunOwnSettlements, OnlyReopens, run' = run
  PROVE  RunReopened' /\ RunOwnSettlements'
BY DEF OnlyReopens, RunReopened, RunOwnSettlements

LEMMA SettleStep == ASSUME Serial, SettleInv, [Next]_vars PROVE SettleInv'
<1> USE DEF SettleInv, SerialInv
<1> DEFINE Goal == ProcessedIsSettled' /\ CalendarIsMonth' /\ RunReopened' /\ RunOwnSettlements'
<1>1. SerialInv'
  BY TypeStep, OneAtATimeKept, RunUnlockedKept, ReviewAllowedKept
<1> SUFFICES Goal
  BY <1>1
<1>2. ASSUME OnlyReopens, run' = run PROVE Goal
  BY <1>2, ReopeningKeepsSettled, QuietKeepsReopened DEF TypeInv
<1>3. ASSUME slip' = slip, settle' = settle PROVE OnlyReopens
  BY <1>3, SameSlips DEF OnlyReopens, TypeInv
<1>4. CASE UNCHANGED vars
  BY <1>2, <1>3, <1>4 DEF vars
<1>5. CASE BackgroundStep
  BY <1>2, <1>5, BackgroundSteps, SameSlips DEF Background, OnlyReopens, TypeInv
<1>6. ASSUME NEW s \in Slots, NEW e \in Employees, NEW m \in Months, NEW status \in SlipStatuses,
             SlipChecks(s, e, m, status)
      PROVE  Goal
  BY <1>2, <1>3, <1>6 DEF SlipChecks, Checks
<1>7. ASSUME NEW s \in Slots, SlipCommits(s) PROVE Goal
  <2>1. run' = run /\ settle' = settle /\ Restatused
    BY <1>7, SlipCommitted DEF SlipCommits
  <2> QED
    BY <1>2, <2>1 DEF OnlyReopens
<1>8. ASSUME NEW g \in Runs,
             \/ \E m \in Months : GenerateStarts(g, m)
             \/ \E e \in Employees : GenerateComputes(g, e) \/ GenerateSkips(g, e)
             \/ GenerateReads(g)
      PROVE  Goal
  <2>1. RunMoves(g) /\ settle' = settle
    BY <1>8, RunMovesOnly DEF TypeInv, GenerateStarts, GenerateComputes, GenerateSkips, GenerateReads
  <2>2. ProcessedIsSettled' /\ CalendarIsMonth'
    BY <1>3, <2>1, ReopeningKeepsSettled DEF RunMoves, TypeInv
  <2>3. ASSUME NEW m \in Months, GenerateStarts(g, m) PROVE RunReopened' /\ RunOwnSettlements'
    <3>1. run'[g].step = "recycle"
      BY <2>3 DEF GenerateStarts, TypeInv, TypeOK
    <3> QED
      BY <2>1, <3>1 DEF RunMoves, RunReopened, RunOwnSettlements
  <2>4. ASSUME NEW e \in Employees, GenerateComputes(g, e)
        PROVE  RunReopened' /\ RunOwnSettlements'
    <3>1. /\ RunContinues(g) /\ run[g] # None /\ run[g].step = "compute" /\ run'[g].emp = e
          /\ \A x \in run'[g].settled : settle[x].emp = e /\ settle[x].month = run[g].month
      BY <2>4, Computed DEF TypeInv
    <3> QED
      BY <2>1, <3>1 DEF RunMoves, RunContinues, RunReopened, RunOwnSettlements
  <2>5. ASSUME NEW e \in Employees, GenerateSkips(g, e)
        PROVE  RunReopened' /\ RunOwnSettlements'
    <3>1. run[g] # None /\ run[g].step = "compute" /\ RunContinues(g)
          /\ (run'[g] # None => run'[g].step = "compute")
      BY <2>5, OnwardContinues DEF GenerateSkips, TypeInv, TypeOK
    <3> QED
      BY <2>1, <3>1 DEF RunMoves, RunContinues, RunReopened, RunOwnSettlements
  <2>6. ASSUME GenerateReads(g) PROVE RunReopened' /\ RunOwnSettlements'
    <3>1. /\ RunContinues(g) /\ run[g] # None /\ run[g].step = "begin"
          /\ run'[g].emp = run[g].emp /\ run'[g].settled = run[g].settled
      BY <2>6, Read DEF TypeInv
    <3> QED
      BY <2>1, <3>1 DEF RunMoves, RunContinues, RunReopened, RunOwnSettlements
  <2> QED
    BY <1>8, <2>2, <2>3, <2>4, <2>5, <2>6
<1>9. ASSUME NEW g \in Runs, GenerateRecycles(g) PROVE Goal
  <2> DEFINE m == run[g].month
             recyclable == {e \in Employees : slip[e][m] # None /\ ~Locked(e, m)}
  <2>1. /\ RunMoves(g) /\ run[g] # None
        /\ settle' = [x \in Settlements |->
                         IF /\ settle[x].calendar = m /\ settle[x].emp \in recyclable
                            /\ settle[x].status = "PROCESSED"
                         THEN [settle[x] EXCEPT !.status = "READY"] ELSE settle[x]]
    BY <1>9, RunMovesOnly DEF TypeInv, GenerateRecycles
  <2>2. \A x \in Settlements :
           settle[x].status = "PROCESSED" /\ settle[x].month = m =>
               settle[x].calendar = m /\ settle[x].emp \in recyclable
    BY <2>1 DEF ProcessedIsSettled, CalendarIsMonth, RunUnlocked, TypeInv, TypeOK, SettlementRows
  <2>3. run'[g].month = m /\ run'[g].step = "compute"
    BY <1>9, Recycled DEF TypeInv, RunContinues
  <2>4. \A h \in Runs : run'[h] # None => h = g
    BY <2>1 DEF RunMoves, OneAtATime
  <2> HIDE DEF m, recyclable
  <2>5. \A x \in Settlements :
           /\ settle'[x].emp = settle[x].emp /\ settle'[x].month = settle[x].month
           /\ settle'[x].calendar = settle[x].calendar
           /\ settle'[x].status \in {settle[x].status, "READY"}
           /\ settle[x].calendar = m /\ settle[x].emp \in recyclable => settle'[x].status # "PROCESSED"
    BY <2>1 DEF TypeInv, TypeOK, SettlementRows
  <2>6. ProcessedIsSettled' /\ CalendarIsMonth'
    BY <2>1, <2>5, SameSlips, ReopeningKeepsSettled DEF OnlyReopens, RunMoves, TypeInv
  <2>7. RunReopened' /\ RunOwnSettlements'
    BY <2>2, <2>3, <2>4, <2>5 DEF RunReopened, RunOwnSettlements
  <2> QED
    BY <2>6, <2>7
<1>10. ASSUME NEW g \in Runs, GenerateCommits(g) PROVE Goal
  <2>0. /\ run[g] # None /\ run[g].step = "commit" /\ run[g].emp \in run[g].todo
        /\ run[g].emp \in Employees /\ run[g].month \in Months
        /\ CommitFails(g) \/ CommitWrites(g)
    BY <1>10, Commits
  <2>1. CASE CommitFails(g)
    <3>1. run'[g] = None /\ \A h \in Runs : h # g => run'[h] = run[h]
      BY <2>1 DEF CommitFails, TypeInv, TypeOK
    <3>2. ProcessedIsSettled' /\ CalendarIsMonth'
      BY <1>3, <2>1, ReopeningKeepsSettled DEF CommitFails, TypeInv
    <3> QED
      BY <2>1, <3>1, <3>2 DEF CommitFails, RunReopened, RunOwnSettlements
  <2>2. CASE CommitWrites(g)
    <3> DEFINE e == run[g].emp
               m == run[g].month
    <3>1. /\ RunContinues(g) /\ \A h \in Runs : h # g => run'[h] = run[h]
          /\ run'[g] # None => run'[g].step = "compute" /\ e \notin run'[g].todo
      BY <2>0, <2>2, OnwardContinues DEF CommitWrites, TypeInv, TypeOK
    <3>2. \A h \in Runs : run'[h] # None => h = g
      BY <2>0, <3>1 DEF OneAtATime
    <3>3. \A x \in Settlements :
             /\ settle'[x].emp = settle[x].emp /\ settle'[x].month = settle[x].month
             /\ settle'[x].calendar = settle[x].calendar
             /\ \/ settle'[x].status = settle[x].status /\ x \notin run[g].settled
                \/ x \in run[g].settled /\ settle[x].month = m /\ settle[x].emp = e
      BY <2>0, <2>2 DEF CommitWrites, RunOwnSettlements
    <3>4. \A x \in Settlements : settle[x].status = "PROCESSED" /\ settle[x].month = m => settle[x].emp # e
      BY <2>0 DEF RunReopened
    <3>5. /\ slip'[e][m] \in Slips /\ slip'[e][m].settled = run[g].settled
          /\ \A i \in Employees, j \in Months : i # e \/ j # m => slip'[i][j] = slip[i][j]
      BY <2>2 DEF CommitWrites
    <3>6. \A x \in Settlements : settle[x].emp \in Employees /\ settle[x].month \in Months
      BY DEF TypeInv, TypeOK, SettlementRows
    <3>7. RunReopened'
      <4>1. ASSUME NEW x \in Settlements, run'[g] # None, settle'[x].status = "PROCESSED",
                   settle'[x].month = run'[g].month
            PROVE  settle'[x].emp \notin run'[g].todo
        BY <2>0, <3>1, <3>3, <4>1 DEF RunContinues, RunReopened
      <4> QED
        BY <3>2, <4>1 DEF RunReopened
    <3>8. RunOwnSettlements'
      BY <3>1, <3>2 DEF RunOwnSettlements
    <3>9. ProcessedIsSettled'
      <4> SUFFICES ASSUME NEW x \in Settlements, settle'[x].status = "PROCESSED"
                   PROVE  /\ slip'[settle[x].emp][settle[x].month] # None
                          /\ x \in slip'[settle[x].emp][settle[x].month].settled
        BY <3>3 DEF ProcessedIsSettled
      <4> HIDE DEF e, m
      <4>1. CASE x \in run[g].settled /\ settle[x].month = m /\ settle[x].emp = e
        BY <3>5, <4>1, NoPayslipAssumption
      <4>2. CASE settle'[x].status = settle[x].status /\ x \notin run[g].settled
        BY <3>4, <3>5, <3>6, <4>2 DEF ProcessedIsSettled
      <4> QED
        BY <3>3, <4>1, <4>2
    <3>10. CalendarIsMonth'
      BY <3>3 DEF CalendarIsMonth
    <3> QED
      BY <3>7, <3>8, <3>9, <3>10
  <2> QED
    BY <2>0, <2>1, <2>2
<1>11. ASSUME NEW m \in Months, ApproveBatch(m) \/ DisburseBatch(m) PROVE Goal
  <2>1. Restatused /\ run' = run /\ settle' = settle
    BY <1>11, BatchMoved DEF ApproveBatch, DisburseBatch, TypeInv
  <2> QED
    BY <1>2, <2>1 DEF OnlyReopens
<1> HIDE DEF Goal
<1> QED
  BY <1>4, <1>5, <1>6, <1>7, <1>8, <1>9, <1>10, <1>11, NextSplits DEF PayrollStep

(* With calendar-month payroll and serial administration, a settlement marked *)
(* PROCESSED is in its month's payslip, whatever is regenerated or skipped.  *)
THEOREM ProcessedAreSettled == ASSUME Serial, ~Straddles PROVE Spec => []ProcessedIsSettled
<1>1. Init => SettleInv
  <2> SUFFICES ASSUME Init PROVE SettleInv
    OBVIOUS
  <2>1. CalendarIsMonth
    BY DEF Init, CalendarIsMonth
  <2>2. \A x \in Settlements : settle[x].status = "NOT_READY"
    BY DEF Init
  <2> QED
    BY <2>1, <2>2, InitTyped DEF Init, SettleInv, SerialInv, OneAtATime, RunUnlocked, ReviewAllowed,
                           IsSlipReview, ProcessedIsSettled, RunReopened, RunOwnSettlements
<1>2. SettleInv /\ [Next]_vars => SettleInv'
  BY SettleStep
<1> QED
  BY <1>1, <1>2, PTL DEF Spec, SettleInv

-----------------------------------------------------------------------------
(* A transaction about to write balances read them as they still are: no other *)
(* run is under way, and reviews of a loan leave its balance alone.          *)
SeenCurrent ==
    \A g \in Runs, l \in Loans :
        run[g] # None /\ run[g].step = "commit" /\ run[g].seen[l] # None =>
            run[g].seen[l] = loan[l].outstanding

Balanced == \A l \in Loans : loan[l].outstanding + SumOf(repaid[l], Months) = Amount

LedgerInv == SerialInv /\ Balanced /\ SeenCurrent

LEMMA MonthsFinite == IsFiniteSet(Months)
BY PayrollAssumption, FS_Interval DEF Months

(* The sum of a loan's repayments, as the invariant of the code has it.      *)
LEMMA BalancedLedger == ASSUME TypeOK, Balanced PROVE LedgerBalances
<1> DEFINE F(f) == FoldFunction(+, 0, f)
<1>1. ASSUME NEW f \in [Months -> Nat] PROVE F(f) = SumOf(f, Months)
  <2>1. DOMAIN f = Months
    OBVIOUS
  <2> QED
    BY <2>1 DEF FoldFunction, FoldFunctionOnSet, SumOf, MapThenSumSet, MapThenFoldSet
<1>2. (\A l \in Loans : loan[l].outstanding + F(repaid[l]) = Amount) => LedgerBalances
  BY Zenon DEF LedgerBalances
<1> HIDE DEF F
<1> QED
  BY <1>1, <1>2 DEF Balanced, TypeOK

LEMMA ReviewsKeepBalances ==
  ASSUME TypeOK, BackgroundStep
  PROVE  repaid' = repaid /\ \A l \in Loans : loan'[l].outstanding = loan[l].outstanding
<1>1. ASSUME NEW s \in Slots,
             \/ \E c \in Claims, status \in {"APPROVED", "REJECTED"} : ClaimReviewChecks(s, c, status)
             \/ \E c \in Claims : ClaimCancelChecks(s, c)
             \/ \E l \in Loans, status \in {"APPROVED", "REJECTED", "CLOSED"} : LoanReviewChecks(s, l, status)
      PROVE  UNCHANGED <<loan, repaid>>
  BY <1>1 DEF ClaimReviewChecks, ClaimCancelChecks, LoanReviewChecks, Checks
<1>2. ASSUME NEW q, NEW st, repaid' = repaid, loan' = [loan EXCEPT ![q].status = st]
      PROVE  repaid' = repaid /\ \A l \in Loans : loan'[l].outstanding = loan[l].outstanding
  BY <1>2 DEF TypeOK, LoanRows
<1>3. ASSUME NEW l \in Loans, LoanApply(l)
      PROVE  repaid' = repaid /\ \A k \in Loans : loan'[k].outstanding = loan[k].outstanding
  BY <1>2, <1>3 DEF LoanApply
<1>4. ASSUME NEW s \in Slots, LoanReviewCommits(s)
      PROVE  repaid' = repaid /\ \A l \in Loans : loan'[l].outstanding = loan[l].outstanding
  BY <1>2, <1>4 DEF LoanReviewCommits
<1>5. ASSUME NEW s \in Slots, ClaimReviewCommits(s) \/ ClaimCancelCommits(s)
      PROVE  UNCHANGED <<loan, repaid>>
  BY <1>5 DEF ClaimReviewCommits, ClaimCancelCommits
<1>6. CASE MonthEnds \/ (\E c \in Claims : ClaimSubmit(c)) \/ \E x \in Settlements : SettlementReady(x)
  BY <1>6 DEF MonthEnds, ClaimSubmit, SettlementReady
<1> QED
  BY <1>1, <1>3, <1>4, <1>5, <1>6 DEF BackgroundStep

(* What a transaction collects on a loan leaves its balance.                *)
LEMMA CollectedBalances ==
  ASSUME LedgerInv, NEW g \in Runs, GenerateCommits(g)
  PROVE  Balanced'
<1> DEFINE r == run[g]
           posted == {l \in Loans : r.seen[l] # None}
<1>1. r # None /\ r.step = "commit" /\ r \in RunRecords /\ r.month \in Months
  BY Commits DEF LedgerInv, SerialInv, TypeInv, TypeOK
<1>2. CASE \E l \in posted : repaid[l][r.month] # 0
  BY <1>2 DEF GenerateCommits, LedgerInv, Balanced
<1>3. CASE ~\E l \in posted : repaid[l][r.month] # 0
  <2>1. /\ repaid' = [l \in Loans |->
                         IF l \in posted THEN [repaid[l] EXCEPT ![r.month] = Collected(r, l)] ELSE repaid[l]]
        /\ loan' = [l \in Loans |->
                         IF l \in posted
                         THEN [loan[l] EXCEPT !.outstanding = r.seen[l] - Collected(r, l),
                                              !.status = IF r.seen[l] = Collected(r, l)
                                                         THEN "CLOSED" ELSE "APPROVED"]
                         ELSE loan[l]]
    BY <1>3 DEF GenerateCommits
  <2> SUFFICES ASSUME NEW l \in Loans
               PROVE  loan'[l].outstanding + SumOf(repaid'[l], Months) = Amount
    BY DEF Balanced
  <2>2. loan[l].outstanding + SumOf(repaid[l], Months) = Amount
    BY DEF LedgerInv, Balanced
  <2>3. CASE l \notin posted
    BY <2>1, <2>2, <2>3
  <2>4. CASE l \in posted
    <3> DEFINE n == Collected(r, l)
               st == IF r.seen[l] = n THEN "CLOSED" ELSE "APPROVED"
               row == [loan[l] EXCEPT !.outstanding = r.seen[l] - n, !.status = st]
               post == [repaid[l] EXCEPT ![r.month] = n]
    <3>1. r.seen[l] = loan[l].outstanding /\ repaid[l][r.month] = 0
      BY <1>1, <1>3, <2>4 DEF LedgerInv, SeenCurrent
    <3>2. loan[l] \in LoanRows /\ loan[l].outstanding \in Nat /\ repaid[l] \in [Months -> Nat]
      BY DEF LedgerInv, SerialInv, TypeInv, TypeOK, LoanRows
    <3>3. n \in Nat /\ r.seen[l] - n \in Nat
      BY <3>1, <3>2, PayrollAssumption, SmallerNat DEF Collected
    <3>4. loan'[l] = row /\ repaid'[l] = post
      BY <2>1, <2>4
    <3> HIDE DEF n, st, r
    <3>5. row.outstanding = r.seen[l] - n
      BY <3>2 DEF LoanRows
    <3>6. post \in [Months -> Nat] /\ post[r.month] = n /\ \A m \in Months : m # r.month => repaid[l][m] = post[m]
      BY <1>1, <3>2, <3>3
    <3> HIDE DEF row, post
    <3>7. SumOf(post, Months) + repaid[l][r.month] = SumOf(repaid[l], Months) + post[r.month]
      <4>1. \A m \in Months : repaid[l][m] \in Nat /\ post[m] \in Nat /\ (m # r.month => repaid[l][m] = post[m])
        BY <3>2, <3>6
      <4>2. IsFiniteSet(Months)
        BY MonthsFinite
      <4> QED
        BY <1>1, <4>1, <4>2, SumChange
    <3>8. SumOf(repaid[l], Months) \in Nat /\ SumOf(post, Months) \in Nat
      BY <3>2, <3>6, MonthsFinite, SumNat
    <3>9. (r.seen[l] - n) + SumOf(post, Months) = Amount
      <4> DEFINE before == SumOf(repaid[l], Months)
                 after == SumOf(post, Months)
      <4>1. after + 0 = before + n /\ before \in Nat /\ after \in Nat
        BY <3>1, <3>6, <3>7, <3>8
      <4> HIDE DEF before, after
      <4>2. r.seen[l] + before = Amount /\ r.seen[l] \in Nat /\ n \in Nat
        BY <2>2, <3>1, <3>2, <3>3 DEF before
      <4>3. (r.seen[l] - n) + after = Amount
        BY <4>1, <4>2
      <4> QED
        BY <4>3 DEF after
    <3> QED
      BY <3>4, <3>5, <3>9
  <2> QED
    BY <2>3, <2>4
<1> QED
  BY <1>2, <1>3

LEMMA LedgerStep == ASSUME Serial, LedgerInv, [Next]_vars PROVE LedgerInv'
<1> USE DEF LedgerInv, SerialInv
<1> DEFINE Goal == Balanced' /\ SeenCurrent'
<1>1. SerialInv'
  BY TypeStep, OneAtATimeKept, RunUnlockedKept, ReviewAllowedKept
<1> SUFFICES Goal
  BY <1>1
<1>2. ASSUME repaid' = repaid, \A l \in Loans : loan'[l].outstanding = loan[l].outstanding
      PROVE  Balanced'
  BY <1>2 DEF Balanced
<1>3. ASSUME repaid' = repaid, \A l \in Loans : loan'[l].outstanding = loan[l].outstanding, run' = run
      PROVE  Goal
  BY <1>2, <1>3 DEF SeenCurrent
<1>4. CASE UNCHANGED vars
  BY <1>3, <1>4 DEF vars
<1>5. CASE BackgroundStep
  BY <1>3, <1>5, BackgroundSteps, ReviewsKeepBalances DEF Background, TypeInv
<1>6. ASSUME NEW s \in Slots, NEW e \in Employees, NEW m \in Months, NEW status \in SlipStatuses,
             SlipChecks(s, e, m, status)
      PROVE  Goal
  BY <1>3, <1>6 DEF SlipChecks, Checks
<1>7. ASSUME NEW s \in Slots, SlipCommits(s) PROVE Goal
  BY <1>3, <1>7 DEF SlipCommits
<1>8. ASSUME NEW g \in Runs,
             \/ \E m \in Months : GenerateStarts(g, m)
             \/ GenerateRecycles(g)
             \/ \E e \in Employees : GenerateComputes(g, e) \/ GenerateSkips(g, e)
             \/ GenerateReads(g)
      PROVE  Goal
  <2>1. RunMoves(g) /\ loan' = loan /\ repaid' = repaid
    BY <1>8, RunMovesOnly
       DEF TypeInv, GenerateStarts, GenerateRecycles, GenerateComputes, GenerateSkips, GenerateReads
  <2>2. SUFFICES ASSUME run'[g] # None, run'[g].step = "commit"
                 PROVE  \A l \in Loans : run'[g].seen[l] # None => run'[g].seen[l] = loan[l].outstanding
    BY <1>2, <2>1 DEF RunMoves, SeenCurrent
  <2>3. ASSUME NEW m \in Months, GenerateStarts(g, m) PROVE FALSE
    BY <2>2, <2>3 DEF GenerateStarts, TypeInv, TypeOK
  <2>4. ASSUME GenerateRecycles(g) PROVE FALSE
    BY <2>2, <2>4, Recycled DEF TypeInv
  <2>5. ASSUME NEW e \in Employees, GenerateComputes(g, e) PROVE FALSE
    BY <2>2, <2>5, Computed DEF TypeInv
  <2>6. ASSUME NEW e \in Employees, GenerateSkips(g, e) PROVE FALSE
    BY <2>2, <2>6, OnwardContinues DEF GenerateSkips, TypeInv, TypeOK
  <2>7. ASSUME GenerateReads(g)
        PROVE  \A l \in Loans : run'[g].seen[l] # None => run'[g].seen[l] = loan[l].outstanding
    <3> DEFINE ls == ToCollect(run[g].emp, run[g].month)
    <3>1. run[g] \in RunRecords /\ run' = [run EXCEPT ![g] = [run[g] EXCEPT !.step = "commit", !.seen = ls]]
      BY <2>7 DEF GenerateReads, TypeInv, TypeOK
    <3>2. run'[g].seen = ls
      <4> HIDE DEF ls
      <4> QED
        BY <3>1 DEF RunRecords, TypeInv, TypeOK
    <3> QED
      BY <3>2 DEF ToCollect
  <2> QED
    BY <1>8, <2>3, <2>4, <2>5, <2>6, <2>7
<1>9. ASSUME NEW g \in Runs, GenerateCommits(g) PROVE Goal
  <2>1. Balanced'
    BY <1>9, CollectedBalances
  <2>2. \A h \in Runs : run'[h] # None => run'[h].step # "commit"
    <3>1. \A h \in Runs : h # g => run[h] = None
      BY <1>9, Commits DEF OneAtATime
    <3>2. CASE CommitFails(g)
      BY <3>1, <3>2 DEF CommitFails, TypeInv, TypeOK
    <3>3. CASE CommitWrites(g)
      <4>1. Onward(g, run[g].emp) /\ run[g] # None
        BY <1>9, <3>3, Commits DEF CommitWrites
      <4> QED
        BY <3>1, <4>1, OnwardContinues DEF TypeInv, TypeOK
    <3> QED
      BY <1>9, <3>2, <3>3, Commits
  <2> QED
    BY <2>1, <2>2 DEF SeenCurrent
<1>10. ASSUME NEW m \in Months, ApproveBatch(m) \/ DisburseBatch(m) PROVE Goal
  BY <1>3, <1>10 DEF ApproveBatch, DisburseBatch
<1> HIDE DEF Goal
<1> QED
  BY <1>4, <1>5, <1>6, <1>7, <1>8, <1>9, <1>10, NextSplits DEF PayrollStep

(* With serial administration, what a loan's instalments have taken and what is *)
(* left of it make up its amount, however often a month is generated, whatever  *)
(* its reviews do meanwhile, for any instalment and any number of loans.      *)
THEOREM LoansBalance == ASSUME Serial PROVE Spec => []LedgerBalances
<1>1. Init => LedgerInv
  <2> SUFFICES ASSUME Init PROVE LedgerInv
    OBVIOUS
  <2>1. SerialInv
    BY InitTyped DEF Init, SerialInv, OneAtATime, RunUnlocked, ReviewAllowed, IsSlipReview
  <2>2. SeenCurrent
    BY DEF Init, SeenCurrent
  <2>3. ASSUME NEW l \in Loans PROVE loan[l].outstanding + SumOf(repaid[l], Months) = Amount
    <3>1. loan[l].outstanding = Amount /\ repaid[l] \in [Months -> Nat] /\ \A m \in Months : repaid[l][m] = 0
      BY DEF Init
    <3>2. SumOf(repaid[l], Months) = 0
      BY <3>1, MonthsFinite, SumZero
    <3> QED
      BY <3>1, <3>2, PayrollAssumption
  <2> QED
    BY <2>1, <2>2, <2>3 DEF LedgerInv, Balanced
<1>2. LedgerInv /\ [Next]_vars => LedgerInv'
  BY LedgerStep
<1>3. LedgerInv => LedgerBalances
  BY BalancedLedger DEF LedgerInv, SerialInv, TypeInv
<1> QED
  BY <1>1, <1>2, <1>3, PTL DEF Spec

-----------------------------------------------------------------------------
CycleDay == Nat \ {0}

(* A date lies in its month, and later days of a month have later dates.       *)
LEMMA DateInMonth ==
    ASSUME NEW m \in -1 .. Horizon, NEW day \in CycleDay
    PROVE  /\ D!Date(m, day) \in Int
           /\ FirstDay[m] <= D!Date(m, day) /\ D!Date(m, day) < FirstDay[m + 1]
<1>1. m \in -1 .. Horizon + 1 /\ m + 1 \in -1 .. Horizon + 1 /\ m < m + 1
  BY CalendarAssumption
<1>2. FirstDay[m] \in Int /\ FirstDay[m + 1] \in Int /\ FirstDay[m] < FirstDay[m + 1]
  BY <1>1, CalendarAssumption
<1> QED
  BY <1>2 DEF D!Date, D!clampDay, D!MonthLength, CycleDay

LEMMA DateMonotone ==
    ASSUME NEW m \in -1 .. Horizon, NEW d \in CycleDay, NEW e \in CycleDay, d <= e
    PROVE  D!Date(m, d) <= D!Date(m, e)
<1>1. m \in -1 .. Horizon + 1 /\ m + 1 \in -1 .. Horizon + 1
  BY CalendarAssumption
<1>2. FirstDay[m] \in Int /\ FirstDay[m + 1] \in Int
  BY <1>1, CalendarAssumption
<1> QED
  BY <1>2 DEF D!Date, D!clampDay, D!MonthLength, CycleDay

LEMMA CycleTyped ==
    ASSUME cycle \in Cycles
    PROVE  cycle.start \in CycleDay /\ cycle.end \in CycleDay
BY PolicyAssumption DEF CycleDay

(* The period of a month is not empty and ends in the month.                   *)
LEMMA PeriodInMonths ==
    ASSUME cycle \in Cycles, NEW m \in 0 .. Horizon
    PROVE  /\ D!First(m) \in Int /\ D!Last(m) \in Int /\ D!First(m) <= D!Last(m)
           /\ FirstDay[m - 1] <= D!First(m) /\ D!Last(m) < FirstDay[m + 1]
           /\ cycle.start < cycle.end => FirstDay[m] <= D!First(m)
<1>1. cycle.start \in CycleDay /\ cycle.end \in CycleDay
  BY CycleTyped
<1>2. m \in -1 .. Horizon /\ m - 1 \in -1 .. Horizon /\ (m - 1) + 1 = m
  BY CalendarAssumption
<1>3. /\ D!Date(m, cycle.start) \in Int /\ D!Date(m, cycle.end) \in Int
      /\ FirstDay[m] <= D!Date(m, cycle.start)
      /\ FirstDay[m] <= D!Date(m, cycle.end) /\ D!Date(m, cycle.end) < FirstDay[m + 1]
  BY <1>1, <1>2, DateInMonth
<1>4. /\ D!Date(m - 1, cycle.start) \in Int
      /\ FirstDay[m - 1] <= D!Date(m - 1, cycle.start) /\ D!Date(m - 1, cycle.start) < FirstDay[m]
  BY <1>1, <1>2, DateInMonth
<1>5. FirstDay[m] \in Int /\ FirstDay[m - 1] \in Int /\ FirstDay[m + 1] \in Int /\ FirstDay[m - 1] < FirstDay[m]
  BY <1>2, CalendarAssumption
<1>6. CASE cycle.start < cycle.end
  <2>1. D!Date(m, cycle.start) <= D!Date(m, cycle.end)
    BY <1>1, <1>2, <1>6, DateMonotone DEF CycleDay
  <2> QED
    BY <1>3, <1>5, <1>6, <2>1 DEF D!First, D!Last
<1>7. CASE ~(cycle.start < cycle.end)
  BY <1>3, <1>4, <1>5, <1>7 DEF D!First, D!Last
<1> QED
  BY <1>6, <1>7

(* The period of a month ends before that of a later month begins.             *)
LEMMA PeriodsInOrder ==
    ASSUME cycle \in Cycles, NEW m \in 0 .. Horizon, NEW n \in 0 .. Horizon, m < n
    PROVE  D!Last(m) < D!First(n)
<1>1. cycle.start \in CycleDay /\ cycle.end \in CycleDay
  BY CycleTyped
<1>2. /\ D!First(n) \in Int /\ D!Last(m) \in Int /\ FirstDay[n - 1] <= D!First(n) /\ D!Last(m) < FirstDay[m + 1]
      /\ cycle.start < cycle.end => FirstDay[n] <= D!First(n)
  BY PeriodInMonths
<1>3. /\ {m, n, m + 1, n - 1} \subseteq -1 .. Horizon + 1
      /\ {FirstDay[m], FirstDay[n], FirstDay[m + 1], FirstDay[n - 1]} \subseteq Int
  BY CalendarAssumption
<1>4. m + 1 < n => FirstDay[m + 1] < FirstDay[n]
  BY <1>3, CalendarAssumption
<1>5. CASE cycle.start < cycle.end
  BY <1>2, <1>3, <1>4, <1>5
<1>6. CASE ~(cycle.start < cycle.end) /\ n = m + 1
  <2>1. m \in -1 .. Horizon /\ n - 1 = m
    BY <1>6
  <2>2. D!Date(m, cycle.end) <= D!Date(m, cycle.start)
    BY <1>1, <1>6, <2>1, DateMonotone DEF CycleDay
  <2>3. D!Date(m, cycle.end) \in Int /\ D!Date(m, cycle.start) \in Int
    BY <1>1, <2>1, DateInMonth
  <2> QED
    BY <1>6, <2>1, <2>2, <2>3 DEF D!First, D!Last
<1>7. CASE ~(cycle.start < cycle.end) /\ n # m + 1
  <2>1. m + 1 < n /\ m + 1 <= n - 1
    BY <1>7
  <2>2. FirstDay[m + 1] <= FirstDay[n - 1]
    BY <1>3, <2>1, CalendarAssumption
  <2> QED
    BY <1>2, <1>3, <2>2
<1> QED
  BY <1>5, <1>6, <1>7

(* A cycle that ends where it starts leaves no day out.                        *)
LEMMA PeriodsTile ==
    ASSUME cycle \in Cycles, cycle.start = cycle.end, NEW m \in D!Months, m < Horizon
    PROVE  D!First(m + 1) = D!Last(m) + 1
<1>1. cycle.start \in CycleDay /\ m \in -1 .. Horizon /\ (m + 1) - 1 = m
  BY CycleTyped DEF D!Months
<1>2. D!Date(m, cycle.start) \in Int
  BY <1>1, DateInMonth
<1> QED
  BY <1>1, <1>2 DEF D!First, D!Last, CycleDay

(* The cycle found for a day of a period is that period's month.               *)
LEMMA FindsCycle ==
    ASSUME cycle \in Cycles, NEW m \in D!Months, NEW day \in D!getPayrollPeriod(m)
    PROVE  D!findCycleContaining(day) = m
<1>1. m \in 0 .. Horizon /\ m - 1 \in 0 .. Horizon /\ m - 1 < m
  BY CalendarAssumption DEF D!Months
<1>2. /\ D!First(m) \in Int /\ D!Last(m) \in Int /\ day \in Int /\ D!First(m) <= day /\ day <= D!Last(m)
      /\ FirstDay[m - 1] <= D!First(m) /\ D!Last(m) < FirstDay[m + 1]
  BY <1>1, PeriodInMonths DEF D!getPayrollPeriod
<1>3. \A k \in -1 .. Horizon + 1 : FirstDay[k] \in Int
  BY CalendarAssumption
<1>4. \A k \in -1 .. Horizon : FirstDay[k] <= day /\ day < FirstDay[k + 1] => k = m \/ k = m - 1
  <2> SUFFICES ASSUME NEW k \in -1 .. Horizon, FirstDay[k] <= day, day < FirstDay[k + 1], k # m, k # m - 1
               PROVE  FALSE
    OBVIOUS
  <2>1. {k, k + 1, m - 1, m, m + 1} \subseteq -1 .. Horizon + 1
    BY <1>1, CalendarAssumption DEF D!Months
  <2>2. CASE k < m - 1
    <3>1. FirstDay[k + 1] <= FirstDay[m - 1]
      BY <1>1, <1>3, <2>1, <2>2, CalendarAssumption
    <3> QED
      BY <1>2, <1>3, <2>1, <3>1
  <2>3. CASE k > m
    <3>1. FirstDay[m + 1] <= FirstDay[k]
      BY <1>1, <1>3, <2>1, <2>3, CalendarAssumption
    <3> QED
      BY <1>2, <1>3, <2>1, <3>1
  <2> QED
    BY <1>1, <2>2, <2>3
<1>5. \E k \in -1 .. Horizon : FirstDay[k] <= day /\ day < FirstDay[k + 1]
  <2>1. {m - 1, m, m + 1} \subseteq -1 .. Horizon + 1 /\ {m - 1, m} \subseteq -1 .. Horizon /\ (m - 1) + 1 = m
    BY <1>1, CalendarAssumption DEF D!Months
  <2>2. {FirstDay[m - 1], FirstDay[m], FirstDay[m + 1]} \subseteq Int
    BY <1>3, <2>1
  <2>3. CASE day < FirstDay[m]
    BY <1>2, <2>1, <2>2, <2>3
  <2>4. CASE FirstDay[m] <= day
    BY <1>2, <2>1, <2>2, <2>4
  <2> QED
    BY <1>2, <2>2, <2>3, <2>4
<1>6. D!MonthOf(day) = m \/ D!MonthOf(day) = m - 1
  BY <1>4, <1>5 DEF D!MonthOf
<1>7. D!Last(m - 1) < D!First(m) /\ D!Last(m - 1) \in Int
  BY <1>1, PeriodsInOrder, PeriodInMonths
<1>8. day \notin D!getPayrollPeriod(m - 1)
  BY <1>2, <1>7 DEF D!getPayrollPeriod
<1>9. (m - 1) + 1 = m
  BY <1>1
<1> QED
  BY <1>6, <1>8, <1>9 DEF D!findCycleContaining

-----------------------------------------------------------------------------
(* What the walk keeps: its cursor is in the period of its month, and every day   *)
(* counted is one of the period of the month that counted it.                    *)
WalkInv ==
    /\ cycle \in Cycles /\ month \in D!Months /\ cursor \in Int
    /\ D!First(month) <= cursor /\ cursor <= D!Last(month) + 1
    /\ \A p \in walked : p \in Int \X D!Months /\ p[1] \in D!getPayrollPeriod(p[2])
    /\ cycle.start = cycle.end => \A day \in D!First(1) .. cursor - 1 : \E m \in D!Months : <<day, m>> \in walked

LEMMA WalkInit == D!Init => WalkInv
<1> SUFFICES ASSUME D!Init PROVE WalkInv
  OBVIOUS
<1>1. 1 \in 0 .. Horizon /\ 1 \in D!Months
  BY CalendarAssumption DEF D!Months
<1>2. D!First(1) \in Int /\ D!Last(1) \in Int /\ D!First(1) <= D!Last(1)
  BY <1>1, PeriodInMonths DEF D!Init
<1> QED
  BY <1>1, <1>2 DEF D!Init, WalkInv

(* Periods depend on the cycle alone.                                           *)
LEMMA PeriodsKept ==
    ASSUME UNCHANGED cycle, NEW m
    PROVE  D!First(m)' = D!First(m) /\ D!Last(m)' = D!Last(m) /\ D!getPayrollPeriod(m)' = D!getPayrollPeriod(m)
BY DEF D!First, D!Last, D!getPayrollPeriod, D!Date, D!clampDay, D!MonthLength

LEMMA WalkNext == WalkInv /\ [D!Next]_(D!vars) => WalkInv'
<1> SUFFICES ASSUME WalkInv, [D!Next]_(D!vars) PROVE WalkInv'
  OBVIOUS
<1>1. month \in 0 .. Horizon /\ 1 \in 0 .. Horizon
  BY CalendarAssumption DEF WalkInv, D!Months
<1>2. D!First(month) \in Int /\ D!Last(month) \in Int /\ D!First(1) \in Int
  BY <1>1, PeriodInMonths DEF WalkInv
<1>3. ASSUME NEW r \in D!DayRecords, D!WalkDay(r) PROVE WalkInv'
  <2>1. UNCHANGED cycle /\ month' = month /\ cursor' = cursor + 1 /\ walked' = walked \cup {<<cursor, month>>}
        /\ cursor <= D!Last(month)
    BY <1>3 DEF D!WalkDay
  <2>2. /\ \A m : D!First(m)' = D!First(m) /\ D!Last(m)' = D!Last(m) /\ D!getPayrollPeriod(m)' = D!getPayrollPeriod(m)
        /\ D!First(month)' = D!First(month) /\ D!Last(month)' = D!Last(month)
    BY <2>1, PeriodsKept DEF D!First, D!Last, D!Date, D!clampDay, D!MonthLength
  <2>3. \A p \in walked' : p \in Int \X D!Months /\ p[1] \in D!getPayrollPeriod(p[2])'
    <3> SUFFICES ASSUME NEW p \in walked' PROVE p \in Int \X D!Months /\ p[1] \in D!getPayrollPeriod(p[2])
      BY <2>2
    <3>1. CASE p \in walked
      BY <3>1 DEF WalkInv
    <3>2. CASE p = <<cursor, month>>
      BY <1>2, <2>1, <3>2 DEF WalkInv, D!getPayrollPeriod
    <3> QED
      BY <2>1, <3>1, <3>2
  <2>4. cycle.start = cycle.end => \A day \in D!First(1) .. cursor : \E m \in D!Months : <<day, m>> \in walked'
    <3> SUFFICES ASSUME cycle.start = cycle.end, NEW day \in D!First(1) .. cursor
                 PROVE  \E m \in D!Months : <<day, m>> \in walked'
      OBVIOUS
    <3>1. CASE day = cursor
      BY <2>1, <3>1 DEF WalkInv
    <3>2. CASE day # cursor
      <4>1. day \in D!First(1) .. cursor - 1
        BY <1>2, <3>2 DEF WalkInv
      <4> QED
        BY <2>1, <4>1 DEF WalkInv
    <3> QED
      BY <3>1, <3>2
  <2>5. D!First(1)' .. cursor' - 1 = D!First(1) .. cursor
    BY <1>2, <2>1, <2>2 DEF WalkInv
  <2>6. cycle' \in Cycles /\ month' \in D!Months /\ cursor' \in Int
    BY <2>1 DEF WalkInv
  <2>7. D!First(month)' <= cursor' /\ cursor' <= D!Last(month)' + 1
    BY <1>2, <2>1, <2>2 DEF WalkInv
  <2> QED
    BY <2>1, <2>3, <2>4, <2>5, <2>6, <2>7 DEF WalkInv
<1>4. ASSUME D!NextMonth PROVE WalkInv'
  <2>1. UNCHANGED <<cycle, walked>> /\ month' = month + 1 /\ cursor' = D!First(month + 1)
        /\ cursor > D!Last(month) /\ month < Horizon
    BY <1>4 DEF D!NextMonth
  <2>2. \A m : D!First(m)' = D!First(m) /\ D!Last(m)' = D!Last(m) /\ D!getPayrollPeriod(m)' = D!getPayrollPeriod(m)
    BY <2>1, PeriodsKept
  <2>3. month + 1 \in D!Months /\ month + 1 \in 0 .. Horizon
    BY <1>1, <2>1, CalendarAssumption DEF D!Months
  <2>4. D!First(month + 1) \in Int /\ D!Last(month + 1) \in Int /\ D!First(month + 1) <= D!Last(month + 1)
    BY <2>3, PeriodInMonths DEF WalkInv
  <2>5. D!First(month)' = D!First(month + 1) /\ D!Last(month)' = D!Last(month + 1)
    BY <2>1 DEF D!First, D!Last, D!Date, D!clampDay, D!MonthLength
  <2>6. cycle.start = cycle.end => cursor' - 1 = cursor - 1
    <3> SUFFICES ASSUME cycle.start = cycle.end PROVE D!First(month + 1) - 1 = cursor - 1
      BY <2>1
    <3>1. D!First(month + 1) = D!Last(month) + 1
      BY <2>1, PeriodsTile DEF WalkInv
    <3> QED
      BY <1>2, <2>1, <3>1 DEF WalkInv
  <2>7. cycle' \in Cycles /\ month' \in D!Months /\ cursor' \in Int
    BY <2>1, <2>3, <2>4 DEF WalkInv
  <2>8. D!First(month)' <= cursor' /\ cursor' <= D!Last(month)' + 1
    BY <2>1, <2>4, <2>5
  <2>9. \A p \in walked' : p \in Int \X D!Months /\ p[1] \in D!getPayrollPeriod(p[2])'
    BY <2>1, <2>2 DEF WalkInv
  <2> QED
    BY <2>1, <2>2, <2>6, <2>7, <2>8, <2>9 DEF WalkInv
<1>5. CASE UNCHANGED D!vars
  <2>1. UNCHANGED <<cycle, month, cursor, walked>>
    BY <1>5 DEF D!vars
  <2>2. \A m : D!First(m)' = D!First(m) /\ D!Last(m)' = D!Last(m) /\ D!getPayrollPeriod(m)' = D!getPayrollPeriod(m)
    BY <2>1, PeriodsKept
  <2>3. D!First(month)' = D!First(month) /\ D!Last(month)' = D!Last(month)
    BY <2>1 DEF D!First, D!Last, D!Date, D!clampDay, D!MonthLength
  <2> QED
    BY <2>1, <2>2, <2>3 DEF WalkInv
<1> QED
  BY <1>3, <1>4, <1>5 DEF D!Next

LEMMA WalkPaysOnce == WalkInv => D!DaysPaidOnce
<1> SUFFICES ASSUME WalkInv PROVE D!DaysPaidOnce
  OBVIOUS
<1>1. \A p \in walked : D!findCycleContaining(p[1]) = p[2]
  BY FindsCycle DEF WalkInv
<1>2. \A p, q \in walked : p[1] = q[1] => p[2] = q[2]
  BY <1>1
<1> QED
  BY <1>1, <1>2 DEF WalkInv, D!DaysPaidOnce

(* No day is paid in two months, and none is left out by a cycle that ends where  *)
(* it starts, for every calendar and every cycle.                                *)
THEOREM PayrollDaysPaidOnce == D!Spec => []D!DaysPaidOnce
<1>1. D!Init => WalkInv
  BY WalkInit
<1>2. WalkInv /\ [D!Next]_(D!vars) => WalkInv'
  BY WalkNext
<1>3. WalkInv => D!DaysPaidOnce
  BY WalkPaysOnce
<1> QED
  BY <1>1, <1>2, <1>3, PTL DEF D!Spec

-----------------------------------------------------------------------------
(* Both walks decide a day alike: what one counts as lost the other's row takes,  *)
(* a late of one is a late of the other, and every day but today is two halves.   *)
LEMMA DayAgrees ==
    ASSUME NEW r \in D!DayRecords, NEW day
    PROVE  LET c == D!classifyPayrollDays(r, day)
               category == D!Category(r, day)
           IN /\ c \in [D!Kinds -> Nat]
              /\ c["unpaid"] = D!LopDays(category)
              /\ c["late"] = IF category = "LATE" THEN 1 ELSE 0
              /\ category = "LATE" => D!LopDays(category) = 0
              /\ c["present"] + c["paid"] + c["unpaid"] + c["holiday"] + c["weekOff"]
                   + (IF category = "OPEN" THEN 2 ELSE 0) = 2
<1>1. /\ D!Zero \in [D!Kinds -> Nat]
      /\ \A k \in D!Kinds : D!Zero[k] = 0
  BY DEF D!Zero
<1>2. CASE r.holiday \/ r.status = "HOLIDAY"
  BY <1>2 DEF D!classifyPayrollDays, D!DayClass, D!Category, D!DayCategory, D!LopDays, D!Zero, D!Kinds
<1>3. CASE ~(r.holiday \/ r.status = "HOLIDAY") /\ (r.status = "WEEK_OFF" \/ ~r.works)
  BY <1>3 DEF D!classifyPayrollDays, D!DayClass, D!Category, D!DayCategory, D!LopDays, D!Zero, D!Kinds
<1> DEFINE Work == ~(r.holiday \/ r.status = "HOLIDAY") /\ ~(r.status = "WEEK_OFF" \/ ~r.works)
<1>4. CASE Work /\ r.status \in {"PRESENT", "WORK_FROM_HOME"}
  BY <1>4 DEF D!classifyPayrollDays, D!DayClass, D!Category, D!DayCategory, D!LopDays, D!Zero, D!Kinds
<1>5. CASE Work /\ r.status = "LATE"
  <2> DEFINE late == [k \in D!Kinds |-> IF k = "present" THEN 2 ELSE IF k = "late" THEN 1 ELSE 0]
  <2>1. [D!Zero EXCEPT !.present = 2, !.late = 1] = late
    BY DEF D!Zero, D!Kinds
  <2>2. D!classifyPayrollDays(r, day) = late
    BY <1>5, <2>1 DEF D!classifyPayrollDays, D!DayClass
  <2>3. D!Category(r, day) = "LATE"
    BY <1>5 DEF D!Category, D!DayCategory
  <2>4. /\ late \in [D!Kinds -> Nat]
        /\ late["unpaid"] = 0 /\ late["late"] = 1 /\ late["present"] = 2
        /\ late["paid"] = 0 /\ late["holiday"] = 0 /\ late["weekOff"] = 0
    BY DEF D!Kinds
  <2> HIDE DEF late
  <2> QED
    BY <2>2, <2>3, <2>4 DEF D!LopDays
<1>6. CASE Work /\ r.status = "HALF_DAY"
  <2> DEFINE half == [k \in D!Kinds |-> IF k = "present" \/ k = "unpaid" THEN 1 ELSE 0]
  <2>1. [D!Zero EXCEPT !.present = 1, !.unpaid = 1] = half
    BY DEF D!Zero, D!Kinds
  <2>2. D!classifyPayrollDays(r, day) = half
    BY <1>6, <2>1 DEF D!classifyPayrollDays, D!DayClass
  <2>3. D!Category(r, day) = "HALF_DAY"
    BY <1>6 DEF D!Category, D!DayCategory
  <2>4. /\ half \in [D!Kinds -> Nat]
        /\ half["unpaid"] = 1 /\ half["late"] = 0 /\ half["present"] = 1
        /\ half["paid"] = 0 /\ half["holiday"] = 0 /\ half["weekOff"] = 0
    BY DEF D!Kinds
  <2> HIDE DEF half
  <2> QED
    BY <2>2, <2>3, <2>4 DEF D!LopDays
<1>7. CASE Work /\ r.status = "ON_LEAVE"
  <2>1. CASE D!UnpaidLeave(r)
    BY <1>7, <2>1 DEF D!classifyPayrollDays, D!DayClass, D!Category, D!DayCategory, D!LopDays, D!Zero, D!Kinds
  <2>2. CASE ~D!UnpaidLeave(r)
    BY <1>7, <2>2 DEF D!classifyPayrollDays, D!DayClass, D!Category, D!DayCategory, D!LopDays, D!Zero, D!Kinds
  <2> QED
    BY <2>1, <2>2
<1> DEFINE Away == Work /\ r.status \notin {"PRESENT", "WORK_FROM_HOME", "LATE", "HALF_DAY", "ON_LEAVE"}
<1>8. CASE Away /\ r.company # {}
  <2>1. CASE D!CompanyPaid(r)
    BY <1>8, <2>1 DEF D!classifyPayrollDays, D!DayClass, D!Category, D!DayCategory, D!LopDays, D!Zero, D!Kinds
  <2>2. CASE ~D!CompanyPaid(r)
    BY <1>8, <2>2 DEF D!classifyPayrollDays, D!DayClass, D!Category, D!DayCategory, D!LopDays, D!Zero, D!Kinds
  <2> QED
    BY <2>1, <2>2
<1>9. CASE Away /\ r.company = {}
  <2>1. CASE r.status = None /\ day = today
    BY <1>9, <2>1 DEF D!classifyPayrollDays, D!DayClass, D!Category, D!DayCategory, D!LopDays, D!Zero, D!Kinds
  <2>2. CASE ~(r.status = None /\ day = today)
    BY <1>9, <2>2 DEF D!classifyPayrollDays, D!DayClass, D!Category, D!DayCategory, D!LopDays, D!Zero, D!Kinds
  <2> QED
    BY <2>1, <2>2
<1> QED
  BY <1>2, <1>3, <1>4, <1>5, <1>6, <1>7, <1>8, <1>9

-----------------------------------------------------------------------------
(* What the two walks have added up is of the right kind.                       *)
CountsTyped == counts \in [D!Kinds -> Nat]
LedgerTyped ==
    \E c : ledger \in [lop : Nat, open : Nat, late : Nat, charged : {c}, fined : Nat]
CountInv == WalkInv /\ CountsTyped /\ LedgerTyped /\ D!WalksAgree

LEMMA NothingCounted ==
    /\ D!Zero \in [D!Kinds -> Nat]
    /\ D!Zero["present"] = 0 /\ D!Zero["paid"] = 0 /\ D!Zero["unpaid"] = 0
    /\ D!Zero["holiday"] = 0 /\ D!Zero["weekOff"] = 0 /\ D!Zero["late"] = 0
    /\ D!EmptyLedger \in [lop : Nat, open : Nat, late : Nat, charged : {0}, fined : Nat]
    /\ D!EmptyLedger.lop = 0 /\ D!EmptyLedger.open = 0 /\ D!EmptyLedger.late = 0 /\ D!EmptyLedger.fined = 0
BY DEF D!Zero, D!Kinds, D!EmptyLedger

LEMMA CountInit == D!Init => CountInv
<1> SUFFICES ASSUME D!Init PROVE CountInv
  OBVIOUS
<1>1. WalkInv /\ cursor = D!First(month) /\ counts = D!Zero /\ ledger = D!EmptyLedger
  BY WalkInit DEF D!Init
<1>2. cursor \in Int /\ MaxLates \in Nat
  BY <1>1, PolicyAssumption DEF WalkInv
<1> QED
  BY <1>1, <1>2, NothingCounted DEF CountInv, CountsTyped, LedgerTyped, D!WalksAgree

(* What a day adds to the ledger.                                              *)
LEMMA RowAdds ==
    ASSUME LedgerTyped, NEW r \in D!DayRecords, D!WalkDay(r)
    PROVE  LET category == D!Category(r, cursor)
               late == category = "LATE"
           IN /\ LedgerTyped'
              /\ ledger'.lop = ledger.lop + (IF late THEN 0 ELSE D!LopDays(category))
              /\ ledger'.open = ledger.open + (IF category = "OPEN" THEN 2 ELSE 0)
              /\ ledger'.late = ledger.late + (IF late THEN 1 ELSE 0)
              /\ ledger'.fined = ledger.fined + (IF late THEN D!LateFine(ledger.late + 1) ELSE 0)
<1> DEFINE category == D!Category(r, cursor)
           n == ledger.late + 1
<1>1. PICK c : ledger \in [lop : Nat, open : Nat, late : Nat, charged : {c}, fined : Nat]
  BY DEF LedgerTyped
<1>2. D!LopDays(category) \in Nat /\ D!LateFine(n) \in Nat
  BY DEF D!LopDays, D!LateFine
<1>3. ledger' = IF category = "LATE"
                THEN [ledger EXCEPT !.late = n, !.charged = @ + D!LateCharge(n), !.fined = @ + D!LateFine(n)]
                ELSE [ledger EXCEPT !.lop = @ + D!LopDays(category),
                                    !.open = @ + (IF category = "OPEN" THEN 2 ELSE 0)]
  BY DEF D!WalkDay
<1> HIDE DEF category
<1>4. CASE category = "LATE"
  <2>1. ledger' = [lop |-> ledger.lop, open |-> ledger.open, late |-> n,
                   charged |-> ledger.charged + D!LateCharge(n), fined |-> ledger.fined + D!LateFine(n)]
    BY <1>1, <1>3, <1>4
  <2>2. ledger' \in [lop : Nat, open : Nat, late : Nat, charged : {ledger.charged + D!LateCharge(n)}, fined : Nat]
    BY <1>1, <1>2, <2>1
  <2> QED
    BY <1>1, <1>2, <1>4, <2>1, <2>2 DEF LedgerTyped, category
<1>5. CASE category # "LATE"
  <2> DEFINE o == IF category = "OPEN" THEN 2 ELSE 0
  <2>1. ledger' = [lop |-> ledger.lop + D!LopDays(category), open |-> ledger.open + o, late |-> ledger.late,
                   charged |-> ledger.charged, fined |-> ledger.fined]
    BY <1>1, <1>3, <1>5
  <2>2. ledger' \in [lop : Nat, open : Nat, late : Nat, charged : {c}, fined : Nat]
    BY <1>1, <1>2, <2>1
  <2> QED
    BY <1>1, <1>2, <1>5, <2>1, <2>2 DEF LedgerTyped, category
<1> QED
  BY <1>4, <1>5

(* What a day adds to the counts.                                              *)
LEMMA CountsAdd ==
    ASSUME CountsTyped, NEW r \in D!DayRecords, D!WalkDay(r)
    PROVE  /\ CountsTyped'
           /\ \A k \in D!Kinds : counts'[k] = counts[k] + D!classifyPayrollDays(r, cursor)[k]
<1> DEFINE day == D!classifyPayrollDays(r, cursor)
<1>1. day \in [D!Kinds -> Nat]
  BY DayAgrees
<1>2. counts' = [k \in D!Kinds |-> counts[k] + day[k]]
  BY DEF D!WalkDay
<1> HIDE DEF day
<1>3. \A k \in D!Kinds : counts[k] + day[k] \in Nat
  BY <1>1 DEF CountsTyped
<1>4. CountsTyped'
  BY <1>2, <1>3 DEF CountsTyped
<1> QED
  BY <1>2, <1>4 DEF day

LEMMA CountNext == CountInv /\ [D!Next]_(D!vars) => CountInv'
<1> SUFFICES ASSUME CountInv, [D!Next]_(D!vars) PROVE CountInv'
  OBVIOUS
<1>1. WalkInv'
  BY WalkNext DEF CountInv
<1>2. month \in 0 .. Horizon /\ cycle \in Cycles
  BY CalendarAssumption DEF CountInv, WalkInv, D!Months
<1>3. D!First(month) \in Int /\ cursor \in Int /\ MaxLates \in Nat
  BY <1>2, PeriodInMonths, PolicyAssumption DEF CountInv, WalkInv
<1>4. ASSUME NEW r \in D!DayRecords, D!WalkDay(r) PROVE CountInv'
  <2> DEFINE day == D!classifyPayrollDays(r, cursor)
             category == D!Category(r, cursor)
  <2>1. /\ LedgerTyped'
        /\ ledger'.lop = ledger.lop + (IF category = "LATE" THEN 0 ELSE D!LopDays(category))
        /\ ledger'.open = ledger.open + (IF category = "OPEN" THEN 2 ELSE 0)
        /\ ledger'.late = ledger.late + (IF category = "LATE" THEN 1 ELSE 0)
        /\ ledger'.fined = ledger.fined + (IF category = "LATE" THEN D!LateFine(ledger.late + 1) ELSE 0)
    BY <1>4, RowAdds DEF CountInv
  <2>2. CountsTyped' /\ \A k \in D!Kinds : counts'[k] = counts[k] + day[k]
    BY <1>4, CountsAdd DEF CountInv
  <2>3. /\ day \in [D!Kinds -> Nat] /\ day["unpaid"] = D!LopDays(category)
        /\ day["late"] = IF category = "LATE" THEN 1 ELSE 0
        /\ category = "LATE" => D!LopDays(category) = 0
        /\ day["present"] + day["paid"] + day["unpaid"] + day["holiday"] + day["weekOff"]
             + (IF category = "OPEN" THEN 2 ELSE 0) = 2
    BY DayAgrees
  <2>4. UNCHANGED <<rules, month, cycle>> /\ cursor' = cursor + 1
    BY <1>4 DEF D!WalkDay
  <2>5. D!First(month)' = D!First(month)
    BY <2>4 DEF D!First, D!Date, D!clampDay, D!MonthLength
  <2>6. /\ {"present", "paid", "unpaid", "holiday", "weekOff", "late"} \subseteq D!Kinds
        /\ \A k \in D!Kinds : counts[k] \in Nat
    BY DEF CountInv, CountsTyped, D!Kinds
  <2>7. ledger.lop \in Nat /\ ledger.open \in Nat /\ ledger.late \in Nat /\ ledger.fined \in Nat
    BY DEF CountInv, LedgerTyped
  <2>8. D!WalksAgree
    BY DEF CountInv
  <2> HIDE DEF day, category
  <2>9. 2 * (cursor' - D!First(month)') =
           counts'["present"] + counts'["paid"] + counts'["unpaid"] + counts'["holiday"] + counts'["weekOff"]
             + ledger'.open
    <3> DEFINE f == D!First(month)
               Sum(c) == c["present"] + c["paid"] + c["unpaid"] + c["holiday"] + c["weekOff"]
               o == IF category = "OPEN" THEN 2 ELSE 0
    <3>1. \A k \in {"present", "paid", "unpaid", "holiday", "weekOff"} :
             counts'[k] = counts[k] + day[k] /\ counts[k] \in Nat /\ day[k] \in Nat
      BY <2>2, <2>3, <2>6
    <3>2. Sum(counts') = Sum(counts) + Sum(day) /\ Sum(counts) \in Nat /\ Sum(day) \in Nat
      BY <3>1
    <3>3. Sum(day) + o = 2 /\ o \in Nat /\ ledger'.open = ledger.open + o
      BY <2>1, <2>3
    <3>4. 2 * (cursor - f) = Sum(counts) + ledger.open
      BY <2>8 DEF D!WalksAgree
    <3>5. D!First(month)' = f /\ f \in Int /\ cursor \in Int /\ cursor' = cursor + 1 /\ ledger.open \in Nat
      BY <1>3, <2>4, <2>5, <2>7
    <3>6. 2 * (cursor' - D!First(month)') = Sum(counts') + ledger'.open
      <4> HIDE DEF f, Sum, o
      <4> QED
        BY <3>2, <3>3, <3>4, <3>5
    <3> QED
      BY <3>6
  <2>10. ledger'.lop = counts'["unpaid"] /\ ledger'.late = counts'["late"]
    BY <2>1, <2>2, <2>3, <2>6, <2>7, <2>8 DEF D!WalksAgree
  <2>11. ledger'.fined = IF rules' = {} /\ counts'["late"] > MaxLates THEN counts'["late"] - MaxLates ELSE 0
    <3>1. /\ ledger.late = counts["late"] /\ counts["late"] \in Nat /\ rules' = rules
          /\ ledger.fined = IF rules = {} /\ counts["late"] > MaxLates THEN counts["late"] - MaxLates ELSE 0
      BY <2>4, <2>6, <2>8 DEF D!WalksAgree
    <3>2. counts'["late"] = counts["late"] + (IF category = "LATE" THEN 1 ELSE 0)
      BY <2>2, <2>3, <2>6
    <3>3. CASE category = "LATE"
      BY <1>3, <2>1, <3>1, <3>2, <3>3 DEF D!LateFine
    <3>4. CASE category # "LATE"
      BY <1>3, <2>1, <3>1, <3>2, <3>4
    <3> QED
      BY <3>3, <3>4
  <2>12. D!WalksAgree'
    BY <2>9, <2>10, <2>11 DEF D!WalksAgree
  <2> QED
    BY <1>1, <2>1, <2>2, <2>12 DEF CountInv
<1>5. ASSUME D!NextMonth PROVE CountInv'
  <2>1. counts' = D!Zero /\ ledger' = D!EmptyLedger /\ cursor' = D!First(month + 1) /\ month' = month + 1 /\ cycle' = cycle
    BY <1>5 DEF D!NextMonth
  <2>2. D!First(month)' = D!First(month + 1)
    BY <2>1 DEF D!First, D!Date, D!clampDay, D!MonthLength
  <2>3. cursor' \in Int
    BY <1>1 DEF WalkInv
  <2>4. D!WalksAgree'
    BY <1>3, <2>1, <2>2, <2>3, NothingCounted DEF D!WalksAgree
  <2> QED
    BY <1>1, <2>1, <2>4, NothingCounted DEF CountInv, CountsTyped, LedgerTyped
<1>6. CASE UNCHANGED D!vars
  <2>1. UNCHANGED <<cycle, rules, month, cursor, counts, ledger>>
    BY <1>6 DEF D!vars
  <2>2. D!First(month)' = D!First(month)
    BY <2>1 DEF D!First, D!Date, D!clampDay, D!MonthLength
  <2> QED
    BY <1>1, <2>1, <2>2 DEF CountInv, CountsTyped, LedgerTyped, D!WalksAgree
<1> QED
  BY <1>4, <1>5, <1>6 DEF D!Next

(* Every day walked is accounted for, and the rows of the ledger printed on a      *)
(* payslip add up to the loss of pay and the lates its total was computed from,    *)
(* for every record of every day and every rule about lates.                      *)
THEOREM PayrollWalksAgree == D!Spec => []D!WalksAgree
<1>1. D!Init => CountInv
  BY CountInit
<1>2. CountInv /\ [D!Next]_(D!vars) => CountInv'
  BY CountNext
<1>3. CountInv => D!WalksAgree
  BY DEF CountInv
<1> QED
  BY <1>1, <1>2, <1>3, PTL DEF D!Spec

-----------------------------------------------------------------------------
(* What the rules take for a month's lates, added up rule by rule.              *)
LateSum(n) == [rule \in rules |-> (n \div rule.lateDays) * rule.lopDays]

LEMMA LateDaysAdd ==
    ASSUME IsFiniteSet(rules), NEW n
    PROVE  D!LateDays(n) = SumOf(LateSum(n), rules)
<1> DEFINE h == LateSum(n)
           Adds(g) == g = [s \in SUBSET rules |->
                             IF s = {} THEN 0
                             ELSE LET x == CHOOSE x \in s : TRUE
                                  IN  (n \div x.lateDays) * x.lopDays + g[s \ {x}]]
<1>1. ASSUME NEW g PROVE Adds(g) <=> SumsUp(g, rules, h)
  <2>1. ASSUME NEW s \in SUBSET rules
        PROVE  (IF s = {} THEN 0
                ELSE LET x == CHOOSE x \in s : TRUE IN (n \div x.lateDays) * x.lopDays + g[s \ {x}])
             = (IF s = {} THEN 0 ELSE LET x == CHOOSE x \in s : TRUE IN h[x] + g[s \ {x}])
    <3> DEFINE x == CHOOSE x \in s : TRUE
    <3>1. s # {} => x \in rules
      OBVIOUS
    <3>2. s # {} => h[x] = (n \div x.lateDays) * x.lopDays
      BY <3>1 DEF LateSum
    <3> HIDE DEF h, x
    <3>3. (IF s = {} THEN 0 ELSE (n \div x.lateDays) * x.lopDays + g[s \ {x}])
             = (IF s = {} THEN 0 ELSE h[x] + g[s \ {x}])
      BY <3>2
    <3> QED
      BY <3>3 DEF x
  <2> HIDE DEF h
  <2> QED
    BY <2>1 DEF SumsUp
<1>2. \E g : Adds(g)
  <2>1. \E g : SumsUp(g, rules, h)
    <3> HIDE DEF h
    <3> QED
      BY WalkExists
  <2> HIDE DEF Adds, h
  <2> QED
    BY <1>1, <2>1
<1>3. Adds(CHOOSE g : Adds(g))
  <2> HIDE DEF Adds
  <2> QED
    BY <1>2
<1>4. D!LateDays(n) = (CHOOSE g : Adds(g))[rules]
  BY DEF D!LateDays, D!MapThenSumSet, D!MapThenFoldSet
<1>5. PICK g : SumsUp(g, rules, h) /\ SumOf(h, rules) = g[rules]
  BY SumWalked
<1> HIDE DEF Adds, h
<1>6. SumsUp(CHOOSE k : Adds(k), rules, h)
  BY <1>1, <1>3
<1> QED
  BY <1>4, <1>5, <1>6, WalksMeet DEF h

(* More lates never cost less; none cost nothing.                               *)
LEMMA LateDaysGrow ==
    ASSUME rules \in RuleSets, NEW n \in Nat
    PROVE  /\ D!LateDays(n) \in Nat /\ D!LateDays(n + 1) \in Nat
           /\ D!LateDays(n) <= D!LateDays(n + 1)
           /\ D!LateDays(0) = 0
<1>1. IsFiniteSet(rules) /\ \A rule \in rules : rule.lateDays \in Nat \ {0} /\ rule.lopDays \in Nat
  BY PolicyAssumption
<1>2. ASSUME NEW a \in Nat, NEW d \in Nat \ {0}, NEW l \in Nat
      PROVE  /\ (a \div d) * l \in Nat /\ ((a + 1) \div d) * l \in Nat
             /\ (a \div d) * l <= ((a + 1) \div d) * l
             /\ (0 \div d) * l = 0
  <2>1. a \div d \in Nat /\ (a + 1) \div d \in Nat /\ a \div d <= (a + 1) \div d /\ 0 \div d = 0
    BY SMT
  <2> DEFINE p == a \div d
             q == (a + 1) \div d
  <2>2. p \in Nat /\ q \in Nat /\ p <= q
    BY <2>1
  <2> HIDE DEF p, q
  <2>3. p * l \in Nat /\ q * l \in Nat /\ p * l <= q * l /\ 0 * l = 0
    BY <2>2
  <2> QED
    BY <2>1, <2>3 DEF p, q
<1>3. \A rule \in rules : /\ LateSum(n)[rule] \in Nat /\ LateSum(n + 1)[rule] \in Nat
                          /\ LateSum(n)[rule] <= LateSum(n + 1)[rule]
                          /\ LateSum(0)[rule] = 0
  <2> SUFFICES ASSUME NEW rule \in rules
               PROVE  /\ LateSum(n)[rule] \in Nat /\ LateSum(n + 1)[rule] \in Nat
                      /\ LateSum(n)[rule] <= LateSum(n + 1)[rule]
                      /\ LateSum(0)[rule] = 0
    OBVIOUS
  <2> DEFINE d == rule.lateDays
             l == rule.lopDays
  <2>1. d \in Nat \ {0} /\ l \in Nat
    BY <1>1
  <2>2. LateSum(n)[rule] = (n \div d) * l /\ LateSum(n + 1)[rule] = ((n + 1) \div d) * l /\ LateSum(0)[rule] = (0 \div d) * l
    BY DEF LateSum
  <2> HIDE DEF d, l
  <2> QED
    BY <1>2, <2>1, <2>2
<1>4. /\ SumOf(LateSum(n), rules) \in Nat /\ SumOf(LateSum(n + 1), rules) \in Nat
      /\ SumOf(LateSum(n), rules) <= SumOf(LateSum(n + 1), rules)
      /\ SumOf(LateSum(0), rules) = 0
  BY <1>1, <1>3, SumNat, SumGrows, SumZero
<1> QED
  BY <1>1, <1>4, LateDaysAdd

(* The rules alone decide it.                                                   *)
LateDaysOf(rs, n) == MapThenSumSet(LAMBDA rule : (n \div rule.lateDays) * rule.lopDays, rs)

LEMMA LateDaysKept ==
    ASSUME UNCHANGED rules
    PROVE  D!LateDays(ledger.late)' = D!LateDays(ledger'.late)
<1>1. \A n : D!LateDays(n) = LateDaysOf(rules, n)
  BY DEF D!LateDays, D!MapThenSumSet, D!MapThenFoldSet, LateDaysOf, MapThenSumSet, MapThenFoldSet
<1>2. D!LateDays(ledger.late)' = LateDaysOf(rules', ledger'.late)
  BY DEF D!LateDays, D!MapThenSumSet, D!MapThenFoldSet, LateDaysOf, MapThenSumSet, MapThenFoldSet
<1> QED
  BY <1>1, <1>2

(* The ledger has charged what the rules take for the lates so far.             *)
AddUpInv == CountInv /\ rules \in RuleSets /\ ledger.charged = D!LateDays(ledger.late)

LEMMA AddUpInit == D!Init => AddUpInv
<1> SUFFICES ASSUME D!Init PROVE AddUpInv
  OBVIOUS
<1>1. CountInv /\ rules \in RuleSets /\ ledger = D!EmptyLedger
  BY CountInit DEF D!Init
<1>2. D!LateDays(0) = 0
  BY <1>1, LateDaysGrow
<1> QED
  BY <1>1, <1>2 DEF AddUpInv, D!EmptyLedger

LEMMA AddUpNext == AddUpInv /\ [D!Next]_(D!vars) => AddUpInv'
<1> SUFFICES ASSUME AddUpInv, [D!Next]_(D!vars) PROVE AddUpInv'
  OBVIOUS
<1>1. CountInv'
  BY CountNext DEF AddUpInv
<1>2. rules' = rules
  BY DEF D!Next, D!WalkDay, D!NextMonth, D!vars
<1>3. rules' \in RuleSets /\ ledger.late \in Nat
  BY <1>2 DEF AddUpInv, CountInv, LedgerTyped
<1> SUFFICES ledger'.charged = D!LateDays(ledger'.late)
  <2>1. D!LateDays(ledger.late)' = D!LateDays(ledger'.late)
    BY <1>2, LateDaysKept
  <2> QED
    BY <1>1, <1>3, <2>1 DEF AddUpInv
<1>4. ASSUME NEW r \in D!DayRecords, D!WalkDay(r) PROVE ledger'.charged = D!LateDays(ledger'.late)
  <2> DEFINE category == D!Category(r, cursor)
             n == ledger.late + 1
  <2>1. ledger' = IF category = "LATE"
                  THEN [ledger EXCEPT !.late = n, !.charged = @ + D!LateCharge(n), !.fined = @ + D!LateFine(n)]
                  ELSE [ledger EXCEPT !.lop = @ + D!LopDays(category),
                                      !.open = @ + (IF category = "OPEN" THEN 2 ELSE 0)]
    BY <1>4 DEF D!WalkDay
  <2>2. PICK c : ledger \in [lop : Nat, open : Nat, late : Nat, charged : {c}, fined : Nat]
    BY DEF AddUpInv, CountInv, LedgerTyped
  <2>3. ledger.charged = D!LateDays(ledger.late)
    BY DEF AddUpInv
  <2> HIDE DEF category
  <2>4. CASE category = "LATE"
    <3>1. ledger'.late = n /\ ledger'.charged = ledger.charged + D!LateCharge(n)
      BY <2>1, <2>2, <2>4
    <3>2. D!LateDays(ledger.late) \in Nat /\ D!LateDays(n) \in Nat /\ D!LateDays(ledger.late) <= D!LateDays(n)
      BY <1>3, LateDaysGrow DEF AddUpInv
    <3>3. n - 1 = ledger.late
      BY <1>3
    <3>4. D!LateCharge(n) = D!LateDays(n) - D!LateDays(ledger.late)
      BY <3>2, <3>3 DEF D!LateCharge
    <3> QED
      BY <2>3, <3>1, <3>2, <3>4
  <2>5. CASE category # "LATE"
    <3>1. ledger'.late = ledger.late /\ ledger'.charged = ledger.charged
      BY <2>1, <2>2, <2>5
    <3> QED
      BY <2>3, <3>1
  <2> QED
    BY <2>4, <2>5
<1>5. CASE D!NextMonth
  <2>1. ledger' = D!EmptyLedger
    BY <1>5 DEF D!NextMonth
  <2> QED
    BY <1>3, <2>1, LateDaysGrow DEF AddUpInv, D!EmptyLedger
<1>6. CASE UNCHANGED D!vars
  BY <1>6 DEF D!vars, AddUpInv
<1> QED
  BY <1>4, <1>5, <1>6 DEF D!Next

-----------------------------------------------------------------------------
(* The two sides of payroll together: each leaves the other's state alone.      *)
WholeNext == RunStep \/ DaysStep \/ WalkOver
wholeVars == <<side, vars, daysVars>>

LEMMA DaysOfTheWhole == [WholeNext]_wholeVars => [D!Next]_(D!vars)
BY DEF WholeNext, wholeVars, RunStep, DaysStep, WalkOver, daysVars, D!vars

(* In payroll as a whole no day is counted in two months, and a day's permissions *)
(* are shown for the month that counted it, whatever cycle is set.              *)
THEOREM DaysArePaidOnce == PayrollSpec => []DaysPaidOnce
<1>1. PayrollInit => WalkInv
  BY WalkInit DEF PayrollInit
<1>2. WalkInv /\ [WholeNext]_wholeVars => WalkInv'
  BY WalkNext, DaysOfTheWhole
<1>3. WalkInv => DaysPaidOnce
  BY WalkPaysOnce DEF DaysPaidOnce
<1> QED
  BY <1>1, <1>2, <1>3, PTL DEF PayrollSpec, WholeNext, wholeVars

(* The counts of a payslip, its total and the rows printed on it say the same, and *)
(* the rows charge for lates what any rules take for the month's number of them.  *)
THEOREM PayslipsAddUp == PayrollSpec => []DaysAddUp
<1>1. PayrollInit => AddUpInv
  BY AddUpInit DEF PayrollInit
<1>2. AddUpInv /\ [WholeNext]_wholeVars => AddUpInv'
  BY AddUpNext, DaysOfTheWhole
<1>3. AddUpInv => DaysAddUp
  <2> SUFFICES ASSUME AddUpInv PROVE DaysAddUp
    OBVIOUS
  <2>1. D!WalksAgree /\ ledger.late = counts["late"] /\ ledger.charged = D!LateDays(ledger.late)
    BY DEF AddUpInv, CountInv, D!WalksAgree
  <2> QED
    BY <2>1 DEF DaysAddUp, D!DaysAddUp
<1> QED
  BY <1>1, <1>2, <1>3, PTL DEF PayrollSpec, WholeNext, wholeVars

-----------------------------------------------------------------------------
(* Leaving.  What is still owed of a loan and what was recovered of it make up    *)
(* its principal, whatever a settlement that was calculated before says; and a   *)
(* settlement about to be paid says how much of the loan it recovers.            *)
HasLoan(s) == DOMAIN s = {"paid", "recovery", "loan"} /\ s.loan \in Nat

DeskFits(r, settled) ==
    /\ r.op = "calculate" => r.exit \in Exits /\ r.loan \in Nat
    /\ r.op = "disburse" => r.exit \in Exits /\ HasLoan(settled[r.exit])
    /\ r.op = "hand" => r.asset \in Assets /\ r.to \in X!Holders

LoanInv ==
    /\ advance \in [open : BOOLEAN, left : Nat] /\ {byPayroll, recovered} \subseteq Nat
    /\ IF advance.open THEN advance.left + byPayroll >= Principal ELSE byPayroll + recovered >= Principal
    /\ DOMAIN final = Exits /\ \A x \in Exits : final[x] # Nobody => HasLoan(final[x])
    /\ DOMAIN desk = X!Desks /\ \A d \in X!Desks : DeskFits(desk[d], final)

CustodyInv ==
    /\ asset \in [Assets -> X!AssetRows \cup {Nobody}]
    /\ CustodyAgrees

ExitInv == LoanInv /\ CustodyInv

LEMMA NobodyIsNone ==
  /\ Principal \in Nat /\ Nobody \notin Exits \cup Assets
  /\ Nobody \notin X!Holders /\ Nobody \notin X!AssetRows
BY ExitAssumption DEF X!ExitAssumption

(* A step that changes the request of one desk, and neither the loan nor the    *)
(* settlements.                                                              *)
LEMMA DeskMoves ==
  ASSUME LoanInv, UNCHANGED <<advance, byPayroll, recovered, final>>,
         NEW d \in X!Desks, NEW r, desk' = [desk EXCEPT ![d] = r], DeskFits(r, final)
  PROVE  LoanInv'
<1>1. DOMAIN desk' = X!Desks /\ \A e \in X!Desks : desk'[e] = IF e = d THEN r ELSE desk[e]
  BY DEF LoanInv
<1>2. \A e \in X!Desks : DeskFits(desk'[e], final')
  BY <1>1 DEF LoanInv
<1> QED
  BY <1>1, <1>2 DEF LoanInv

LEMMA DeskEnds ==
  ASSUME LoanInv, UNCHANGED <<advance, byPayroll, recovered, final>>,
         NEW d \in X!Desks, X!Ends(d)
  PROVE  LoanInv'
<1>1. PICK r : r = X!NoReq
  OBVIOUS
<1>2. desk' = [desk EXCEPT ![d] = r] /\ DeskFits(r, final)
  BY <1>1 DEF X!Ends, X!Becomes, X!NoReq, DeskFits
<1> QED
  BY <1>2, DeskMoves

LEMMA LoanKept ==
  ASSUME LoanInv, UNCHANGED <<advance, byPayroll, recovered, final, desk>>
  PROVE  LoanInv'
BY DEF LoanInv

LEMMA DeskStarts ==
  ASSUME LoanInv, NEW d \in X!Desks, NEW r, X!Starts(d, r), DeskFits(r, final)
  PROVE  LoanInv' /\ asset' = asset
<1>1. UNCHANGED <<advance, byPayroll, recovered, final, asset>> /\ desk' = [desk EXCEPT ![d] = r]
  BY DEF X!Starts
<1> QED
  BY <1>1, DeskMoves

LEMMA LoanLeaving == ASSUME LoanInv, X!Leaving PROVE LoanInv' /\ asset' = asset
<1>1. ASSUME NEW d \in {"leaver", "manager"}, X!InitiateReads(d) PROVE LoanInv' /\ asset' = asset
  <2>1. PICK r : r = [op |-> "initiate"]
    OBVIOUS
  <2>2. X!Starts(d, r) /\ DeskFits(r, final) /\ d \in X!Desks
    BY <1>1, <2>1 DEF X!InitiateReads, DeskFits, X!Desks
  <2> QED
    BY <2>2, DeskStarts
<1>2. ASSUME NEW d \in {"leaver", "manager"}, X!InitiateCommits(d) PROVE LoanInv' /\ asset' = asset
  <2>1. PICK r : r = [op |-> "items", exit |-> CHOOSE x \in Exits : x \notin X!Known]
    OBVIOUS
  <2>2. desk' = [desk EXCEPT ![d] = r]
    BY <1>2, <2>1 DEF X!InitiateCommits, X!Becomes
  <2>3. UNCHANGED <<advance, byPayroll, recovered, final, asset>> /\ d \in X!Desks
    BY <1>2 DEF X!InitiateCommits, X!Desks
  <2>4. DeskFits(r, final)
    BY <2>1 DEF DeskFits
  <2> QED
    BY <2>2, <2>3, <2>4, DeskMoves
<1>3. ASSUME NEW d \in {"leaver", "manager"}, X!ItemCreates(d) PROVE LoanInv' /\ asset' = asset
  <2>1. UNCHANGED <<advance, byPayroll, recovered, final, asset>> /\ d \in X!Desks
        /\ (desk' = desk \/ X!Ends(d))
    BY <1>3 DEF X!ItemCreates, X!Desks
  <2> QED
    BY <2>1, LoanKept, DeskEnds
<1>4. ASSUME NEW x \in Exits, X!WithdrawReads(x) PROVE LoanInv' /\ asset' = asset
  <2>1. PICK r : r = [op |-> "withdraw", exit |-> x]
    OBVIOUS
  <2>2. X!Starts("leaver", r) /\ DeskFits(r, final) /\ "leaver" \in X!Desks
    BY <1>4, <2>1 DEF X!WithdrawReads, DeskFits, X!Desks
  <2> QED
    BY <2>2, DeskStarts
<1>5. CASE X!WithdrawCommits
  <2>1. UNCHANGED <<advance, byPayroll, recovered, final, asset>> /\ X!Ends("leaver") /\ "leaver" \in X!Desks
    BY <1>5 DEF X!WithdrawCommits, X!Desks
  <2> QED
    BY <2>1, DeskEnds
<1> QED
  BY <1>1, <1>2, <1>3, <1>4, <1>5 DEF X!Leaving

LEMMA LoanDesk ==
  ASSUME LoanInv, NEW d \in {"manager", "admin"},
         \/ \E x \in Exits :
              \/ \E to \in {"UNDER_HR_REVIEW", "NOTICE_PERIOD", "REJECTED"} : X!ReviewReads(d, x, to)
              \/ \E i \in X!Items : X!ClearReads(d, x, i)
              \/ \E part \in 0 .. Principal : X!CalculateReads(d, x, part)
         \/ X!ReviewCommits(d) \/ X!ClearCommits(d) \/ X!Advance(d)
  PROVE  LoanInv' /\ asset' = asset
<1>0. d \in X!Desks
  BY DEF X!Desks
<1>1. ASSUME NEW x \in Exits, NEW to, X!ReviewReads(d, x, to) PROVE LoanInv' /\ asset' = asset
  <2>1. PICK r : r = [op |-> "review", exit |-> x, to |-> to]
    OBVIOUS
  <2>2. X!Starts(d, r) /\ DeskFits(r, final)
    BY <1>1, <2>1 DEF X!ReviewReads, DeskFits
  <2> QED
    BY <1>0, <2>2, DeskStarts
<1>2. ASSUME NEW x \in Exits, NEW i, X!ClearReads(d, x, i) PROVE LoanInv' /\ asset' = asset
  <2>1. PICK r : r = [op |-> "clear", exit |-> x, item |-> i]
    OBVIOUS
  <2>2. X!Starts(d, r) /\ DeskFits(r, final)
    BY <1>2, <2>1 DEF X!ClearReads, DeskFits
  <2> QED
    BY <1>0, <2>2, DeskStarts
<1>3. ASSUME NEW x \in Exits, NEW part \in 0 .. Principal, X!CalculateReads(d, x, part)
      PROVE  LoanInv' /\ asset' = asset
  <2>1. PICK r : r = [op |-> "calculate", exit |-> x, recovery |-> X!Owed(x), loan |-> part, stage |-> exit[x].stage]
    OBVIOUS
  <2>2. X!Starts(d, r) /\ DeskFits(r, final)
    BY <1>3, <2>1, NobodyIsNone DEF X!CalculateReads, DeskFits
  <2> QED
    BY <1>0, <2>2, DeskStarts
<1>4. CASE X!ReviewCommits(d) \/ X!Advance(d)
  <2>1. UNCHANGED <<advance, byPayroll, recovered, final, asset>> /\ X!Ends(d)
    BY <1>4 DEF X!ReviewCommits, X!Advance
  <2> QED
    BY <1>0, <2>1, DeskEnds
<1>5. CASE X!ClearCommits(d)
  <2>1. PICK r : r = [op |-> "advance", exit |-> desk[d].exit]
    OBVIOUS
  <2>2. UNCHANGED <<advance, byPayroll, recovered, final, asset>>
        /\ (desk' = [desk EXCEPT ![d] = r] \/ X!Ends(d))
    BY <1>5, <2>1 DEF X!ClearCommits, X!Becomes
  <2>3. DeskFits(r, final)
    BY <2>1 DEF DeskFits
  <2> QED
    BY <1>0, <2>2, <2>3, DeskMoves, DeskEnds
<1> QED
  BY <1>1, <1>2, <1>3, <1>4, <1>5

(* A settlement is written for an exit: the others, and those about to be paid,   *)
(* still say what they recover.                                                *)
LEMMA SettlementFits ==
  ASSUME LoanInv, NEW x \in Exits, NEW s, HasLoan(s), final' = [final EXCEPT ![x] = s],
         NEW d \in X!Desks, NEW r, desk' = [desk EXCEPT ![d] = r],
         r.op \notin {"calculate", "disburse", "hand"}
  PROVE  /\ DOMAIN final' = Exits /\ \A y \in Exits : final'[y] # Nobody => HasLoan(final'[y])
         /\ DOMAIN desk' = X!Desks /\ \A e \in X!Desks : DeskFits(desk'[e], final')
<1>1. DOMAIN final' = Exits /\ \A y \in Exits : final'[y] = IF y = x THEN s ELSE final[y]
  BY DEF LoanInv
<1>2. DOMAIN desk' = X!Desks /\ \A e \in X!Desks : desk'[e] = IF e = d THEN r ELSE desk[e]
  BY DEF LoanInv
<1>3. \A y \in Exits : final'[y] # Nobody => HasLoan(final'[y])
  BY <1>1 DEF LoanInv
<1>4. ASSUME NEW e \in X!Desks PROVE DeskFits(desk'[e], final')
  <2>1. CASE e = d
    BY <1>2, <2>1 DEF DeskFits
  <2>2. CASE e # d
    <3>1. desk'[e] = desk[e] /\ DeskFits(desk[e], final)
      BY <1>2, <2>2 DEF LoanInv
    <3>2. desk[e].op = "disburse" => HasLoan(final'[desk[e].exit])
      BY <1>1, <3>1 DEF DeskFits
    <3> QED
      BY <3>1, <3>2 DEF DeskFits
  <2> QED
    BY <2>1, <2>2
<1> QED
  BY <1>1, <1>2, <1>3, <1>4

LEMMA LoanCalculated == ASSUME LoanInv, NEW d \in {"manager", "admin"}, X!CalculateCommits(d) PROVE LoanInv' /\ asset' = asset
<1>1. PICK r : r = desk[d]
  OBVIOUS
<1>2. PICK paid : paid = (final[r.exit] # Nobody /\ final[r.exit].paid)
  OBVIOUS
<1>3. PICK s : s = [paid |-> paid, recovery |-> r.recovery, loan |-> r.loan]
  OBVIOUS
<1>4. /\ r.op = "calculate" /\ final' = [final EXCEPT ![r.exit] = s] /\ X!Ends(d)
      /\ UNCHANGED <<advance, byPayroll, recovered, asset>>
  BY <1>1, <1>2, <1>3 DEF X!CalculateCommits
<1>5. d \in X!Desks /\ r.exit \in Exits /\ r.loan \in Nat
  BY <1>1, <1>4 DEF LoanInv, DeskFits, X!Desks
<1>6. HasLoan(s)
  BY <1>3, <1>5 DEF HasLoan
<1>7. PICK none : none = X!NoReq
  OBVIOUS
<1>8. desk' = [desk EXCEPT ![d] = none] /\ none.op \notin {"calculate", "disburse", "hand"}
  BY <1>4, <1>7 DEF X!Ends, X!Becomes, X!NoReq
<1>9. /\ DOMAIN final' = Exits /\ \A y \in Exits : final'[y] # Nobody => HasLoan(final'[y])
      /\ DOMAIN desk' = X!Desks /\ \A e \in X!Desks : DeskFits(desk'[e], final')
  BY <1>4, <1>5, <1>6, <1>8, SettlementFits
<1> QED
  BY <1>4, <1>9 DEF LoanInv

LEMMA LoanDisbursed == ASSUME LoanInv, X!DisburseCommits PROVE LoanInv' /\ asset' = asset
<1>1. PICK x : x = desk["admin"].exit
  OBVIOUS
<1>2. PICK part : part = final[x].loan
  OBVIOUS
<1>3. PICK s : s = [final[x] EXCEPT !.paid = TRUE]
  OBVIOUS
<1>4. /\ desk["admin"].op = "disburse" /\ final' = [final EXCEPT ![x] = s]
      /\ advance' = X!LoanAfter(part) /\ recovered' = recovered + part
      /\ byPayroll' = byPayroll /\ asset' = asset
  BY <1>1, <1>2, <1>3 DEF X!DisburseCommits
<1>5. x \in Exits /\ HasLoan(final[x]) /\ "admin" \in X!Desks
  BY <1>1, <1>4 DEF LoanInv, DeskFits, X!Desks
<1>6. HasLoan(s) /\ part \in Nat
  BY <1>2, <1>3, <1>5 DEF HasLoan
<1>7. PICK r : r = [op |-> "signoff"]
  OBVIOUS
<1>8. desk' = [desk EXCEPT !["admin"] = r] /\ r.op \notin {"calculate", "disburse", "hand"}
  BY <1>7 DEF X!DisburseCommits, X!Becomes
<1>9. /\ DOMAIN final' = Exits /\ \A y \in Exits : final'[y] # Nobody => HasLoan(final'[y])
      /\ DOMAIN desk' = X!Desks /\ \A e \in X!Desks : DeskFits(desk'[e], final')
  BY <1>4, <1>5, <1>6, <1>8, SettlementFits
<1>10. /\ advance' \in [open : BOOLEAN, left : Nat] /\ {byPayroll', recovered'} \subseteq Nat
       /\ IF advance'.open THEN advance'.left + byPayroll' >= Principal ELSE byPayroll' + recovered' >= Principal
  <2>1. /\ advance \in [open : BOOLEAN, left : Nat] /\ byPayroll \in Nat /\ recovered \in Nat
        /\ IF advance.open THEN advance.left + byPayroll >= Principal ELSE byPayroll + recovered >= Principal
    BY DEF LoanInv
  <2>2. CASE advance.open /\ part >= advance.left /\ advance.left > 0
    <3>1. advance' = [open |-> FALSE, left |-> 0]
      BY <1>4, <2>2 DEF X!LoanAfter, X!outstandingForEmployee
    <3> QED
      BY <1>4, <1>6, <2>1, <2>2, <3>1, NobodyIsNone
  <2>3. CASE ~ (advance.open /\ part >= advance.left /\ advance.left > 0)
    <3>1. advance' = advance
      BY <1>4, <2>1, <2>3 DEF X!LoanAfter, X!outstandingForEmployee
    <3> QED
      BY <1>4, <1>6, <2>1, <3>1, NobodyIsNone
  <2> QED
    BY <2>2, <2>3
<1> QED
  BY <1>4, <1>9, <1>10 DEF LoanInv

LEMMA LoanPaidOff == ASSUME LoanInv, X!Payroll PROVE LoanInv' /\ asset' = asset
<1>1. /\ advance.open /\ advance.left > 0 /\ advance \in [open : BOOLEAN, left : Nat]
      /\ byPayroll \in Nat /\ recovered \in Nat /\ advance.left + byPayroll >= Principal
  BY DEF LoanInv, X!Payroll, X!outstandingForEmployee
<1>2. /\ advance' = [open |-> advance.left > 1, left |-> advance.left - 1] /\ byPayroll' = byPayroll + 1
      /\ UNCHANGED <<final, desk, recovered, asset>>
  BY DEF X!Payroll
<1>3. /\ advance' \in [open : BOOLEAN, left : Nat] /\ {byPayroll', recovered'} \subseteq Nat
      /\ IF advance'.open THEN advance'.left + byPayroll' >= Principal ELSE byPayroll' + recovered' >= Principal
  BY <1>1, <1>2, NobodyIsNone
<1> QED
  BY <1>2, <1>3 DEF LoanInv

LEMMA LoanOther ==
  ASSUME LoanInv, (\E x \in Exits : X!DisburseReads(x)) \/ X!SignOff
  PROVE  LoanInv' /\ asset' = asset
<1>0. "admin" \in X!Desks
  BY DEF X!Desks
<1>1. ASSUME NEW x \in Exits, X!DisburseReads(x) PROVE LoanInv' /\ asset' = asset
  <2>1. PICK r : r = [op |-> "disburse", exit |-> x]
    OBVIOUS
  <2>2. X!Starts("admin", r) /\ final[x] # Nobody
    BY <1>1, <2>1 DEF X!DisburseReads
  <2>3. DeskFits(r, final)
    BY <2>1, <2>2 DEF DeskFits, LoanInv
  <2> QED
    BY <1>0, <2>2, <2>3, DeskStarts
<1>2. CASE X!SignOff
  <2>1. UNCHANGED <<advance, byPayroll, recovered, final, asset>> /\ X!Ends("admin")
    BY <1>2 DEF X!SignOff
  <2> QED
    BY <1>0, <2>1, DeskEnds
<1> QED
  BY <1>1, <1>2

-----------------------------------------------------------------------------
(* One row of the table of assets. *)
Custody(row) ==
    /\ row.status = "ASSIGNED" => row.holder # Nobody
    /\ row.holder # Nobody => row.status \in {"ASSIGNED", "UNDER_MAINTENANCE"}
    /\ row.logged = row.holder

LEMMA CustodyOf == CustodyInv <=>
  /\ asset \in [Assets -> X!AssetRows \cup {Nobody}]
  /\ \A a \in Assets : asset[a] # Nobody => Custody(asset[a])
BY DEF CustodyInv, CustodyAgrees, X!CustodyAgrees, Custody

LEMMA RowPut ==
  ASSUME CustodyInv, NEW a \in Assets, NEW row \in X!AssetRows \cup {Nobody},
         row # Nobody => Custody(row), asset' = [asset EXCEPT ![a] = row]
  PROVE  CustodyInv'
<1>1. /\ asset' \in [Assets -> X!AssetRows \cup {Nobody}]
      /\ \A b \in Assets : asset'[b] # Nobody => Custody(asset'[b])
  BY CustodyOf
<1> QED
  BY <1>1 DEF CustodyInv, CustodyAgrees, X!CustodyAgrees, Custody

LEMMA CustodyKept == ASSUME CustodyInv, asset' = asset PROVE CustodyInv'
BY DEF CustodyInv, CustodyAgrees, X!CustodyAgrees

LEMMA StoreFits ==
  ASSUME ExitInv,
         \/ \E a \in Assets :
              \/ \E h \in X!Holders : X!HandReads(a, h)
              \/ X!createAsset(a) \/ X!deleteAsset(a) \/ X!logMaintenance(a) \/ X!completeMaintenance(a)
              \/ \E status \in X!AssetStatuses : X!updateAsset(a, status)
              \/ \E condition \in {"AVAILABLE", "DAMAGED"}, charge \in {0, 1} : X!returnAsset(a, condition, charge)
         \/ X!HandCommits
  PROVE  ExitInv'
<1>0. "store" \in X!Desks /\ LoanInv /\ CustodyInv
  BY DEF X!Desks, ExitInv
<1>1. ASSUME NEW a \in Assets, NEW h \in X!Holders, X!HandReads(a, h) PROVE ExitInv'
  <2>1. PICK r : r = [op |-> "hand", asset |-> a, to |-> h]
    OBVIOUS
  <2>2. X!Starts("store", r) /\ DeskFits(r, final)
    BY <1>1, <2>1 DEF X!HandReads, DeskFits
  <2> QED
    BY <1>0, <2>2, DeskStarts, CustodyKept DEF ExitInv
<1>2. CASE X!HandCommits
  <2>1. PICK r : r = desk["store"]
    OBVIOUS
  <2>2. PICK fixing : fixing = (asset[r.asset] # Nobody /\ asset[r.asset].fixing)
    OBVIOUS
  <2>3. PICK row : row = [status |-> "ASSIGNED", holder |-> r.to, fixing |-> fixing, logged |-> r.to]
    OBVIOUS
  <2>4. /\ r.op = "hand" /\ asset' = [asset EXCEPT ![r.asset] = row] /\ X!Ends("store")
        /\ UNCHANGED <<advance, byPayroll, recovered, final>>
    BY <1>2, <2>1, <2>2, <2>3 DEF X!HandCommits, X!Put, X!Stored
  <2>5. r.asset \in Assets /\ r.to \in X!Holders
    BY <1>0, <2>1, <2>4 DEF LoanInv, DeskFits
  <2>6. fixing \in BOOLEAN
    BY <1>0, <2>2, <2>5 DEF CustodyInv, X!AssetRows
  <2>7. row \in X!AssetRows /\ Custody(row)
    BY <2>3, <2>5, <2>6, NobodyIsNone DEF X!AssetRows, X!AssetStatuses, Custody
  <2>8. CustodyInv'
    BY <1>0, <2>4, <2>5, <2>7, RowPut
  <2> QED
    BY <1>0, <2>4, <2>8, DeskEnds DEF ExitInv
<1>3. ASSUME NEW a \in Assets, NEW row \in X!AssetRows \cup {Nobody}, row # Nobody => Custody(row),
             asset' = [asset EXCEPT ![a] = row], UNCHANGED <<advance, byPayroll, recovered, final, desk>>
      PROVE  ExitInv'
  BY <1>0, <1>3, RowPut, LoanKept DEF ExitInv
<1>4. ASSUME NEW a \in Assets, X!createAsset(a) PROVE ExitInv'
  <2>1. PICK row : row = [status |-> "AVAILABLE", holder |-> Nobody, fixing |-> FALSE, logged |-> Nobody]
    OBVIOUS
  <2>2. row \in X!AssetRows /\ Custody(row)
    BY <2>1 DEF X!AssetRows, X!AssetStatuses, Custody
  <2>3. asset' = [asset EXCEPT ![a] = row] /\ UNCHANGED <<advance, byPayroll, recovered, final, desk>>
    BY <1>4, <2>1 DEF X!createAsset, X!Put, X!Stored, X!AtOnce
  <2> QED
    BY <1>3, <2>2, <2>3
<1>5. ASSUME NEW a \in Assets, X!deleteAsset(a) PROVE ExitInv'
  <2>1. asset' = [asset EXCEPT ![a] = Nobody] /\ UNCHANGED <<advance, byPayroll, recovered, final, desk>>
    BY <1>5 DEF X!deleteAsset, X!Stored, X!AtOnce
  <2> QED
    BY <1>3, <2>1
<1>6. ASSUME NEW a \in Assets, asset[a] # Nobody PROVE asset[a] \in X!AssetRows /\ Custody(asset[a])
  BY <1>0, <1>6, CustodyOf
<1>7. ASSUME NEW a \in Assets, NEW status \in X!AssetStatuses, X!updateAsset(a, status) PROVE ExitInv'
  <2>1. PICK row : row = [asset[a] EXCEPT !.status = status]
    OBVIOUS
  <2>2. asset[a] # Nobody /\ asset[a].holder = Nobody /\ status # "ASSIGNED"
    BY <1>7 DEF X!updateAsset
  <2>3. row \in X!AssetRows /\ Custody(row)
    BY <1>6, <2>1, <2>2 DEF X!AssetRows, Custody
  <2>4. asset' = [asset EXCEPT ![a] = row] /\ UNCHANGED <<advance, byPayroll, recovered, final, desk>>
    BY <1>7, <2>1 DEF X!updateAsset, X!Stored, X!AtOnce
  <2> QED
    BY <1>3, <2>3, <2>4
<1>8. ASSUME NEW a \in Assets, NEW condition \in {"AVAILABLE", "DAMAGED"}, NEW charge \in {0, 1},
             X!returnAsset(a, condition, charge)
      PROVE  ExitInv'
  <2>1. PICK row : row = [status |-> condition, holder |-> Nobody, fixing |-> asset[a].fixing, logged |-> Nobody]
    OBVIOUS
  <2>2. asset[a] # Nobody
    BY <1>8 DEF X!returnAsset
  <2>3. row \in X!AssetRows /\ Custody(row)
    BY <1>6, <2>1, <2>2 DEF X!AssetRows, X!AssetStatuses, Custody
  <2>4. asset' = [asset EXCEPT ![a] = row] /\ UNCHANGED <<advance, byPayroll, recovered, final, desk>>
    BY <1>8, <2>1 DEF X!returnAsset, X!Put, X!AtOnce
  <2> QED
    BY <1>3, <2>3, <2>4
<1>9. ASSUME NEW a \in Assets, X!logMaintenance(a) PROVE ExitInv'
  <2>1. PICK row : row = [asset[a] EXCEPT !.fixing = TRUE, !.status = "UNDER_MAINTENANCE"]
    OBVIOUS
  <2>2. asset[a] # Nobody
    BY <1>9 DEF X!logMaintenance
  <2>3. row \in X!AssetRows /\ Custody(row)
    BY <1>6, <2>1, <2>2 DEF X!AssetRows, X!AssetStatuses, Custody
  <2>4. asset' = [asset EXCEPT ![a] = row]
    <3>1. [asset EXCEPT ![a].fixing = TRUE][a] = [asset[a] EXCEPT !.fixing = TRUE]
      BY <1>0 DEF CustodyInv
    <3> QED
      BY <1>0, <1>9, <2>1, <3>1 DEF X!logMaintenance, CustodyInv
  <2>5. UNCHANGED <<advance, byPayroll, recovered, final, desk>>
    BY <1>9 DEF X!logMaintenance, X!Stored, X!AtOnce
  <2> QED
    BY <1>3, <2>3, <2>4, <2>5
<1>10. ASSUME NEW a \in Assets, X!completeMaintenance(a) PROVE ExitInv'
  <2>1. PICK status : status = X!StatusAfterMaintenance(a)
    OBVIOUS
  <2>2. PICK row : row = [asset[a] EXCEPT !.fixing = FALSE, !.status = status]
    OBVIOUS
  <2>3. asset[a] # Nobody
    BY <1>10 DEF X!completeMaintenance
  <2>4. row \in X!AssetRows /\ Custody(row)
    BY <1>6, <2>1, <2>2, <2>3 DEF X!AssetRows, X!AssetStatuses, X!StatusAfterMaintenance, Custody
  <2>5. asset' = [asset EXCEPT ![a] = row]
    <3>1. [asset EXCEPT ![a].fixing = FALSE][a] = [asset[a] EXCEPT !.fixing = FALSE]
      BY <1>0 DEF CustodyInv
    <3> QED
      BY <1>0, <1>10, <2>1, <2>2, <3>1 DEF X!completeMaintenance, CustodyInv
  <2>6. UNCHANGED <<advance, byPayroll, recovered, final, desk>>
    BY <1>10 DEF X!completeMaintenance, X!Stored, X!AtOnce
  <2> QED
    BY <1>3, <2>4, <2>5, <2>6
<1> QED
  BY <1>1, <1>2, <1>4, <1>5, <1>7, <1>8, <1>9, <1>10

LEMMA ExitStarts == X!Init => ExitInv
<1> SUFFICES ASSUME X!Init PROVE ExitInv
  OBVIOUS
<1>1. LoanInv
  BY NobodyIsNone DEF X!Init, LoanInv, DeskFits, X!NoReq
<1>2. CustodyInv
  BY DEF X!Init, CustodyInv, CustodyAgrees, X!CustodyAgrees
<1> QED
  BY <1>1, <1>2 DEF ExitInv

LEMMA ExitStep == ExitInv /\ [X!Next]_(X!vars) => ExitInv'
<1> SUFFICES ASSUME ExitInv, [X!Next]_(X!vars) PROVE ExitInv'
  OBVIOUS
<1>0. LoanInv /\ CustodyInv
  BY DEF ExitInv
<1>1. CASE UNCHANGED X!vars
  BY <1>0, <1>1, LoanKept, CustodyKept DEF X!vars, ExitInv
<1>2. CASE X!Store
  BY <1>2, StoreFits DEF X!Store
<1>3. CASE X!Leaving \/ X!Desk \/ (\E x \in Exits : X!DisburseReads(x)) \/ X!DisburseCommits \/ X!SignOff \/ X!Payroll
  <2>1. LoanInv' /\ asset' = asset
    BY <1>0, <1>3, LoanLeaving, LoanDesk, LoanCalculated, LoanDisbursed, LoanPaidOff, LoanOther DEF X!Desk
  <2> QED
    BY <1>0, <2>1, CustodyKept DEF ExitInv
<1> QED
  BY <1>1, <1>2, <1>3 DEF X!Next

(* Of any number of exits, with the final settlement calculated long before it is   *)
(* paid and payroll recovering the loan meanwhile, the loan is closed only when  *)
(* the two recovered all of it.                                                 *)
THEOREM LoansAreRecovered == ExitSpec => []LoanNeverForgiven
<1>1. ExitInv => LoanNeverForgiven
  BY DEF ExitInv, LoanInv, LoanNeverForgiven, X!LoanNeverForgiven
<1> QED
  BY <1>1, ExitStarts, ExitStep, PTL DEF ExitSpec, X!Spec

(* After any sequence of the handlers of assets, for any number of them: an asset   *)
(* is out exactly when somebody holds it, and its log names the holder.           *)
THEOREM CustodyIsKept == ExitSpec => []CustodyAgrees
<1>1. ExitInv => CustodyAgrees
  BY DEF ExitInv, CustodyInv
<1> QED
  BY <1>1, ExitStarts, ExitStep, PTL DEF ExitSpec, X!Spec
=============================================================================
