----------------------------- MODULE Leave_proofs -----------------------------
(***************************************************************************)
(* Proofs about time off (MCLeave): Leave, for any requests, calendar, quota  *)
(* and slots, and Overtime, for any desks, minutes and redemptions.          *)
(***************************************************************************)
EXTENDS MCLeave, Sums_proofs, TLAPS

DecisionOps == {"review", "approve", "cancel"}
Is(s, op) == req[s] # None /\ req[s].op = op

(* A decision in flight is about a request that was made; rows are never      *)
(* deleted.                                                                 *)
DecidedExists == \A s \in Slots : req[s] # None /\ req[s].op \in DecisionOps => leave[req[s].id] # None

TypeInv == TypeOK /\ DecidedExists

(* What a request in flight carries.                                        *)
LEMMA RequestCases ==
  ASSUME TypeOK, NEW s \in Slots, req[s] # None
  PROVE  /\ req[s] \in Requests
         /\ req[s].op = "create" => req[s].row \in LeaveRows /\ req[s].row.status = "PENDING"
         /\ req[s].op \in DecisionOps => req[s].id \in Ids
         /\ req[s].op = "review" => req[s].status \in {"APPROVED", "REJECTED"}
         /\ req[s].op = "approve" => req[s].free \in SUBSET Days
         /\ req[s].op = "cancel" => req[s].was \in BLOCKING_STATUSES
         /\ req[s].op = "punch" => req[s].date \in Days
         /\ req[s].op = "carry" => req[s].allocated \in [Paid -> Nat]
<1>1. req[s] \in Requests
  BY DEF TypeOK
<1> QED  BY <1>1 DEF Requests, DecisionOps, NewRows

LEMMA BalanceTyped ==
  ASSUME TypeOK, NEW t \in Types, NEW y \in Years
  PROVE  Allocated(t, y) \in Nat /\ Used(t, y) \in Int
<1>1. balance[t][y] \in BalanceRows \cup {None}
  BY DEF TypeOK
<1> QED  BY <1>1, LeaveAssumption DEF Allocated, Used, daysAllowed, BalanceRows

(* A request that starts to wait, and one that is done.                     *)
LEMMA WaitsTyped ==
  ASSUME TypeInv, NEW s \in Slots, NEW r \in Requests, Waits(s, r), UNCHANGED leave,
         r.op \in DecisionOps => leave[r.id] # None
  PROVE  req' \in [Slots -> Requests \cup {None}] /\ DecidedExists'
<1>1. req' = [req EXCEPT ![s] = r] /\ req \in [Slots -> Requests \cup {None}]
  BY DEF Waits, TypeInv, TypeOK
<1>2. r # None
  BY NoRowAssumption
<1>3. ASSUME NEW x \in Slots, req'[x] # None, req'[x].op \in DecisionOps
      PROVE  leave'[req'[x].id] # None
  BY <1>1, <1>3 DEF TypeInv, DecidedExists
<1> QED  BY <1>1, <1>3 DEF DecidedExists

LEMMA DoneTyped ==
  ASSUME TypeInv, NEW s \in Slots, Done(s), \A i \in Ids : leave[i] # None => leave'[i] # None
  PROVE  req' \in [Slots -> Requests \cup {None}] /\ DecidedExists'
<1>1. req' = [req EXCEPT ![s] = None] /\ req \in [Slots -> Requests \cup {None}]
  BY DEF Done, TypeInv, TypeOK
<1>2. ASSUME NEW x \in Slots, req'[x] # None, req'[x].op \in DecisionOps
      PROVE  leave'[req'[x].id] # None
  <2>1. req'[x] = req[x]
    BY <1>1, <1>2
  <2>2. req[x].id \in Ids /\ leave[req[x].id] # None
    BY <1>2, <2>1, RequestCases DEF TypeInv, DecidedExists
  <2> QED  BY <2>1, <2>2
<1> QED  BY <1>1, <1>2 DEF DecidedExists

(* A status is changed: everything else about the requests stays.           *)
LEMMA StatusTyped ==
  ASSUME TypeOK, NEW i \in Ids, leave[i] # None, NEW st \in BLOCKING_STATUSES \cup {"REJECTED"},
         leave' = [leave EXCEPT ![i].status = st]
  PROVE  /\ leave' \in [Ids -> LeaveRows \cup {None}]
         /\ leave'[i] # None /\ leave'[i].status = st
         /\ leave'[i].first = leave[i].first /\ leave'[i].last = leave[i].last
         /\ \A j \in Ids : j # i => leave'[j] = leave[j]
         /\ \A j \in Ids : leave[j] # None => leave'[j] # None
<1> DEFINE r == [leave[i] EXCEPT !.status = st]
<1>1. leave[i] \in LeaveRows /\ leave \in [Ids -> LeaveRows \cup {None}]
  BY DEF TypeOK
<1>2. r \in LeaveRows /\ r.status = st /\ r.first = leave[i].first /\ r.last = leave[i].last
  BY <1>1 DEF LeaveRows
<1>3. leave' = [leave EXCEPT ![i] = r]
  OBVIOUS
<1>4. r # None
  BY <1>2, NoRowAssumption
<1> HIDE DEF r
<1> QED  BY <1>1, <1>2, <1>3, <1>4

LEMMA ChargedTyped ==
  ASSUME TypeOK, NEW t \in Types, NEW y \in Years, NEW n \in Int
  PROVE  Charged(t, y, n) \in [Types -> [Years -> BalanceRows \cup {None}]]
<1> DEFINE b == [allocated |-> Allocated(t, y), used |-> Used(t, y) + n]
<1>1. b \in BalanceRows
  BY BalanceTyped DEF BalanceRows
<1>2. Charged(t, y, n) = [balance EXCEPT ![t] = [balance[t] EXCEPT ![y] = b]]
  BY DEF Charged, TypeOK
<1> HIDE DEF b
<1>3. [balance[t] EXCEPT ![y] = b] \in [Years -> BalanceRows \cup {None}]
  BY <1>1 DEF TypeOK
<1> QED  BY <1>2, <1>3 DEF TypeOK

(* The year of a row is one of the two.                                     *)
LEMMA YearTyped == \A d \in Days : YearOf(d) \in Years
BY DEF YearOf, Years

LEMMA InvInit ==
  ASSUME Init PROVE TypeInv
<1>1. 1 \in Days /\ 0 \in 0 .. Carries
  BY LeaveAssumption DEF Days
<1>2. leave \in [Ids -> LeaveRows \cup {None}] /\ req \in [Slots -> Requests \cup {None}]
  BY DEF Init
<1>3. balance \in [Types -> [Years -> BalanceRows \cup {None}]]
  BY DEF Init
<1>4. day \in [Days -> [checkIn : BOOLEAN, status : {"NONE", "PRESENT", "ON_LEAVE"}]]
  BY DEF Init
<1> QED  BY <1>1, <1>2, <1>3, <1>4 DEF Init, TypeInv, TypeOK, DecidedExists

DayRows == [checkIn : BOOLEAN, status : {"NONE", "PRESENT", "ON_LEAVE"}]

(* Days that are marked as leave or cleared, and a day that is punched.       *)
LEMMA DaysTyped ==
  ASSUME day \in [Days -> DayRows]
  PROVE  /\ \A r : Undone(r) => day' \in [Days -> DayRows]
         /\ \A F : day' = [d \in Days |-> IF d \in F THEN [day[d] EXCEPT !.status = "ON_LEAVE"] ELSE day[d]]
                     => day' \in [Days -> DayRows]
         /\ \A x \in Days : day' = [day EXCEPT ![x] = [checkIn |-> TRUE, status |-> "PRESENT"]]
                     => day' \in [Days -> DayRows]
<1>1. [checkIn |-> FALSE, status |-> "NONE"] \in DayRows /\ [checkIn |-> TRUE, status |-> "PRESENT"] \in DayRows
  BY DEF DayRows
<1>2. \A d \in Days : [day[d] EXCEPT !.status = "ON_LEAVE"] \in DayRows
  BY DEF DayRows
<1> QED  BY <1>1, <1>2 DEF Undone

LEMMA TypeStep ==
  ASSUME TypeInv, [Next]_vars
  PROVE  TypeInv'
<1>0. /\ leave \in [Ids -> LeaveRows \cup {None}]
      /\ balance \in [Types -> [Years -> BalanceRows \cup {None}]]
      /\ day \in [Days -> DayRows]
      /\ req \in [Slots -> Requests \cup {None}]
      /\ today \in Days /\ carried \in 0 .. Carries
      /\ TypeOK /\ DecidedExists
  BY DEF TypeInv, TypeOK, DayRows
<1>1. CASE DayPasses
  <2>1. today + 1 \in Days
    BY <1>0, <1>1, LeaveAssumption DEF DayPasses, Days
  <2> QED  BY <1>0, <1>1, <2>1 DEF DayPasses, TypeInv, TypeOK, DecidedExists
<1>2. ASSUME NEW y \in Years, getLeaveBalances(y) PROVE TypeInv'
  <2>1. \A t \in Types : [allocated |-> Allocated(t, y), used |-> Used(t, y)] \in BalanceRows
    BY <1>0, BalanceTyped DEF BalanceRows
  <2>2. balance' = [t \in Types |-> [balance[t] EXCEPT ![y] = [allocated |-> Allocated(t, y), used |-> Used(t, y)]]]
    BY <1>2 DEF getLeaveBalances
  <2>3. balance' \in [Types -> [Years -> BalanceRows \cup {None}]]
    BY <1>0, <2>1, <2>2
  <2> QED  BY <1>0, <1>2, <2>3 DEF getLeaveBalances, TypeInv, TypeOK, DecidedExists
<1>4. ASSUME NEW s \in Slots, NEW r \in Requests, Waits(s, r),
             UNCHANGED <<leave, balance, day, today>>, carried' \in 0 .. Carries,
             r.op \in DecisionOps => leave[r.id] # None
      PROVE  TypeInv'
  <2>1. req' \in [Slots -> Requests \cup {None}] /\ DecidedExists'
    BY <1>4, WaitsTyped
  <2> QED  BY <1>0, <1>4, <2>1 DEF TypeInv, TypeOK, DayRows
<1>5. ASSUME NEW s \in Slots, NEW t \in Types, NEW first \in Days, NEW last \in Days, NEW days \in Days,
             CreateChecks(s, t, first, last, days)
      PROVE  TypeInv'
  <2> DEFINE row == [type |-> t, first |-> first, last |-> last, days |-> days, status |-> "PENDING"]
             r == [op |-> "create", row |-> row]
  <2>1. row \in NewRows
    BY DEF NewRows, LeaveRows, BLOCKING_STATUSES, Days
  <2>2. Waits(s, r) /\ UNCHANGED <<leave, balance, day, today, carried>>
    BY <1>5 DEF CreateChecks
  <2> HIDE DEF row
  <2>3. r \in Requests /\ r.op \notin DecisionOps
    BY <2>1 DEF Requests, DecisionOps
  <2> HIDE DEF r
  <2> QED  BY <1>0, <1>4, <2>2, <2>3
<1>6. ASSUME NEW s \in Slots, CreateCommits(s) PROVE TypeInv'
  <2>1. PICK i \in Ids \ Made : leave' = [leave EXCEPT ![i] = req[s].row]
    BY <1>6 DEF CreateCommits
  <2>2. req[s].row \in LeaveRows
    BY <1>0, <1>6, RequestCases DEF CreateCommits, InFlight
  <2>3. leave' \in [Ids -> LeaveRows \cup {None}] /\ \A j \in Ids : leave[j] # None => leave'[j] # None
    BY <1>0, <2>1, <2>2, NoRowAssumption
  <2>4. req' \in [Slots -> Requests \cup {None}] /\ DecidedExists'
    BY <1>6, <2>3, DoneTyped DEF CreateCommits
  <2> QED  BY <1>0, <1>6, <2>3, <2>4 DEF CreateCommits, TypeInv, TypeOK, DayRows
<1>7. ASSUME NEW s \in Slots, NEW i \in Ids, NEW status \in {"APPROVED", "REJECTED"}, ReviewChecks(s, i, status)
      PROVE  TypeInv'
  <2> DEFINE r == [op |-> "review", id |-> i, status |-> status]
  <2>1. r \in Requests /\ r.id = i
    BY DEF Requests
  <2>2. Waits(s, r) /\ UNCHANGED <<leave, balance, day, today, carried>> /\ leave[i] # None
    BY <1>7 DEF ReviewChecks, With, Made
  <2> HIDE DEF r
  <2> QED  BY <1>0, <1>4, <2>1, <2>2
<1>8. ASSUME NEW s \in Slots, ReviewClaims(s) PROVE TypeInv'
  <2> DEFINE i == req[s].id
             free == {d \in classifyRangeDays(leave[i].first, leave[i].last) :
                         ~day[d].checkIn /\ day[d].status # "PRESENT"}
             r == [op |-> "approve", id |-> i, free |-> free]
  <2>1. req[s] # None /\ req[s].op = "review"
    BY <1>8 DEF ReviewClaims, InFlight
  <2>2. i \in Ids /\ leave[i] # None
    BY <1>0, <2>1, RequestCases DEF DecidedExists, DecisionOps
  <2>3. UNCHANGED <<balance, day, today, carried>>
    BY <1>8 DEF ReviewClaims
  <2>4. CASE req' = [req EXCEPT ![s] = r] /\ UNCHANGED leave
    <3>1. leave[i] \in LeaveRows
      BY <1>0, <2>2
    <3>2. leave[i].first \in Days /\ leave[i].last \in Days
      BY <3>1 DEF LeaveRows
    <3>3. free \in SUBSET Days
      <4>1. leave[i].first .. leave[i].last \subseteq Days
        BY <3>2, LeaveAssumption DEF Days
      <4> QED  BY <4>1 DEF classifyRangeDays
    <3> HIDE DEF free
    <3>4. r \in Requests /\ r.op = "approve" /\ r.id = i
      BY <2>2, <3>3 DEF Requests
    <3>5. r # None
      BY <3>4, NoRowAssumption
    <3> HIDE DEF r, i
    <3>6. req' \in [Slots -> Requests \cup {None}]
      BY <1>0, <2>4, <3>4
    <3>7. DecidedExists'
      BY <1>0, <2>2, <2>4, <3>4, <3>5 DEF DecidedExists
    <3> QED  BY <1>0, <2>3, <2>4, <3>6, <3>7 DEF TypeInv, TypeOK, DayRows
  <2>5. CASE (leave' = [leave EXCEPT ![i].status = "REJECTED"] \/ leave' = leave) /\ Done(s)
    <3>1. leave' \in [Ids -> LeaveRows \cup {None}] /\ \A j \in Ids : leave[j] # None => leave'[j] # None
      BY <1>0, <2>2, <2>5, StatusTyped
    <3>2. req' \in [Slots -> Requests \cup {None}] /\ DecidedExists'
      BY <2>5, <3>1, DoneTyped
    <3> QED  BY <1>0, <2>3, <3>1, <3>2 DEF TypeInv, TypeOK, DayRows
  <2> QED  BY <1>8, <2>4, <2>5 DEF ReviewClaims
<1>9. ASSUME NEW s \in Slots, ApproveCommits(s) PROVE TypeInv'
  <2> DEFINE i == req[s].id
  <2>1. req[s] # None /\ req[s].op = "approve"
    BY <1>9 DEF ApproveCommits, InFlight
  <2>2. i \in Ids /\ leave[i] # None
    BY <1>0, <2>1, RequestCases DEF DecidedExists, DecisionOps
  <2>3. leave[i] \in LeaveRows
    BY <1>0, <2>2
  <2>4. leave[i].type \in Types /\ leave[i].first \in Days /\ leave[i].days \in Nat
    BY <2>3 DEF LeaveRows
  <2>5. leave' = [leave EXCEPT ![i].status = "APPROVED"]
    BY <1>9 DEF ApproveCommits
  <2>6. leave' \in [Ids -> LeaveRows \cup {None}] /\ \A j \in Ids : leave[j] # None => leave'[j] # None
    BY <1>0, <2>2, <2>5, StatusTyped DEF BLOCKING_STATUSES
  <2>7. req' \in [Slots -> Requests \cup {None}] /\ DecidedExists'
    BY <1>9, <2>6, DoneTyped DEF ApproveCommits
  <2>8. balance' \in [Types -> [Years -> BalanceRows \cup {None}]]
    BY <1>0, <1>9, <2>4, ChargedTyped, YearTyped DEF ApproveCommits
  <2>9. day' \in [Days -> DayRows]
    BY <1>0, <1>9, DaysTyped DEF ApproveCommits
  <2> QED  BY <1>0, <1>9, <2>6, <2>7, <2>8, <2>9 DEF ApproveCommits, TypeInv, TypeOK, DayRows
<1>10. ASSUME NEW s \in Slots, NEW i \in Ids, NEW isAdmin \in BOOLEAN, CancelChecks(s, i, isAdmin)
       PROVE  TypeInv'
  <2> DEFINE r == [op |-> "cancel", id |-> i, was |-> leave[i].status]
  <2>1. leave[i] # None /\ leave[i].status \in BLOCKING_STATUSES
    BY <1>10 DEF CancelChecks, With, Made
  <2>2. r \in Requests /\ r.id = i
    BY <2>1 DEF Requests
  <2>3. Waits(s, r) /\ UNCHANGED <<leave, balance, day, today, carried>>
    BY <1>10 DEF CancelChecks
  <2> HIDE DEF r
  <2> QED  BY <1>0, <1>4, <2>1, <2>2, <2>3
<1>11. ASSUME NEW s \in Slots, CancelCommits(s) PROVE TypeInv'
  <2> DEFINE i == req[s].id
  <2>1. req[s] # None /\ req[s].op = "cancel"
    BY <1>11 DEF CancelCommits, InFlight
  <2>2. i \in Ids /\ leave[i] # None
    BY <1>0, <2>1, RequestCases DEF DecidedExists, DecisionOps
  <2>3. leave[i] \in LeaveRows
    BY <1>0, <2>2
  <2>4. leave[i].type \in Types /\ leave[i].first \in Days /\ -leave[i].days \in Int
    BY <2>3 DEF LeaveRows
  <2>5. leave' = [leave EXCEPT ![i].status = "REJECTED"]
    BY <1>11 DEF CancelCommits
  <2>6. leave' \in [Ids -> LeaveRows \cup {None}] /\ \A j \in Ids : leave[j] # None => leave'[j] # None
    BY <1>0, <2>2, <2>5, StatusTyped
  <2>7. req' \in [Slots -> Requests \cup {None}] /\ DecidedExists'
    BY <1>11, <2>6, DoneTyped DEF CancelCommits
  <2>8. balance' \in [Types -> [Years -> BalanceRows \cup {None}]]
    BY <1>0, <1>11, <2>4, ChargedTyped, YearTyped DEF CancelCommits
  <2>9. day' \in [Days -> DayRows]
    BY <1>0, <1>11, DaysTyped DEF CancelCommits
  <2> QED  BY <1>0, <1>11, <2>6, <2>7, <2>8, <2>9 DEF CancelCommits, TypeInv, TypeOK, DayRows
<1>12. ASSUME NEW s \in Slots, CarryReads(s) PROVE TypeInv'
  <2> DEFINE r == [op |-> "carry", allocated |-> [t \in Paid |-> NextYear(t)]]
  <2>1. ASSUME NEW t \in Paid PROVE NextYear(t) \in Nat
    <3>1. balance[t][1] \in BalanceRows \cup {None}
      BY <1>0 DEF Paid, Years
    <3>2. Unused(t) \in Nat
      BY <3>1 DEF Unused, BalanceRows
    <3> QED  BY <3>2, LeaveAssumption DEF NextYear, Least, daysAllowed
  <2>2. r \in Requests /\ r.op \notin DecisionOps
    BY <2>1 DEF Requests, DecisionOps
  <2>3. Waits(s, r) /\ UNCHANGED <<leave, balance, day, today>> /\ carried' \in 0 .. Carries
    BY <1>0, <1>12, LeaveAssumption DEF CarryReads
  <2> HIDE DEF r
  <2> QED  BY <1>0, <1>4, <2>2, <2>3
<1>13. ASSUME NEW s \in Slots, CarryCommits(s) PROVE TypeInv'
  <2>1. req[s].allocated \in [Paid -> Nat]
    BY <1>0, <1>13, RequestCases DEF CarryCommits, InFlight
  <2>2. \A t \in Paid : [allocated |-> req[s].allocated[t], used |-> Used(t, 2)] \in BalanceRows
    BY <1>0, <2>1, BalanceTyped DEF BalanceRows, Paid, Years
  <2>3. balance' = [t \in Types |->
                      IF t \in Paid
                      THEN [balance[t] EXCEPT ![2] = [allocated |-> req[s].allocated[t], used |-> Used(t, 2)]]
                      ELSE balance[t]]
    BY <1>13 DEF CarryCommits
  <2>4. balance' \in [Types -> [Years -> BalanceRows \cup {None}]]
    BY <1>0, <2>2, <2>3
  <2>5. req' \in [Slots -> Requests \cup {None}] /\ DecidedExists'
    BY <1>13, DoneTyped DEF CarryCommits
  <2> QED  BY <1>0, <1>13, <2>4, <2>5 DEF CarryCommits, TypeInv, TypeOK, DayRows
<1>14. ASSUME NEW s \in Slots, NEW onBehalf \in BOOLEAN, PunchChecks(s, onBehalf) PROVE TypeInv'
  <2> DEFINE r == [op |-> "punch", date |-> today]
  <2>1. r \in Requests /\ r.op \notin DecisionOps
    BY <1>0 DEF Requests, DecisionOps
  <2>2. Waits(s, r) /\ UNCHANGED <<leave, balance, day, today, carried>>
    BY <1>14 DEF PunchChecks
  <2> HIDE DEF r
  <2> QED  BY <1>0, <1>4, <2>1, <2>2
<1>15. ASSUME NEW s \in Slots, PunchCommits(s) PROVE TypeInv'
  <2>1. req[s].date \in Days
    BY <1>0, <1>15, RequestCases DEF PunchCommits, InFlight
  <2>2. day' \in [Days -> DayRows]
    BY <1>0, <1>15, <2>1, DaysTyped DEF PunchCommits
  <2>3. req' \in [Slots -> Requests \cup {None}] /\ DecidedExists'
    BY <1>15, DoneTyped DEF PunchCommits
  <2> QED  BY <1>0, <1>15, <2>2, <2>3 DEF PunchCommits, TypeInv, TypeOK, DayRows
<1>16. CASE UNCHANGED vars
  BY <1>0, <1>16 DEF vars, TypeInv, TypeOK, DecidedExists, DayRows
<1> QED
  BY <1>1, <1>2, <1>5, <1>6, <1>7, <1>8, <1>9, <1>10, <1>11, <1>12, <1>13, <1>14, <1>15, <1>16 DEF Next

(* The types of requests, balances, days and requests in flight hold.        *)
THEOREM TypeCorrect == Spec => []TypeOK
<1>1. TypeInv => TypeOK
  BY DEF TypeInv
<1> QED  BY InvInit, TypeStep, <1>1, PTL DEF Spec

(***************************************************************************)
(* Why every day of an approved leave stays blocked, when neither two       *)
(* creations nor a cancellation and another decision of the same request    *)
(* overlap: blocking requests never overlap, so a cancellation clears no     *)
(* other request's day; and an approval blocks every day it found free.      *)
(***************************************************************************)
Blocking(i) == leave[i] # None /\ leave[i].status \in BLOCKING_STATUSES

NoOverlap == \A i, j \in Ids : i # j /\ Blocking(i) /\ Blocking(j) => ~Overlap(leave[i], leave[j])

(* The one creation in flight overlaps no blocking request.                  *)
CreateClear ==
    \A s \in Slots : Is(s, "create") =>
        /\ \A i \in Ids : Blocking(i) => ~Overlap(leave[i], req[s].row)
        /\ \A x \in Slots : Is(x, "create") => x = s

(* A cancellation in flight is the only decision of its request.             *)
CancelAlone ==
    \A s \in Slots : Is(s, "cancel") =>
        /\ leave[req[s].id].status = req[s].was
        /\ \A x \in Slots : x # s /\ req[x] # None /\ req[x].op \in DecisionOps => req[x].id # req[s].id

(* An approval holds its request; days it does not mark have a punch.        *)
ApproveHolds ==
    \A s \in Slots : Is(s, "approve") =>
        /\ leave[req[s].id].status = "PENDING"
        /\ \A x \in Slots : x # s /\ Is(x, "approve") => req[x].id # req[s].id
        /\ \A d \in Days : d \in classifyRangeDays(leave[req[s].id].first, leave[req[s].id].last) =>
               d \in req[s].free \/ day[d].checkIn

PresentHasPunch == \A d \in Days : day[d].status = "PRESENT" => day[d].checkIn

Marked == \A i \in Ids : leave[i] # None /\ leave[i].status = "APPROVED" =>
    \A d \in Days : d \in classifyRangeDays(leave[i].first, leave[i].last) =>
        day[d].status = "ON_LEAVE" \/ day[d].checkIn

MarkInv == TypeInv /\ NoOverlap /\ CreateClear /\ CancelAlone /\ ApproveHolds /\ PresentHasPunch /\ Marked

LEMMA MarkedEnough ==
  ASSUME MarkInv PROVE LeaveIsMarked
<1>1. ASSUME NEW i \in Ids, leave[i] # None, leave[i].status = "APPROVED",
             NEW d \in classifyRangeDays(leave[i].first, leave[i].last)
      PROVE  day[d].status = "ON_LEAVE" \/ day[d].checkIn
  <2>1. leave[i] \in LeaveRows
    BY <1>1 DEF MarkInv, TypeInv, TypeOK
  <2>2. leave[i].first \in Days /\ leave[i].last \in Days
    BY <2>1 DEF LeaveRows
  <2>3. d \in Days
    BY <1>1, <2>2, LeaveAssumption DEF classifyRangeDays, Days
  <2> QED  BY <1>1, <2>3 DEF MarkInv, Marked
<1> QED  BY <1>1 DEF LeaveIsMarked, With, Made

(* A request that starts to wait changes nothing else.                      *)
LEMMA MarkWaits ==
  ASSUME MarkInv, TypeInv', NEW s \in Slots, NEW r \in Requests, Waits(s, r), UNCHANGED <<leave, day>>,
         r.op = "create" => /\ \A i \in Ids : Blocking(i) => ~Overlap(leave[i], r.row)
                            /\ \A x \in Slots : ~Is(x, "create"),
         r.op = "cancel" => /\ leave[r.id].status = r.was
                            /\ \A x \in Slots : req[x] # None /\ req[x].op \in DecisionOps => req[x].id # r.id,
         r.op = "review" => \A x \in Slots : Is(x, "cancel") => req[x].id # r.id,
         r.op # "approve"
  PROVE  MarkInv'
<1>1. req' = [req EXCEPT ![s] = r] /\ req[s] = None /\ req \in [Slots -> Requests \cup {None}] /\ r # None
  BY NoRowAssumption DEF Waits, MarkInv, TypeInv, TypeOK
<1>2. \A x \in Slots : x # s => req'[x] = req[x]
  BY <1>1
<1>3. req'[s] = r
  BY <1>1
<1>4. NoOverlap' /\ PresentHasPunch' /\ Marked'
  BY DEF MarkInv, NoOverlap, PresentHasPunch, Marked, Blocking
<1>5. CreateClear'
  BY <1>1, <1>2, <1>3 DEF MarkInv, CreateClear, Blocking, Is
<1>6. CancelAlone'
  BY <1>1, <1>2, <1>3 DEF MarkInv, CancelAlone, Is, DecisionOps
<1>7. ApproveHolds'
  BY <1>1, <1>2, <1>3 DEF MarkInv, ApproveHolds, Is
<1> QED  BY <1>4, <1>5, <1>6, <1>7 DEF MarkInv

(* A request that is done.                                                  *)
LEMMA DoneSlot ==
  ASSUME TypeOK, NEW s \in Slots, Done(s)
  PROVE  \A x \in Slots : req'[x] # None => x # s /\ req'[x] = req[x]
BY DEF Done, TypeOK

LEMMA MarkStep ==
  ASSUME Races = {}, MarkInv, [Next]_vars
  PROVE  MarkInv'
<1>0. /\ TypeInv /\ TypeOK /\ DecidedExists /\ TypeInv'
      /\ leave \in [Ids -> LeaveRows \cup {None}]
      /\ req \in [Slots -> Requests \cup {None}]
      /\ day \in [Days -> DayRows]
  BY TypeStep DEF MarkInv, TypeInv, TypeOK, DayRows
<1>1. ASSUME UNCHANGED <<leave, day, req>> PROVE MarkInv'
  BY <1>0, <1>1 DEF MarkInv, NoOverlap, CreateClear, CancelAlone, ApproveHolds, PresentHasPunch, Marked, Blocking, Is
<1>2. ASSUME NEW s \in Slots, NEW t \in Types, NEW first \in Days, NEW last \in Days, NEW days \in Days,
             CreateChecks(s, t, first, last, days)
      PROVE  MarkInv'
  <2> DEFINE row == [type |-> t, first |-> first, last |-> last, days |-> days, status |-> "PENDING"]
             r == [op |-> "create", row |-> row]
  <2>1. row \in NewRows
    BY DEF NewRows, LeaveRows, BLOCKING_STATUSES, Days
  <2>2. Waits(s, r) /\ UNCHANGED <<leave, day>>
    BY <1>2 DEF CreateChecks
  <2>3. \A i \in Ids : Blocking(i) => ~Overlap(leave[i], row)
    BY <1>2 DEF CreateChecks, Blocking, With, Made
  <2>4. \A x \in Slots : ~Is(x, "create")
    BY <1>2 DEF CreateChecks, InFlight, Is
  <2> HIDE DEF row
  <2>5. r \in Requests /\ r.op = "create" /\ r.row = row
    BY <2>1 DEF Requests
  <2> HIDE DEF r
  <2> QED  BY <1>0, <2>2, <2>3, <2>4, <2>5, MarkWaits
<1>3. ASSUME NEW s \in Slots, CreateCommits(s) PROVE MarkInv'
  <2>1. PICK i \in Ids \ Made : leave' = [leave EXCEPT ![i] = req[s].row]
    BY <1>3 DEF CreateCommits
  <2>2. Is(s, "create") /\ Done(s) /\ UNCHANGED day /\ leave[i] = None
    BY <1>3, <2>1 DEF CreateCommits, InFlight, Is, Made
  <2>3. req[s].row \in LeaveRows
    BY <1>0, <2>2, RequestCases DEF Is
  <2>4. leave'[i] = req[s].row /\ \A j \in Ids : j # i => leave'[j] = leave[j]
    BY <1>0, <2>1
  <2>5. \A x \in Slots : req'[x] # None => x # s /\ req'[x] = req[x]
    BY <1>0, <2>2, DoneSlot
  <2>6. \A j \in Ids : leave[j] # None => leave'[j] = leave[j]
    BY <2>2, <2>4
  <2>7. \A x \in Slots : req[x] # None /\ req[x].op \in DecisionOps =>
            req[x].id \in Ids /\ leave'[req[x].id] = leave[req[x].id]
    BY <1>0, <2>6, RequestCases DEF DecidedExists
  <2>8. \A j \in Ids : j # i /\ Blocking(j) => ~Overlap(leave[j], leave'[i])
    BY <2>2, <2>4 DEF MarkInv, CreateClear
  <2>9. \A j \in Ids : j # i => Blocking(j)' = Blocking(j)
    BY <2>4 DEF Blocking
  <2>10. NoOverlap'
    <3>1. ASSUME NEW a \in Ids, NEW b \in Ids, a # b, Blocking(a)', Blocking(b)'
          PROVE  ~Overlap(leave'[a], leave'[b])
      <4>1. CASE a = i
        BY <2>4, <2>8, <2>9, <3>1, <4>1 DEF Overlap
      <4>2. CASE b = i
        BY <2>4, <2>8, <2>9, <3>1, <4>2 DEF Overlap
      <4>3. CASE a # i /\ b # i
        BY <2>4, <2>9, <3>1, <4>3 DEF MarkInv, NoOverlap
      <4> QED  BY <4>1, <4>2, <4>3
    <3> QED  BY <3>1 DEF NoOverlap
  <2>11. CreateClear'
    BY <2>2, <2>5 DEF MarkInv, CreateClear, Is
  <2>12. CancelAlone'
    BY <2>5, <2>7 DEF MarkInv, CancelAlone, Is, DecisionOps
  <2>13. ApproveHolds'
    BY <2>2, <2>5, <2>7 DEF MarkInv, ApproveHolds, Is, DecisionOps
  <2>14. PresentHasPunch'
    BY <2>2 DEF MarkInv, PresentHasPunch
  <2>15. Marked'
    <3>1. leave'[i].status # "APPROVED"
      <4>1. req[s].row.status = "PENDING"
        BY <1>0, <2>2, RequestCases DEF Is
      <4> QED  BY <2>4, <4>1
    <3> QED  BY <2>2, <2>4, <3>1 DEF MarkInv, Marked
  <2> QED  BY <1>0, <2>10, <2>11, <2>12, <2>13, <2>14, <2>15 DEF MarkInv
<1>4. ASSUME NEW s \in Slots, NEW i \in Ids, NEW status \in {"APPROVED", "REJECTED"}, ReviewChecks(s, i, status)
      PROVE  MarkInv'
  <2> DEFINE r == [op |-> "review", id |-> i, status |-> status]
  <2>1. r \in Requests /\ r.id = i /\ r.op = "review"
    BY DEF Requests
  <2>2. Waits(s, r) /\ UNCHANGED <<leave, day>>
    BY <1>4 DEF ReviewChecks
  <2>3. \A x \in Slots : Is(x, "cancel") => req[x].id # i
    BY <1>4 DEF ReviewChecks, InFlight, Is
  <2> HIDE DEF r
  <2> QED  BY <1>0, <2>1, <2>2, <2>3, MarkWaits
<1>5. ASSUME NEW s \in Slots, ReviewClaims(s) PROVE MarkInv'
  <2> DEFINE i == req[s].id
             free == {d \in classifyRangeDays(leave[i].first, leave[i].last) :
                         ~day[d].checkIn /\ day[d].status # "PRESENT"}
             r == [op |-> "approve", id |-> i, free |-> free]
  <2>1. Is(s, "review") /\ UNCHANGED day /\ ~Locked(i)
    BY <1>5 DEF ReviewClaims, InFlight, Is
  <2>2. i \in Ids /\ leave[i] # None
    BY <1>0, <2>1, RequestCases DEF DecidedExists, DecisionOps, Is
  <2>3. \A x \in Slots : Is(x, "approve") => req[x].id # i
    BY <2>1 DEF Locked, InFlight, Is
  <2>4. \A x \in Slots : Is(x, "cancel") => x # s /\ req[x].id # i
    BY <2>1 DEF MarkInv, CancelAlone, Is, DecisionOps
  <2>5. CASE req' = [req EXCEPT ![s] = r] /\ UNCHANGED leave /\ Claimed(i)
    <3>1. \A d \in Days : d \in classifyRangeDays(leave[i].first, leave[i].last) => d \in free \/ day[d].checkIn
      BY DEF MarkInv, PresentHasPunch
    <3>2. r.op = "approve" /\ r.id = i /\ r.free = free /\ leave[i].status = "PENDING"
      BY <2>5 DEF Claimed
    <3> HIDE DEF free
    <3> HIDE DEF r, i
    <3>3. req'[s] = r /\ \A x \in Slots : x # s => req'[x] = req[x]
      BY <1>0, <2>5
    <3>4. NoOverlap' /\ PresentHasPunch' /\ Marked'
      BY <2>1, <2>5 DEF MarkInv, NoOverlap, PresentHasPunch, Marked, Blocking
    <3>5. CreateClear'
      BY <2>5, <3>2, <3>3 DEF MarkInv, CreateClear, Blocking, Is
    <3>6. CancelAlone'
      BY <2>4, <2>5, <3>2, <3>3 DEF MarkInv, CancelAlone, Is, DecisionOps
    <3>7. ApproveHolds'
      BY <2>1, <2>3, <2>5, <3>1, <3>2, <3>3 DEF MarkInv, ApproveHolds, Is
    <3> QED  BY <1>0, <3>4, <3>5, <3>6, <3>7 DEF MarkInv
  <2>6. CASE Done(s) /\ (leave' = leave \/ leave' = [leave EXCEPT ![i].status = "REJECTED"])
    <3>1. \A x \in Slots : req'[x] # None => x # s /\ req'[x] = req[x]
      BY <1>0, <2>6, DoneSlot
    <3>2. /\ \A j \in Ids : leave'[j] = leave[j] \/ (j = i /\ leave'[j] # None /\ leave'[j].status = "REJECTED")
      BY <1>0, <2>2, <2>6, StatusTyped
    <3> HIDE DEF i
    <3>3. \A j \in Ids : Blocking(j)' => Blocking(j) /\ leave'[j] = leave[j]
      BY <3>2 DEF Blocking, BLOCKING_STATUSES
    <3>4. NoOverlap'
      BY <3>3 DEF MarkInv, NoOverlap
    <3>5. CreateClear'
      BY <3>1, <3>3 DEF MarkInv, CreateClear, Is
    <3>6. \A x \in Slots : req'[x] # None /\ req'[x].op \in {"approve", "cancel"} =>
              req'[x].id \in Ids /\ leave'[req'[x].id] = leave[req'[x].id]
      BY <1>0, <2>3, <2>4, <3>1, <3>2, RequestCases DEF DecisionOps, Is
    <3>7. CancelAlone'
      BY <3>1, <3>6 DEF MarkInv, CancelAlone, Is, DecisionOps
    <3>8. ApproveHolds'
      BY <2>1, <3>1, <3>6 DEF MarkInv, ApproveHolds, Is
    <3>9. PresentHasPunch' /\ Marked'
      BY <2>1, <3>2 DEF MarkInv, PresentHasPunch, Marked
    <3> QED  BY <1>0, <3>4, <3>5, <3>7, <3>8, <3>9 DEF MarkInv
  <2>7. CASE Claimed(i) /\ req[s].status = "APPROVED"
    BY <1>5, <2>5, <2>7 DEF ReviewClaims
  <2>8. CASE ~(Claimed(i) /\ req[s].status = "APPROVED")
    <3>1. Done(s) /\ leave' = IF Claimed(i) THEN [leave EXCEPT ![i].status = "REJECTED"] ELSE leave
      BY <1>5, <2>8 DEF ReviewClaims
    <3> QED  BY <2>6, <3>1
  <2> QED  BY <2>7, <2>8
<1>6. ASSUME NEW s \in Slots, ApproveCommits(s) PROVE MarkInv'
  <2> DEFINE i == req[s].id
  <2>1. Is(s, "approve") /\ Done(s)
    BY <1>6 DEF ApproveCommits, InFlight, Is
  <2>2. i \in Ids /\ leave[i] # None
    BY <1>0, <2>1, RequestCases DEF DecidedExists, DecisionOps, Is
  <2>3. /\ leave[i].status = "PENDING"
        /\ \A x \in Slots : x # s /\ Is(x, "approve") => req[x].id # i
        /\ \A d \in Days : d \in classifyRangeDays(leave[i].first, leave[i].last) =>
               d \in req[s].free \/ day[d].checkIn
    BY <2>1 DEF MarkInv, ApproveHolds
  <2>4. \A x \in Slots : Is(x, "cancel") => x # s /\ req[x].id # i
    BY <2>1 DEF MarkInv, CancelAlone, Is, DecisionOps
  <2>5. leave' = [leave EXCEPT ![i].status = "APPROVED"]
    BY <1>6 DEF ApproveCommits
  <2>6. /\ leave'[i] # None /\ leave'[i].first = leave[i].first /\ leave'[i].last = leave[i].last
        /\ \A j \in Ids : j # i => leave'[j] = leave[j]
    BY <1>0, <2>2, <2>5, StatusTyped DEF BLOCKING_STATUSES
  <2>7. \A d \in Days : /\ day'[d] = IF d \in req[s].free THEN [day[d] EXCEPT !.status = "ON_LEAVE"] ELSE day[d]
    BY <1>6 DEF ApproveCommits
  <2>8. \A d \in Days : /\ day'[d].checkIn = day[d].checkIn
                        /\ day'[d].status = IF d \in req[s].free THEN "ON_LEAVE" ELSE day[d].status
    <3>1. ASSUME NEW d \in Days
          PROVE  /\ [day[d] EXCEPT !.status = "ON_LEAVE"].checkIn = day[d].checkIn
                 /\ [day[d] EXCEPT !.status = "ON_LEAVE"].status = "ON_LEAVE"
      <4>1. day[d] \in DayRows
        BY <1>0
      <4> QED  BY <4>1 DEF DayRows
    <3> QED  BY <2>7, <3>1
  <2>9. \A x \in Slots : req'[x] # None => x # s /\ req'[x] = req[x]
    BY <1>0, <2>1, DoneSlot
  <2> HIDE DEF i
  <2>10. \A j \in Ids : Blocking(j)' => /\ Blocking(j) /\ leave'[j].first = leave[j].first
                                        /\ leave'[j].last = leave[j].last
    BY <2>2, <2>3, <2>6 DEF Blocking, BLOCKING_STATUSES
  <2>11. NoOverlap'
    BY <2>10 DEF MarkInv, NoOverlap, Overlap
  <2>12. CreateClear'
    BY <2>9, <2>10 DEF MarkInv, CreateClear, Is, Overlap
  <2>13. \A x \in Slots : req'[x] # None /\ req'[x].op \in {"approve", "cancel"} =>
             req'[x].id \in Ids /\ leave'[req'[x].id] = leave[req'[x].id]
    BY <1>0, <2>3, <2>4, <2>6, <2>9, RequestCases DEF DecisionOps, Is
  <2>14. CancelAlone'
    BY <2>9, <2>13 DEF MarkInv, CancelAlone, Is, DecisionOps
  <2>15. ApproveHolds'
    BY <2>8, <2>9, <2>13 DEF MarkInv, ApproveHolds, Is
  <2>16. PresentHasPunch'
    BY <2>8 DEF MarkInv, PresentHasPunch
  <2>17. Marked'
    <3>1. ASSUME NEW j \in Ids, leave'[j] # None, leave'[j].status = "APPROVED",
                 NEW d \in Days, d \in classifyRangeDays(leave'[j].first, leave'[j].last)
          PROVE  day'[d].status = "ON_LEAVE" \/ day'[d].checkIn
      <4>1. CASE j = i
        BY <2>3, <2>6, <2>8, <3>1, <4>1
      <4>2. CASE j # i
        BY <2>6, <2>8, <3>1, <4>2 DEF MarkInv, Marked
      <4> QED  BY <4>1, <4>2
    <3> QED  BY <3>1 DEF Marked
  <2> QED  BY <1>0, <2>11, <2>12, <2>14, <2>15, <2>16, <2>17 DEF MarkInv
<1>7. ASSUME NEW s \in Slots, NEW i \in Ids, NEW isAdmin \in BOOLEAN, CancelChecks(s, i, isAdmin)
      PROVE  MarkInv'
  <2> DEFINE r == [op |-> "cancel", id |-> i, was |-> leave[i].status]
  <2>1. leave[i] # None /\ leave[i].status \in BLOCKING_STATUSES
    BY <1>7 DEF CancelChecks, With, Made
  <2>2. r \in Requests /\ r.id = i /\ r.op = "cancel" /\ r.was = leave[i].status
    BY <2>1 DEF Requests
  <2>3. Waits(s, r) /\ UNCHANGED <<leave, day>> /\ ~Deciding(i)
    BY <1>7 DEF CancelChecks
  <2>4. \A x \in Slots : req[x] # None /\ req[x].op \in DecisionOps => req[x].id # i
    BY <2>3 DEF Deciding, InFlight, DecisionOps
  <2> HIDE DEF r
  <2> QED  BY <1>0, <2>2, <2>3, <2>4, MarkWaits
<1>8. ASSUME NEW s \in Slots, CancelCommits(s) PROVE MarkInv'
  <2> DEFINE i == req[s].id
  <2>1. Is(s, "cancel") /\ Done(s)
    BY <1>8 DEF CancelCommits, InFlight, Is
  <2>2. i \in Ids /\ leave[i] # None
    BY <1>0, <2>1, RequestCases DEF DecidedExists, DecisionOps, Is
  <2>3. /\ leave[i].status = req[s].was
        /\ \A x \in Slots : x # s /\ req[x] # None /\ req[x].op \in DecisionOps => req[x].id # i
    BY <2>1 DEF MarkInv, CancelAlone
  <2>4. leave' = [leave EXCEPT ![i].status = "REJECTED"]
    BY <1>8 DEF CancelCommits
  <2>5. leave'[i] # None /\ leave'[i].status = "REJECTED" /\ \A j \in Ids : j # i => leave'[j] = leave[j]
    BY <1>0, <2>2, <2>4, StatusTyped
  <2>6. \A x \in Slots : req'[x] # None => x # s /\ req'[x] = req[x]
    BY <1>0, <2>1, DoneSlot
  <2>7. \/ UNCHANGED day
        \/ leave[i].status = "APPROVED" /\ Undone(leave[i])
    BY <1>8, <2>3 DEF CancelCommits
  <2>8. \A d \in Days : \/ day'[d] = day[d]
                        \/ /\ leave[i].status = "APPROVED"
                           /\ d \in leave[i].first .. leave[i].last /\ ~day[d].checkIn
                           /\ day'[d] = [checkIn |-> FALSE, status |-> "NONE"]
    BY <2>7 DEF Undone, Cleared
  <2> HIDE DEF i
  <2>9. \A d \in Days : day[d].checkIn => day'[d].checkIn
    BY <2>8
  <2>10. \A j \in Ids : Blocking(j)' => j # i /\ Blocking(j) /\ leave'[j] = leave[j]
    BY <2>5 DEF Blocking, BLOCKING_STATUSES
  <2>11. NoOverlap'
    BY <2>10 DEF MarkInv, NoOverlap
  <2>12. CreateClear'
    BY <2>6, <2>10 DEF MarkInv, CreateClear, Is
  <2>13. \A x \in Slots : req'[x] # None /\ req'[x].op \in DecisionOps =>
             req'[x].id \in Ids /\ leave'[req'[x].id] = leave[req'[x].id]
    BY <1>0, <2>3, <2>5, <2>6, RequestCases
  <2>14. CancelAlone'
    BY <2>6, <2>13 DEF MarkInv, CancelAlone, Is, DecisionOps
  <2>15. ApproveHolds'
    BY <2>6, <2>9, <2>13 DEF MarkInv, ApproveHolds, Is, DecisionOps
  <2>16. PresentHasPunch'
    BY <2>8 DEF MarkInv, PresentHasPunch
  <2>17. Marked'
    <3>1. ASSUME NEW j \in Ids, leave'[j] # None, leave'[j].status = "APPROVED",
                 NEW d \in Days, d \in classifyRangeDays(leave'[j].first, leave'[j].last)
          PROVE  day'[d].status = "ON_LEAVE" \/ day'[d].checkIn
      <4>1. j # i /\ leave'[j] = leave[j] /\ Blocking(j)
        BY <2>5, <3>1 DEF Blocking, BLOCKING_STATUSES
      <4>2. day[d].status = "ON_LEAVE" \/ day[d].checkIn
        BY <3>1, <4>1 DEF MarkInv, Marked
      <4>3. CASE day'[d] = day[d]
        BY <4>2, <4>3
      <4>4. CASE leave[i].status = "APPROVED" /\ d \in leave[i].first .. leave[i].last
        <5>1. Blocking(i) /\ ~Overlap(leave[i], leave[j])
          BY <2>2, <4>1, <4>4 DEF MarkInv, NoOverlap, Blocking, BLOCKING_STATUSES
        <5>2. leave[i] \in LeaveRows /\ leave[j] \in LeaveRows
          BY <1>0, <2>2, <4>1 DEF Blocking
        <5>3. leave[i].first \in Int /\ leave[i].last \in Int /\ leave[j].first \in Int /\ leave[j].last \in Int
          BY <5>2 DEF LeaveRows, Days
        <5>4. d \in leave[j].first .. leave[j].last
          BY <3>1, <4>1 DEF classifyRangeDays
        <5> QED  BY <4>4, <5>1, <5>3, <5>4 DEF Overlap
      <4> QED  BY <2>8, <4>3, <4>4
    <3> QED  BY <3>1 DEF Marked
  <2> QED  BY <1>0, <2>11, <2>12, <2>14, <2>15, <2>16, <2>17 DEF MarkInv
<1>9. ASSUME NEW s \in Slots, CarryReads(s) PROVE MarkInv'
  <2> DEFINE r == [op |-> "carry", allocated |-> [t \in Paid |-> NextYear(t)]]
  <2>1. req' = [req EXCEPT ![s] = r] /\ req[s] = None /\ UNCHANGED <<leave, day>>
    BY <1>9 DEF CarryReads, Waits
  <2>2. r.op = "carry"
    OBVIOUS
  <2> HIDE DEF r
  <2>3. req'[s].op = "carry" /\ \A x \in Slots : x # s => req'[x] = req[x]
    BY <1>0, <2>1, <2>2
  <2>4. CreateClear' /\ CancelAlone' /\ ApproveHolds'
    BY <2>1, <2>3 DEF MarkInv, CreateClear, CancelAlone, ApproveHolds, Blocking, Is, DecisionOps
  <2> QED  BY <1>0, <2>1, <2>4 DEF MarkInv, NoOverlap, PresentHasPunch, Marked, Blocking
<1>10. ASSUME NEW s \in Slots, CarryCommits(s) PROVE MarkInv'
  <2>1. Done(s) /\ UNCHANGED <<leave, day>>
    BY <1>10 DEF CarryCommits
  <2>2. \A x \in Slots : req'[x] # None => x # s /\ req'[x] = req[x]
    BY <1>0, <2>1, DoneSlot
  <2> QED
    BY <1>0, <2>1, <2>2
    DEF MarkInv, NoOverlap, CreateClear, CancelAlone, ApproveHolds, PresentHasPunch, Marked, Blocking, Is
<1>11. ASSUME NEW s \in Slots, NEW onBehalf \in BOOLEAN, PunchChecks(s, onBehalf) PROVE MarkInv'
  <2> DEFINE r == [op |-> "punch", date |-> today]
  <2>1. r \in Requests /\ r.op = "punch"
    BY <1>0 DEF Requests, TypeOK
  <2>2. Waits(s, r) /\ UNCHANGED <<leave, day>>
    BY <1>11 DEF PunchChecks
  <2> HIDE DEF r
  <2> QED  BY <1>0, <2>1, <2>2, MarkWaits
<1>12. ASSUME NEW s \in Slots, PunchCommits(s) PROVE MarkInv'
  <2>1. Done(s) /\ UNCHANGED leave /\ day' = [day EXCEPT ![req[s].date] = [checkIn |-> TRUE, status |-> "PRESENT"]]
    BY <1>12 DEF PunchCommits
  <2>2. \A x \in Slots : req'[x] # None => x # s /\ req'[x] = req[x]
    BY <1>0, <2>1, DoneSlot
  <2>3. \A d \in Days : day'[d].checkIn \/ day'[d] = day[d]
    BY <1>0, <2>1
  <2>4. NoOverlap' /\ CreateClear' /\ CancelAlone'
    BY <2>1, <2>2 DEF MarkInv, NoOverlap, CreateClear, CancelAlone, Blocking, Is
  <2>5. ApproveHolds'
    BY <2>1, <2>2, <2>3 DEF MarkInv, ApproveHolds, Is
  <2>6. PresentHasPunch' /\ Marked'
    BY <2>1, <2>3 DEF MarkInv, PresentHasPunch, Marked
  <2> QED  BY <1>0, <2>4, <2>5, <2>6 DEF MarkInv
<1>13. CASE \/ DayPasses \/ UNCHANGED vars
            \/ \E y \in Years : getLeaveBalances(y)
  BY <1>1, <1>13 DEF DayPasses, getLeaveBalances, vars
<1> QED
  BY <1>2, <1>3, <1>4, <1>5, <1>6, <1>7, <1>8, <1>9, <1>10, <1>11, <1>12, <1>13 DEF Next

LEMMA MarkInit ==
  ASSUME Init PROVE MarkInv
<1>1. /\ \A i \in Ids : leave[i] = None
      /\ \A s \in Slots : req[s] = None
      /\ \A d \in Days : day[d].status = "NONE"
  BY DEF Init
<1> QED
  BY <1>1, InvInit
  DEF MarkInv, NoOverlap, CreateClear, CancelAlone, ApproveHolds, PresentHasPunch, Marked, Blocking, Is

(* Unless two creations overlap, or a cancellation and another decision of    *)
(* one request, every working day of an approved leave stays blocked or      *)
(* worked, whatever is cancelled around it and whenever punches land.        *)
THEOREM LeaveDaysMarked ==
  ASSUME Races = {} PROVE Spec => []LeaveIsMarked
<1>1. Init => MarkInv
  BY MarkInit
<1>2. MarkInv /\ [Next]_vars => MarkInv'
  BY MarkStep
<1>3. MarkInv => LeaveIsMarked
  BY MarkedEnough
<1> QED  BY <1>1, <1>2, <1>3, PTL DEF Spec

(* No approval, cancellation or carry-forward erases a recorded punch, with   *)
(* every race of the service.                                               *)
THEOREM PunchesAreKept == Spec => PunchesSurvive
<1>1. TypeInv /\ [Next]_vars => \A d \in Days : day[d].checkIn => day'[d].checkIn
  <2> SUFFICES ASSUME TypeInv, [Next]_vars, NEW d \in Days, day[d].checkIn
               PROVE  day'[d].checkIn
    OBVIOUS
  <2>1. day \in [Days -> DayRows] /\ TypeOK
    BY DEF TypeInv, TypeOK, DayRows
  <2>2. ASSUME NEW s \in Slots, ApproveCommits(s) PROVE day'[d].checkIn
    <3>1. day'[d] = day[d] \/ day'[d] = [day[d] EXCEPT !.status = "ON_LEAVE"]
      BY <2>2 DEF ApproveCommits
    <3>2. day[d] \in DayRows
      BY <2>1
    <3>3. [day[d] EXCEPT !.status = "ON_LEAVE"].checkIn = day[d].checkIn
      BY <3>2 DEF DayRows
    <3> QED  BY <3>1, <3>3
  <2>3. ASSUME NEW s \in Slots, CancelCommits(s) PROVE day'[d].checkIn
    BY <2>3 DEF CancelCommits, Undone, Cleared
  <2>4. ASSUME NEW s \in Slots, PunchCommits(s) PROVE day'[d].checkIn
    BY <2>1, <2>4 DEF PunchCommits
  <2>5. CASE UNCHANGED day
    BY <2>5
  <2>6. ASSUME NEW s \in Slots,
               \/ \E t \in Types, first, last, days \in Days : CreateChecks(s, t, first, last, days)
               \/ CreateCommits(s)
               \/ \E i \in Ids, status \in {"APPROVED", "REJECTED"} : ReviewChecks(s, i, status)
               \/ \E i \in Ids, isAdmin \in BOOLEAN : CancelChecks(s, i, isAdmin)
               \/ CarryReads(s) \/ CarryCommits(s)
               \/ \E onBehalf \in BOOLEAN : PunchChecks(s, onBehalf)
        PROVE  UNCHANGED day
    <3>1. ASSUME NEW t, NEW first, NEW last, NEW days, CreateChecks(s, t, first, last, days)
          PROVE  UNCHANGED day
      BY <3>1 DEF CreateChecks
    <3>2. ASSUME NEW i, NEW status, ReviewChecks(s, i, status) PROVE UNCHANGED day
      BY <3>2 DEF ReviewChecks
    <3>3. ASSUME NEW i, NEW isAdmin, CancelChecks(s, i, isAdmin) PROVE UNCHANGED day
      BY <3>3 DEF CancelChecks
    <3>4. ASSUME NEW onBehalf, PunchChecks(s, onBehalf) PROVE UNCHANGED day
      BY <3>4 DEF PunchChecks
    <3>5. ASSUME CreateCommits(s) \/ CarryReads(s) \/ CarryCommits(s) PROVE UNCHANGED day
      BY <3>5 DEF CreateCommits, CarryReads, CarryCommits
    <3> QED
      BY <2>6, <3>1, <3>2, <3>3, <3>4, <3>5
  <2>7. ASSUME NEW s \in Slots, ReviewClaims(s) PROVE UNCHANGED day
    BY <2>7 DEF ReviewClaims
  <2>8. ASSUME \/ DayPasses \/ UNCHANGED vars
               \/ \E y \in Years : getLeaveBalances(y)
        PROVE  UNCHANGED day
    BY <2>8 DEF DayPasses, getLeaveBalances, vars
  <2> QED  BY <2>2, <2>3, <2>4, <2>5, <2>6, <2>7, <2>8 DEF Next
<1>2. TypeInv /\ [Next]_vars => [\A d \in Days : day[d].checkIn => day'[d].checkIn]_vars
  BY <1>1
<1> QED  BY InvInit, TypeStep, <1>2, PTL DEF Spec, PunchesSurvive

(***************************************************************************)
(* Sums of days, of leaves and of redemptions.                              *)
(***************************************************************************)
DaysIn(f, S) == MapThenSumSet(LAMBDA x : f[x].days, S)

DaysFun(f, S) == [x \in S |-> f[x].days]

LEMMA DaysInSum ==
  ASSUME NEW f, NEW S, IsFiniteSet(S), NEW h, \A x \in S : h[x] = f[x].days
  PROVE  DaysIn(f, S) = SumOf(h, S)
<1> DEFINE Adds(g) == g = [s \in SUBSET S |->
                             IF s = {} THEN 0
                             ELSE LET x == CHOOSE x \in s : TRUE IN f[x].days + g[s \ {x}]]
<1>1. ASSUME NEW g PROVE Adds(g) <=> SumsUp(g, S, h)
  <2>1. ASSUME NEW s \in SUBSET S
        PROVE  (IF s = {} THEN 0 ELSE LET x == CHOOSE x \in s : TRUE IN f[x].days + g[s \ {x}])
             = (IF s = {} THEN 0 ELSE LET x == CHOOSE x \in s : TRUE IN h[x] + g[s \ {x}])
    <3> DEFINE x == CHOOSE x \in s : TRUE
    <3>1. s # {} => h[x] = f[x].days
      OBVIOUS
    <3> HIDE DEF x
    <3>2. (IF s = {} THEN 0 ELSE f[x].days + g[s \ {x}]) = (IF s = {} THEN 0 ELSE h[x] + g[s \ {x}])
      BY <3>1
    <3> QED
      BY <3>2 DEF x
  <2> QED
    BY <2>1 DEF SumsUp
<1>2. \E g : Adds(g)
  <2>1. \E g : SumsUp(g, S, h)
    BY WalkExists
  <2> HIDE DEF Adds
  <2> QED
    BY <1>1, <2>1
<1>3. Adds(CHOOSE g : Adds(g))
  <2> HIDE DEF Adds
  <2> QED
    BY <1>2
<1>4. DaysIn(f, S) = (CHOOSE g : Adds(g))[S]
  BY DEF DaysIn, MapThenSumSet, MapThenFoldSet
<1>5. PICK g : SumsUp(g, S, h) /\ SumOf(h, S) = g[S]
  BY SumWalked
<1> HIDE DEF Adds
<1>6. SumsUp(CHOOSE k : Adds(k), S, h)
  BY <1>1, <1>3
<1> QED
  BY <1>4, <1>5, <1>6, WalksMeet

LEMMA DaysNat ==
  ASSUME NEW f, NEW S, IsFiniteSet(S), \A x \in S : f[x].days \in Nat
  PROVE  DaysIn(f, S) \in Nat
<1> DEFINE h == DaysFun(f, S)
<1>1. \A x \in S : h[x] = f[x].days
  BY DEF DaysFun
<1> HIDE DEF h
<1>2. DaysIn(f, S) = SumOf(h, S) /\ SumOf(h, S) \in Nat
  BY <1>1, DaysInSum, SumNat
<1> QED
  BY <1>2

(* The same rows cost the same days. *)
LEMMA DaysSame ==
  ASSUME NEW f, NEW g, NEW S, IsFiniteSet(S),
         \A x \in S : f[x].days \in Nat /\ g[x].days = f[x].days
  PROVE  DaysIn(g, S) = DaysIn(f, S)
<1> DEFINE h == DaysFun(f, S)
<1>1. \A x \in S : h[x] = f[x].days /\ h[x] = g[x].days
  BY DEF DaysFun
<1> HIDE DEF h
<1> QED
  BY <1>1, DaysInSum

LEMMA DaysNone == \A f : DaysIn(f, {}) = 0
<1> SUFFICES ASSUME NEW f PROVE DaysIn(f, {}) = 0
  OBVIOUS
<1>1. IsFiniteSet({}) /\ \A x \in {} : f[x] = f[x].days
  BY FS_EmptySet
<1>2. DaysIn(f, {}) = SumOf(f, {})
  BY <1>1, DaysInSum
<1> QED
  BY <1>2, SumEmpty

(* A row that joins adds its days. *)
LEMMA DaysJoined ==
  ASSUME NEW f, NEW g, NEW S, NEW U, IsFiniteSet(U), NEW y, y \notin S, U = S \cup {y},
         g[y].days \in Nat, \A x \in S : f[x].days \in Nat /\ g[x].days = f[x].days
  PROVE  DaysIn(g, U) = DaysIn(f, S) + g[y].days
<1> DEFINE h == DaysFun(g, U)
<1>1. /\ \A x \in U : h[x] = g[x].days /\ h[x] \in Nat
      /\ \A x \in S : h[x] = f[x].days
      /\ h[y] = g[y].days
  BY DEF DaysFun
<1>2. IsFiniteSet(S) /\ y \in U /\ S = U \ {y}
  BY FS_Subset
<1> HIDE DEF h
<1>3. DaysIn(g, U) = SumOf(h, U) /\ DaysIn(f, S) = SumOf(h, S)
  BY <1>1, <1>2, DaysInSum
<1>4. SumOf(h, U) = h[y] + SumOf(h, U \ {y})
  BY <1>1, <1>2, SumSplit
<1>5. SumOf(h, S) \in Nat /\ h[y] \in Nat
  BY <1>1, <1>2, SumNat
<1> QED
  BY <1>1, <1>2, <1>3, <1>4, <1>5

(* The days of a redemption, now and after a step. *)
LEMMA RedeemedDays ==
  /\ \A S : T!DaysOf(S) = DaysIn(take, S)
  /\ T!DaysOf(T!Pending)' = DaysIn(take', T!Pending')
  /\ T!DaysOf(booked)' = DaysIn(take', booked')
BY DEF T!DaysOf, T!MapThenSumSet, T!MapThenFoldSet, DaysIn, MapThenSumSet, MapThenFoldSet

-----------------------------------------------------------------------------
(* Who moves: the requests of one kind leave the others alone.                 *)
Only(ops) == /\ DOMAIN desk' = T!Desks
             /\ \A d \in T!Desks : desk'[d] = desk[d] \/ desk'[d].op = "none" \/ desk'[d].op \in ops

Posted == DOMAIN desk = T!Desks

LEMMA BeginsMoves ==
  ASSUME Posted, NEW d \in T!Desks, NEW r, T!Begins(d, r)
  PROVE  /\ desk[d].op = "none" /\ desk'[d] = r /\ DOMAIN desk' = T!Desks
         /\ \A e \in T!Desks : e # d => desk'[e] = desk[e]
         /\ UNCHANGED <<att, ot, alloc, comp, take, booked, shoot, settle, slip, granted>>
BY DEF T!Begins, T!rows, T!NoReq, Posted

LEMMA EndsMoves ==
  ASSUME Posted, NEW d \in T!Desks, NEW op, T!Ends(d, op)
  PROVE  /\ desk[d].op = op /\ desk'[d].op = "none" /\ DOMAIN desk' = T!Desks
         /\ \A e \in T!Desks : e # d => desk'[e] = desk[e]
BY DEF T!Ends, T!NoReq, Posted

LEMMA TwoDesks == T!Desks = {"employee", "reviewer"}
BY DEF T!Desks

AskSteps ==
    \/ \E m \in Units \cup {0} : T!PunchOut(m)
    \/ \E m \in Units : T!PlanReads(m) \/ T!ClaimReads(m) \/ T!EndReads(m)
    \/ T!AskCommits \/ T!StartReads \/ T!StartCommits \/ T!EndCommits \/ T!ReviewCommits
    \/ \E r \in T!Asks, v \in T!Verdicts, m \in Units \cup {0} : T!ReviewReads(r, v, m)
ChoiceSteps ==
    \/ \E m \in Units : T!Credit(m)
    \/ \E l, c \in Units \cup {0} : T!SubmitReads(l, c)
    \/ \E v \in T!Verdicts : T!AllocReads(v)
    \/ T!SubmitCommits \/ T!AllocCommits \/ T!RedemptionCommits
    \/ \E t \in Takes, m \in Units : T!Redeem(t, m)
    \/ \E t \in Takes, v \in T!Verdicts : T!RedemptionReads(t, v)
ShootSteps ==
    \/ T!ShootReads \/ T!CancelReads
    \/ \E v \in T!Verdicts : T!ShootReviewReads(v)
    \/ \E d \in T!Desks : T!ShootCommits(d)
SettleSteps ==
    \/ \E b \in BOOLEAN : T!SettleReads(b)
    \/ \E v \in T!Verdicts : T!SettleReviewReads(v)
    \/ \E k \in {"shoot", "travel"}, v \in T!Verdicts : T!ShootOtReads(k, v)
    \/ T!SettleCommits \/ T!SettleReviewCommits \/ T!ShootOtCommits

LEMMA StepKinds ==
  T!Next => AskSteps \/ ChoiceSteps \/ ShootSteps \/ SettleSteps \/ T!Payroll
BY DEF T!Next, AskSteps, ChoiceSteps, ShootSteps, SettleSteps

AskOps == {"ask", "start", "end", "review"}
ChoiceOps == {"choose", "alloc", "redeem"}
SettleOps == {"settle", "overtime"}

LEMMA AskMoves ==
  ASSUME Posted, AskSteps
  PROVE  Only(AskOps) /\ UNCHANGED <<alloc, comp, take, booked, shoot, settle, slip>>
<1>0. "employee" \in T!Desks /\ "reviewer" \in T!Desks
  BY TwoDesks
<1>1. ASSUME NEW m, T!PunchOut(m) PROVE Only(AskOps) /\ UNCHANGED <<alloc, comp, take, booked, shoot, settle, slip>>
  BY <1>1 DEF T!PunchOut, Only, Posted
<1>2. ASSUME NEW d \in T!Desks, NEW r, T!Begins(d, r), r.op \in AskOps
      PROVE  Only(AskOps) /\ UNCHANGED <<alloc, comp, take, booked, shoot, settle, slip>>
  BY <1>2, BeginsMoves DEF Only
<1>3. ASSUME NEW m, T!PlanReads(m) \/ T!ClaimReads(m) \/ T!EndReads(m)
      PROVE  \E r : T!Begins("employee", r) /\ r.op \in AskOps
  <2>1. ASSUME T!PlanReads(m) PROVE \E r : T!Begins("employee", r) /\ r.op \in AskOps
    BY <2>1 DEF T!PlanReads, AskOps
  <2>2. ASSUME T!ClaimReads(m) PROVE \E r : T!Begins("employee", r) /\ r.op \in AskOps
    BY <2>2 DEF T!ClaimReads, AskOps
  <2>3. ASSUME T!EndReads(m) PROVE \E r : T!Begins("employee", r) /\ r.op \in AskOps
    BY <2>3 DEF T!EndReads, AskOps
  <2> QED
    BY <1>3, <2>1, <2>2, <2>3
<1>4. ASSUME T!StartReads PROVE \E r : T!Begins("employee", r) /\ r.op \in AskOps
  BY <1>4 DEF T!StartReads, AskOps
<1>5. ASSUME NEW r, NEW v, NEW m, T!ReviewReads(r, v, m) PROVE \E x : T!Begins("reviewer", x) /\ x.op \in AskOps
  BY <1>5 DEF T!ReviewReads, AskOps
<1>6. ASSUME NEW d \in T!Desks, NEW op, T!Ends(d, op) PROVE Only(AskOps)
  BY <1>6, EndsMoves DEF Only
<1>7. ASSUME T!AskCommits \/ T!StartCommits \/ T!EndCommits \/ T!ReviewCommits
      PROVE  Only(AskOps) /\ UNCHANGED <<alloc, comp, take, booked, shoot, settle, slip>>
  <2>1. T!Ends("employee", "ask") \/ T!Ends("employee", "start") \/ T!Ends("employee", "end") \/ T!Ends("reviewer", "review")
    BY <1>7 DEF T!AskCommits, T!StartCommits, T!EndCommits, T!ReviewCommits
  <2> QED
    BY <1>0, <1>6, <1>7, <2>1 DEF T!AskCommits, T!StartCommits, T!EndCommits, T!ReviewCommits
<1> QED
  BY <1>0, <1>1, <1>2, <1>3, <1>4, <1>5, <1>7 DEF AskSteps

LEMMA ChoiceMoves ==
  ASSUME Posted, ChoiceSteps
  PROVE  Only(ChoiceOps) /\ UNCHANGED <<att, ot, shoot, settle, slip, granted>>
<1>0. "employee" \in T!Desks /\ "reviewer" \in T!Desks
  BY TwoDesks
<1>1. ASSUME NEW t, NEW m, T!Credit(m) \/ T!Redeem(t, m)
      PROVE  Only(ChoiceOps) /\ UNCHANGED <<att, ot, shoot, settle, slip, granted>>
  BY <1>1 DEF T!Credit, T!Redeem, Only, Posted
<1>2. ASSUME NEW d \in T!Desks, NEW r, T!Begins(d, r), r.op \in ChoiceOps
      PROVE  Only(ChoiceOps) /\ UNCHANGED <<att, ot, shoot, settle, slip, granted>>
  BY <1>2, BeginsMoves DEF Only
<1>3. ASSUME NEW l, NEW c, T!SubmitReads(l, c) PROVE \E r : T!Begins("employee", r) /\ r.op \in ChoiceOps
  BY <1>3 DEF T!SubmitReads, ChoiceOps
<1>4. ASSUME NEW v, T!AllocReads(v) PROVE \E r : T!Begins("reviewer", r) /\ r.op \in ChoiceOps
  BY <1>4 DEF T!AllocReads, ChoiceOps
<1>5. ASSUME NEW t, NEW v, T!RedemptionReads(t, v) PROVE \E r : T!Begins("reviewer", r) /\ r.op \in ChoiceOps
  BY <1>5 DEF T!RedemptionReads, ChoiceOps
<1>6. ASSUME NEW d \in T!Desks, NEW op, T!Ends(d, op) PROVE Only(ChoiceOps)
  BY <1>6, EndsMoves DEF Only
<1>7. ASSUME T!SubmitCommits \/ T!AllocCommits \/ T!RedemptionCommits
      PROVE  Only(ChoiceOps) /\ UNCHANGED <<att, ot, shoot, settle, slip, granted>>
  <2>1. T!Ends("employee", "choose") \/ T!Ends("reviewer", "alloc") \/ T!Ends("reviewer", "redeem")
    BY <1>7 DEF T!SubmitCommits, T!AllocCommits, T!RedemptionCommits
  <2> QED
    BY <1>0, <1>6, <1>7, <2>1 DEF T!SubmitCommits, T!AllocCommits, T!RedemptionCommits
<1> QED
  BY <1>0, <1>1, <1>2, <1>3, <1>4, <1>5, <1>7 DEF ChoiceSteps

LEMMA ShootMoves ==
  ASSUME Posted, ShootSteps
  PROVE  Only({"shoot"}) /\ UNCHANGED <<att, ot, alloc, comp, take, booked, settle, slip, granted>>
<1>0. "employee" \in T!Desks /\ "reviewer" \in T!Desks
  BY TwoDesks
<1>1. ASSUME NEW d \in T!Desks, NEW st, NEW l, T!Begins(d, T!ToShoot(st, l))
      PROVE  Only({"shoot"}) /\ UNCHANGED <<att, ot, alloc, comp, take, booked, settle, slip, granted>>
  <2>1. T!ToShoot(st, l).op = "shoot"
    BY DEF T!ToShoot
  <2> QED
    BY <1>1, <2>1, BeginsMoves DEF Only
<1>2. ASSUME T!ShootReads \/ T!CancelReads PROVE \E st, l : T!Begins("employee", T!ToShoot(st, l))
  <2>1. ASSUME T!ShootReads PROVE T!Begins("employee", T!ToShoot("PENDING", FALSE))
    BY <2>1 DEF T!ShootReads
  <2>2. ASSUME T!CancelReads
        PROVE  T!Begins("employee", T!ToShoot("CANCELLED", None)) \/ T!Begins("employee", T!ToShoot(None, TRUE))
    BY <2>2 DEF T!CancelReads
  <2> QED
    BY <1>2, <2>1, <2>2
<1>3. ASSUME NEW v, T!ShootReviewReads(v) PROVE \E st, l : T!Begins("reviewer", T!ToShoot(st, l))
  BY <1>3, Zenon DEF T!ShootReviewReads
<1>4. ASSUME NEW d \in T!Desks, T!ShootCommits(d)
      PROVE  Only({"shoot"}) /\ UNCHANGED <<att, ot, alloc, comp, take, booked, settle, slip, granted>>
  <2>1. T!Ends(d, "shoot")
    BY <1>4 DEF T!ShootCommits
  <2> QED
    BY <1>4, <2>1, EndsMoves DEF Only, T!ShootCommits
<1> QED
  BY <1>0, <1>1, <1>2, <1>3, <1>4 DEF ShootSteps

LEMMA SettleMoves ==
  ASSUME Posted, SettleSteps
  PROVE  Only(SettleOps) /\ UNCHANGED <<att, ot, alloc, comp, take, booked, shoot, slip, granted>>
<1>0. "employee" \in T!Desks /\ "reviewer" \in T!Desks
  BY TwoDesks
<1>1. ASSUME NEW d \in T!Desks, NEW r, T!Begins(d, r), r.op \in SettleOps
      PROVE  Only(SettleOps) /\ UNCHANGED <<att, ot, alloc, comp, take, booked, shoot, slip, granted>>
  BY <1>1, BeginsMoves DEF Only
<1>2. ASSUME NEW b, T!SettleReads(b) PROVE \E r : T!Begins("employee", r) /\ r.op \in SettleOps
  BY <1>2 DEF T!SettleReads, SettleOps
<1>3. ASSUME NEW v, T!SettleReviewReads(v) PROVE \E r : T!Begins("reviewer", r) /\ r.op \in SettleOps
  BY <1>3 DEF T!SettleReviewReads, SettleOps
<1>4. ASSUME NEW k, NEW v, T!ShootOtReads(k, v) PROVE \E r : T!Begins("reviewer", r) /\ r.op \in SettleOps
  BY <1>4 DEF T!ShootOtReads, SettleOps
<1>5. ASSUME NEW d \in T!Desks, NEW op, T!Ends(d, op) PROVE Only(SettleOps)
  BY <1>5, EndsMoves DEF Only
<1>6. ASSUME T!SettleCommits \/ T!SettleReviewCommits \/ T!ShootOtCommits
      PROVE  Only(SettleOps) /\ UNCHANGED <<att, ot, alloc, comp, take, booked, shoot, slip, granted>>
  <2>1. T!Ends("employee", "settle") \/ T!Ends("reviewer", "settle") \/ T!Ends("reviewer", "overtime")
    BY <1>6 DEF T!SettleCommits, T!SettleReviewCommits, T!ShootOtCommits
  <2> QED
    BY <1>0, <1>5, <1>6, <2>1 DEF T!SettleCommits, T!SettleReviewCommits, T!ShootOtCommits
<1> QED
  BY <1>0, <1>1, <1>2, <1>3, <1>4, <1>6 DEF SettleSteps

-----------------------------------------------------------------------------
(***************************************************************************)
(* Why a settlement is payroll's exactly when it was reviewed: each review    *)
(* writes from the row it read, and while it is in flight nobody else writes  *)
(* that row but payroll, which only takes what is ready.                     *)
(***************************************************************************)
SettleInv ==
  /\ Posted
  /\ settle \in T!Settlement \cup {None} /\ ReadyWhenReviewed
  /\ desk["employee"].op = "settle" =>
         /\ settle = None \/ settle.status = "REJECTED"
         /\ desk["employee"].new \in T!Settlement
         /\ desk["employee"].new.status = "PENDING" /\ desk["employee"].new.pay = "NOT_READY"
  /\ desk["reviewer"].op \in SettleOps =>
         /\ settle # None /\ settle.status \in {"PENDING", "APPROVED"}
         /\ desk["reviewer"].row \in T!Settlement
         /\ desk["reviewer"].row.status = settle.status
         /\ desk["reviewer"].row.shoot = settle.shoot /\ desk["reviewer"].row.travel = settle.travel
         /\ (desk["reviewer"].row.pay # "NOT_READY") = T!Ready(settle.status, settle.shoot, settle.travel)
         /\ desk["reviewer"].verdict \in T!Verdicts
         /\ desk["reviewer"].op = "overtime" => desk["reviewer"].kind \in {"shoot", "travel"}

LEMMA NoRow == None \notin T!OvertimeRequest /\ None \notin T!Redemption /\ None \notin T!Settlement
BY TimeOffAssumption DEF T!NoRowAssumption

LEMMA SettlementTyped ==
  ASSUME NEW r \in T!Settlement
  PROVE  /\ r.status \in {"PENDING", "APPROVED", "REJECTED"}
         /\ r.shoot \in {"PENDING", "APPROVED", "REJECTED"} /\ r.travel \in {"PENDING", "APPROVED", "REJECTED"}
         /\ r.pay \in {"NOT_READY", "READY", "PROCESSED"}
BY DEF T!Settlement, T!Verdicts

LEMMA SettleQuiet ==
  ASSUME SettleInv, NEW ops, Only(ops), ops \cap SettleOps = {}, "none" \notin SettleOps, UNCHANGED settle
  PROVE  SettleInv'
<1>1. \A d \in T!Desks : desk'[d].op \in SettleOps => desk'[d] = desk[d]
  BY DEF Only
<1>2. Posted' /\ "settle" \in SettleOps
  BY DEF Only, Posted, SettleOps
<1> QED
  BY <1>1, <1>2, TwoDesks DEF SettleInv, ReadyWhenReviewed, T!ReadyWhenReviewed, T!Ready

LEMMA SettleStepKeeps ==
  ASSUME SettleInv, SettleSteps PROVE SettleInv'
<1>0. "employee" \in T!Desks /\ "reviewer" \in T!Desks /\ "employee" # "reviewer" /\ Posted
      /\ T!Desks = {"employee", "reviewer"}
  BY TwoDesks DEF SettleInv
<1>1. ASSUME NEW b \in BOOLEAN, T!SettleReads(b) PROVE SettleInv'
  <2> DEFINE new == [status |-> "PENDING", shoot |-> IF b THEN "PENDING" ELSE "APPROVED",
                     travel |-> "PENDING", pay |-> "NOT_READY"]
             r == [op |-> "settle", new |-> new]
  <2>1. T!Begins("employee", r) /\ T!Status(settle) \in {"none", "REJECTED"}
    BY <1>1 DEF T!SettleReads
  <2>2. new \in T!Settlement /\ new.status = "PENDING" /\ new.pay = "NOT_READY"
    BY DEF T!Settlement, T!Verdicts
  <2>3. settle = None \/ settle.status = "REJECTED"
    BY <2>1, SettlementTyped DEF T!Status, SettleInv
  <2> HIDE DEF new
  <2>4. r.op = "settle" /\ r.new = new
    OBVIOUS
  <2> HIDE DEF r
  <2>5. desk'["employee"] = r /\ desk'["reviewer"] = desk["reviewer"] /\ Posted' /\ UNCHANGED settle
    BY <1>0, <2>1, BeginsMoves DEF Posted
  <2> QED
    BY <2>2, <2>3, <2>4, <2>5 DEF SettleInv, ReadyWhenReviewed, T!ReadyWhenReviewed, T!Ready
<1>2. ASSUME T!SettleCommits PROVE SettleInv'
  <2>1. T!Ends("employee", "settle") /\ settle' = desk["employee"].new
    BY <1>2 DEF T!SettleCommits
  <2>2. /\ desk["employee"].op = "settle" /\ desk'["employee"].op = "none"
        /\ desk'["reviewer"] = desk["reviewer"] /\ Posted'
    BY <1>0, <2>1, EndsMoves DEF Posted
  <2>3. settle' \in T!Settlement /\ settle'.status = "PENDING" /\ settle'.pay = "NOT_READY"
        /\ (settle = None \/ settle.status = "REJECTED")
    BY <2>1, <2>2 DEF SettleInv
  <2>4. ReadyWhenReviewed'
    BY <2>3 DEF ReadyWhenReviewed, T!ReadyWhenReviewed, T!Ready
  <2>5. desk["reviewer"].op \notin SettleOps
    BY <2>3 DEF SettleInv
  <2> QED
    BY <2>2, <2>3, <2>4, <2>5 DEF SettleInv
<1>3. ASSUME NEW r, T!Begins("reviewer", r), r.row = settle, r.verdict \in T!Verdicts,
             settle # None, settle.status \in {"PENDING", "APPROVED"},
             r.op = "overtime" => r.kind \in {"shoot", "travel"}
      PROVE  SettleInv'
  <2>1. desk'["reviewer"] = r /\ desk'["employee"] = desk["employee"] /\ Posted' /\ UNCHANGED settle
    BY <1>0, <1>3, BeginsMoves DEF Posted
  <2>2. settle \in T!Settlement /\ (settle.pay # "NOT_READY") = T!Ready(settle.status, settle.shoot, settle.travel)
    BY <1>3 DEF SettleInv, ReadyWhenReviewed, T!ReadyWhenReviewed
  <2> QED
    BY <1>3, <2>1, <2>2 DEF SettleInv, ReadyWhenReviewed, T!ReadyWhenReviewed, T!Ready
<1>4. ASSUME NEW v \in T!Verdicts, T!SettleReviewReads(v) PROVE SettleInv'
  <2> DEFINE r == [op |-> "settle", row |-> settle, verdict |-> v]
  <2>1. T!Begins("reviewer", r) /\ T!Status(settle) = "PENDING"
    BY <1>4 DEF T!SettleReviewReads
  <2>2. settle # None /\ settle.status = "PENDING"
    BY <2>1 DEF T!Status
  <2>3. r.op = "settle" /\ r.row = settle /\ r.verdict = v
    OBVIOUS
  <2> HIDE DEF r
  <2> QED
    BY <1>3, <2>1, <2>2, <2>3
<1>5. ASSUME NEW k \in {"shoot", "travel"}, NEW v \in T!Verdicts, T!ShootOtReads(k, v) PROVE SettleInv'
  <2> DEFINE r == [op |-> "overtime", kind |-> k, row |-> settle, verdict |-> v]
  <2>1. T!Begins("reviewer", r) /\ T!Status(settle) \in {"PENDING", "APPROVED"}
    BY <1>5 DEF T!ShootOtReads
  <2>2. settle # None /\ settle.status \in {"PENDING", "APPROVED"}
    BY <2>1 DEF T!Status
  <2>3. r.kind = k /\ r.row = settle /\ r.verdict = v
    OBVIOUS
  <2> HIDE DEF r
  <2> QED
    BY <1>3, <2>1, <2>2, <2>3
<1>6. ASSUME T!Ends("reviewer", "settle") \/ T!Ends("reviewer", "overtime"), settle' \in T!Settlement, ReadyWhenReviewed'
      PROVE  SettleInv'
  <2>1. /\ desk["reviewer"].op \in SettleOps /\ desk'["reviewer"].op = "none"
        /\ desk'["employee"] = desk["employee"] /\ Posted'
    BY <1>0, <1>6, EndsMoves DEF Posted, SettleOps
  <2>2. desk["employee"].op # "settle"
    BY <2>1 DEF SettleInv
  <2>3. "none" \notin SettleOps
    BY DEF SettleOps
  <2> QED
    BY <1>6, <2>1, <2>2, <2>3 DEF SettleInv
<1>7. ASSUME T!SettleReviewCommits PROVE SettleInv'
  <2> DEFINE q == desk["reviewer"]
             p == T!PayOf(q.verdict, q.row.shoot, q.row.travel)
  <2>1. T!Ends("reviewer", "settle") /\ settle' = [settle EXCEPT !.status = q.verdict, !.pay = p]
    BY <1>7 DEF T!SettleReviewCommits
  <2>2. q.op = "settle"
    BY <2>1 DEF T!Ends
  <2>3. /\ settle \in T!Settlement /\ q.verdict \in {"APPROVED", "REJECTED"}
        /\ q.row.shoot = settle.shoot /\ q.row.travel = settle.travel
    BY <2>2 DEF SettleInv, SettleOps, T!Verdicts
  <2>4. p \in {"NOT_READY", "READY", "PROCESSED"}
        /\ (p # "NOT_READY") = T!Ready(q.verdict, settle.shoot, settle.travel)
    BY <2>3 DEF T!PayOf, T!Ready
  <2> HIDE DEF p, q
  <2>5. /\ settle' \in T!Settlement /\ settle'.status = q.verdict /\ settle'.pay = p
        /\ settle'.shoot = settle.shoot /\ settle'.travel = settle.travel
    BY <2>1, <2>3, <2>4 DEF T!Settlement, T!Verdicts
  <2>6. ReadyWhenReviewed'
    BY <2>4, <2>5 DEF ReadyWhenReviewed, T!ReadyWhenReviewed, T!Ready
  <2> QED
    BY <1>6, <2>1, <2>5, <2>6
<1>8. ASSUME T!ShootOtCommits PROVE SettleInv'
  <2> DEFINE q == desk["reviewer"]
             now == [q.row EXCEPT ![q.kind] = q.verdict]
             p == T!ShootOtPay(now)
  <2>1. T!Ends("reviewer", "overtime") /\ settle' = [settle EXCEPT ![q.kind] = q.verdict, !.pay = p]
    BY <1>8 DEF T!ShootOtCommits
  <2>2. q.op = "overtime"
    BY <2>1 DEF T!Ends
  <2>3. /\ settle \in T!Settlement /\ q.verdict \in {"APPROVED", "REJECTED"} /\ q.kind \in {"shoot", "travel"}
        /\ settle.status \in {"PENDING", "APPROVED"}
        /\ q.row \in T!Settlement /\ q.row.status = settle.status
        /\ q.row.shoot = settle.shoot /\ q.row.travel = settle.travel
        /\ (q.row.pay # "NOT_READY") = T!Ready(settle.status, settle.shoot, settle.travel)
    BY <2>2 DEF SettleInv, SettleOps, T!Verdicts
  <2> HIDE DEF q
  <2>4. /\ now.status = settle.status /\ now.pay = q.row.pay
        /\ now.shoot = IF q.kind = "shoot" THEN q.verdict ELSE settle.shoot
        /\ now.travel = IF q.kind = "travel" THEN q.verdict ELSE settle.travel
    BY <2>3 DEF T!Settlement
  <2>5. settle.status = "PENDING" => q.row.pay = "NOT_READY"
    BY <2>3 DEF T!Ready
  <2>6. q.row.pay \in {"NOT_READY", "READY", "PROCESSED"}
    BY <2>3, SettlementTyped
  <2> HIDE DEF now
  <2>7. p \in {"NOT_READY", "READY", "PROCESSED"}
        /\ (p # "NOT_READY") = T!Ready(now.status, now.shoot, now.travel)
    BY <2>3, <2>4, <2>5, <2>6 DEF T!ShootOtPay, T!PayOf, T!Ready
  <2> HIDE DEF p
  <2>8. /\ settle' \in T!Settlement /\ settle'.status = settle.status /\ settle'.pay = p
        /\ settle'.shoot = IF q.kind = "shoot" THEN q.verdict ELSE settle.shoot
        /\ settle'.travel = IF q.kind = "travel" THEN q.verdict ELSE settle.travel
    <3>1. CASE q.kind = "shoot"
      BY <2>1, <2>3, <2>7, <3>1 DEF T!Settlement, T!Verdicts
    <3>2. CASE q.kind = "travel"
      BY <2>1, <2>3, <2>7, <3>2 DEF T!Settlement, T!Verdicts
    <3> QED
      BY <2>3, <3>1, <3>2
  <2>9. ReadyWhenReviewed'
    BY <2>4, <2>7, <2>8 DEF ReadyWhenReviewed, T!ReadyWhenReviewed, T!Ready
  <2> QED
    BY <1>6, <2>1, <2>8, <2>9
<1> QED
  BY <1>1, <1>2, <1>4, <1>5, <1>7, <1>8 DEF SettleSteps

LEMMA SettlePaid ==
  ASSUME SettleInv, T!Payroll PROVE SettleInv'
<1>1. UNCHANGED desk
  BY DEF T!Payroll
<1>2. CASE UNCHANGED settle
  BY <1>1, <1>2 DEF SettleInv, Posted, ReadyWhenReviewed, T!ReadyWhenReviewed, T!Ready
<1>3. CASE settle # None /\ settle.pay = "READY" /\ settle' = [settle EXCEPT !.pay = "PROCESSED"]
  <2>1. settle \in T!Settlement
    BY <1>3 DEF SettleInv
  <2>2. /\ settle' \in T!Settlement /\ settle'.status = settle.status /\ settle'.pay = "PROCESSED"
        /\ settle'.shoot = settle.shoot /\ settle'.travel = settle.travel
    BY <1>3, <2>1 DEF T!Settlement
  <2>3. settle' # None
    BY <2>2, NoRow
  <2> QED
    BY <1>1, <1>3, <2>2, <2>3 DEF SettleInv, Posted, ReadyWhenReviewed, T!ReadyWhenReviewed, T!Ready
<1> QED
  BY <1>2, <1>3 DEF T!Payroll, T!Status

LEMMA SettleStep ==
  ASSUME SettleInv, T!Next PROVE SettleInv'
<1>0. Posted /\ "none" \notin SettleOps
  BY DEF SettleInv, SettleOps
<1>1. CASE AskSteps
  <2>1. Only(AskOps) /\ UNCHANGED settle /\ AskOps \cap SettleOps = {}
    BY <1>0, <1>1, AskMoves DEF AskOps, SettleOps
  <2> QED
    BY <1>0, <2>1, SettleQuiet
<1>2. CASE ChoiceSteps
  <2>1. Only(ChoiceOps) /\ UNCHANGED settle /\ ChoiceOps \cap SettleOps = {}
    BY <1>0, <1>2, ChoiceMoves DEF ChoiceOps, SettleOps
  <2> QED
    BY <1>0, <2>1, SettleQuiet
<1>3. CASE ShootSteps
  <2>1. Only({"shoot"}) /\ UNCHANGED settle /\ {"shoot"} \cap SettleOps = {}
    BY <1>0, <1>3, ShootMoves DEF SettleOps
  <2> QED
    BY <1>0, <2>1, SettleQuiet
<1> QED
  BY <1>1, <1>2, <1>3, StepKinds, SettleStepKeeps, SettlePaid

(***************************************************************************)
(* Why a balance covers what it promised: a redemption waits for the days it  *)
(* reserved until its one review, which books it if the balance still has     *)
(* them; credits only come in.                                              *)
(***************************************************************************)
Chooses(a) == "comp" \in DOMAIN a /\ a.comp \in Nat

CompInv ==
  /\ Posted
  /\ comp \in T!CompOffBalance /\ take \in [Takes -> T!Redemption \cup {None}]
  /\ alloc # None => Chooses(alloc)
  /\ BalanceCovers
  /\ desk["employee"].op = "choose" => Chooses(desk["employee"].new)
  /\ desk["reviewer"].op = "alloc" => Chooses(alloc) /\ desk["reviewer"].row.comp \in Nat
  /\ desk["reviewer"].op = "redeem" =>
         /\ desk["reviewer"].take \in T!Pending
         /\ desk["reviewer"].days = take[desk["reviewer"].take].days
         /\ desk["reviewer"].verdict \in T!Verdicts

(* The rows of a set of redemptions cost whole days. *)
Costed(f, S) == IsFiniteSet(S) /\ \A t \in S : f[t].days \in Nat

LEMMA UnitsNat == Units \subseteq Nat \ {0} /\ \A m \in Units \cup {0} : m \in Nat
<1>1. Units \subseteq Nat \ {0}
  BY TimeOffAssumption, Zenon DEF T!OvertimeAssumption
<1> QED
  BY <1>1

LEMMA RowsCosted ==
  ASSUME take \in [Takes -> T!Redemption \cup {None}]
  PROVE  /\ T!Rows(take) \subseteq Takes /\ T!Pending \subseteq T!Rows(take)
         /\ \A S \in SUBSET T!Rows(take) : Costed(take, S)
         /\ \A t \in T!Rows(take) : take[t] \in T!Redemption
<1>1. IsFiniteSet(Takes)
  BY TimeOffAssumption DEF T!OvertimeAssumption, T!IsFiniteSet, IsFiniteSet
<1>2. \A t \in T!Rows(take) : t \in Takes /\ take[t] \in T!Redemption
  BY DEF T!Rows
<1>3. \A t \in T!Rows(take) : take[t].days \in Nat
  BY <1>2, UnitsNat DEF T!Redemption
<1>4. \A S \in SUBSET T!Rows(take) : IsFiniteSet(S)
  BY <1>1, <1>2, FS_Subset
<1>5. T!Pending \subseteq T!Rows(take)
  BY DEF T!Pending
<1> QED
  BY <1>2, <1>3, <1>4, <1>5 DEF Costed

(* What the balance holds for, in sums of days. *)
LEMMA BalanceSums ==
  ASSUME CompInv
  PROVE  /\ Costed(take, T!Pending) /\ Costed(take, booked)
         /\ DaysIn(take, T!Pending) \in Nat /\ DaysIn(take, booked) \in Nat
         /\ comp.used + DaysIn(take, T!Pending) <= comp.credited
         /\ comp.used = DaysIn(take, booked)
         /\ booked = {t \in T!Rows(take) : take[t].status = "DEBIT"}
         /\ comp.used \in Nat /\ comp.credited \in Nat
<1>1. /\ comp.used + T!DaysOf(T!Pending) <= comp.credited
      /\ comp.used = T!DaysOf(booked)
      /\ booked = {t \in T!Rows(take) : take[t].status = "DEBIT"}
  BY DEF CompInv, BalanceCovers, T!BalanceCovers
<1>2. Costed(take, T!Pending) /\ Costed(take, booked)
  BY <1>1, RowsCosted DEF CompInv
<1>3. comp.used \in Nat /\ comp.credited \in Nat
  BY DEF CompInv, T!CompOffBalance
<1>4. DaysIn(take, T!Pending) \in Nat /\ DaysIn(take, booked) \in Nat
  BY <1>2, DaysNat DEF Costed
<1> QED
  BY <1>1, <1>2, <1>3, <1>4, RedeemedDays

LEMMA BalanceHolds ==
  ASSUME comp'.used + DaysIn(take', T!Pending') <= comp'.credited,
         comp'.used = DaysIn(take', booked'),
         booked' = {t \in T!Rows(take)' : take'[t].status = "DEBIT"}
  PROVE  BalanceCovers'
BY RedeemedDays DEF BalanceCovers, T!BalanceCovers

LEMMA CompQuiet ==
  ASSUME CompInv, NEW ops, Only(ops), ops \cap ChoiceOps = {}, UNCHANGED <<comp, take, booked, alloc>>
  PROVE  CompInv'
<1>1. \A d \in T!Desks : desk'[d].op \in ChoiceOps => desk'[d] = desk[d]
  BY DEF Only, ChoiceOps
<1>2. Posted' /\ {"choose", "alloc", "redeem"} \subseteq ChoiceOps
  BY DEF Only, Posted, ChoiceOps
<1>3. T!Pending' = T!Pending /\ T!Rows(take)' = T!Rows(take)
  BY DEF T!Pending, T!Rows
<1>4. BalanceCovers'
  BY <1>3, BalanceSums, BalanceHolds
<1> QED
  BY <1>1, <1>2, <1>3, <1>4, TwoDesks DEF CompInv

LEMMA CompStepKeeps ==
  ASSUME CompInv, ChoiceSteps PROVE CompInv'
<1>0. /\ "employee" \in T!Desks /\ "reviewer" \in T!Desks /\ "employee" # "reviewer" /\ Posted
      /\ T!Desks = {"employee", "reviewer"}
      /\ comp \in T!CompOffBalance /\ take \in [Takes -> T!Redemption \cup {None}]
      /\ comp.used \in Nat /\ comp.credited \in Nat
      /\ DaysIn(take, T!Pending) \in Nat /\ DaysIn(take, booked) \in Nat
      /\ Costed(take, T!Pending) /\ Costed(take, booked)
      /\ comp.used + DaysIn(take, T!Pending) <= comp.credited
      /\ comp.used = DaysIn(take, booked)
      /\ booked = {t \in T!Rows(take) : take[t].status = "DEBIT"}
  BY TwoDesks, BalanceSums DEF CompInv
<1>1. ASSUME UNCHANGED <<comp, take, booked>> PROVE BalanceCovers' /\ T!Pending' = T!Pending
  <2>1. T!Pending' = T!Pending /\ T!Rows(take)' = T!Rows(take)
    BY <1>1 DEF T!Pending, T!Rows
  <2> QED
    BY <1>0, <1>1, <2>1, BalanceHolds
<1>2. ASSUME NEW n \in Nat, comp' = [comp EXCEPT !.credited = @ + n], UNCHANGED <<take, booked>>
      PROVE  comp' \in T!CompOffBalance /\ BalanceCovers' /\ T!Pending' = T!Pending
  <2>1. T!Pending' = T!Pending /\ T!Rows(take)' = T!Rows(take)
    BY <1>2 DEF T!Pending, T!Rows
  <2>2. comp' \in T!CompOffBalance /\ comp'.used = comp.used /\ comp'.credited = comp.credited + n
    BY <1>0, <1>2 DEF T!CompOffBalance
  <2>3. comp'.used + DaysIn(take', T!Pending') <= comp'.credited
    BY <1>0, <1>2, <2>1, <2>2
  <2> QED
    BY <1>0, <1>2, <2>1, <2>2, <2>3, BalanceHolds
<1>3. ASSUME NEW m \in Units, T!Credit(m) PROVE CompInv'
  <2>1. m \in Nat /\ comp' = [comp EXCEPT !.credited = @ + m] /\ UNCHANGED <<alloc, take, booked, desk>>
    BY <1>3, UnitsNat DEF T!Credit
  <2>2. comp' \in T!CompOffBalance /\ BalanceCovers' /\ T!Pending' = T!Pending
    BY <1>2, <2>1
  <2> QED
    BY <2>1, <2>2 DEF CompInv, Posted
<1>4. ASSUME NEW l \in Units \cup {0}, NEW c \in Units \cup {0}, T!SubmitReads(l, c) PROVE CompInv'
  <2> DEFINE new == [approved |-> T!ApprovedMinutes, comp |-> c, leave |-> l,
                     cash |-> T!ApprovedMinutes - l - c, status |-> "PENDING"]
             r == [op |-> "choose", new |-> new]
  <2>1. T!Begins("employee", r)
    BY <1>4 DEF T!SubmitReads
  <2>2. Chooses(new)
    BY UnitsNat DEF Chooses
  <2> HIDE DEF new
  <2>3. r.op = "choose" /\ r.new = new
    OBVIOUS
  <2> HIDE DEF r
  <2>4. desk'["employee"] = r /\ desk'["reviewer"] = desk["reviewer"] /\ Posted'
        /\ UNCHANGED <<comp, take, booked, alloc>>
    BY <1>0, <2>1, BeginsMoves DEF Posted
  <2> QED
    BY <1>1, <2>2, <2>3, <2>4 DEF CompInv
<1>5. ASSUME T!SubmitCommits PROVE CompInv'
  <2>1. T!Ends("employee", "choose") /\ alloc' = desk["employee"].new /\ UNCHANGED <<comp, take, booked>>
    BY <1>5 DEF T!SubmitCommits
  <2>2. /\ desk["employee"].op = "choose" /\ desk'["employee"].op = "none"
        /\ desk'["reviewer"] = desk["reviewer"] /\ Posted'
    BY <1>0, <2>1, EndsMoves DEF Posted
  <2>3. Chooses(alloc')
    BY <2>1, <2>2 DEF CompInv
  <2>4. Chooses(alloc)'
    BY <2>3 DEF Chooses
  <2> QED
    BY <1>1, <2>1, <2>2, <2>4 DEF CompInv
<1>6. ASSUME NEW v \in T!Verdicts, T!AllocReads(v) PROVE CompInv'
  <2> DEFINE r == [op |-> "alloc", row |-> alloc, verdict |-> v]
  <2>1. T!Begins("reviewer", r) /\ alloc # None
    BY <1>6 DEF T!AllocReads, T!Status
  <2>2. r.op = "alloc" /\ r.row = alloc
    OBVIOUS
  <2> HIDE DEF r
  <2>3. desk'["reviewer"] = r /\ desk'["employee"] = desk["employee"] /\ Posted'
        /\ UNCHANGED <<comp, take, booked, alloc>>
    BY <1>0, <2>1, BeginsMoves DEF Posted
  <2>4. Chooses(alloc) /\ alloc.comp \in Nat
    BY <2>1 DEF CompInv, Chooses
  <2> QED
    BY <1>1, <2>1, <2>2, <2>3, <2>4 DEF CompInv
<1>7. ASSUME T!AllocCommits PROVE CompInv'
  <2> DEFINE q == desk["reviewer"]
  <2>1. /\ T!Ends("reviewer", "alloc") /\ UNCHANGED <<take, booked>>
        /\ comp' = IF q.verdict = "APPROVED" THEN [comp EXCEPT !.credited = @ + q.row.comp] ELSE comp
        /\ alloc' = [alloc EXCEPT !.status = q.verdict]
    BY <1>7 DEF T!AllocCommits
  <2>2. /\ q.op = "alloc" /\ desk'["reviewer"].op = "none"
        /\ desk'["employee"] = desk["employee"] /\ Posted'
    BY <1>0, <2>1, EndsMoves DEF Posted
  <2>3. Chooses(alloc) /\ q.row.comp \in Nat
    BY <2>2 DEF CompInv
  <2>4. Chooses(alloc')
    BY <2>1, <2>3 DEF Chooses
  <2>5. Chooses(alloc)'
    BY <2>4 DEF Chooses
  <2>6. comp' \in T!CompOffBalance /\ BalanceCovers'
    <3>1. CASE q.verdict = "APPROVED"
      BY <1>2, <2>1, <2>3, <3>1
    <3>2. CASE q.verdict # "APPROVED"
      BY <1>0, <1>1, <2>1, <3>2
    <3> QED
      BY <3>1, <3>2
  <2> QED
    BY <2>1, <2>2, <2>5, <2>6 DEF CompInv
<1>8. ASSUME NEW t \in Takes, NEW m \in Units, T!Redeem(t, m) PROVE CompInv'
  <2> DEFINE row == [days |-> m, status |-> "PENDING"]
  <2>1. /\ take[t] = None /\ m <= T!Available /\ take' = [take EXCEPT ![t] = row]
        /\ UNCHANGED <<alloc, comp, booked, desk>>
    BY <1>8 DEF T!Redeem
  <2>2. row \in T!Redemption /\ row.days = m /\ row.status = "PENDING" /\ row # None
    <3>1. row \in T!Redemption
      BY DEF T!Redemption
    <3> QED
      BY <3>1, NoRow
  <2> HIDE DEF row
  <2>3. /\ take' \in [Takes -> T!Redemption \cup {None}] /\ take'[t] = row
        /\ \A x \in Takes : x # t => take'[x] = take[x]
    BY <1>0, <2>1, <2>2
  <2>4. /\ T!Rows(take)' = T!Rows(take) \cup {t} /\ t \notin T!Rows(take)
        /\ T!Rows(take) \subseteq Takes
    BY <1>0, <2>1, <2>2, <2>3 DEF T!Rows
  <2>5. T!Pending' = T!Pending \cup {t} /\ t \notin T!Pending /\ T!Pending \subseteq Takes
    BY <2>2, <2>3, <2>4 DEF T!Pending
  <2>6. t \notin booked /\ booked \subseteq Takes
    BY <1>0, <2>4
  <2>7. m \in Nat \ {0}
    BY UnitsNat
  <2>8. DaysIn(take', T!Pending') = DaysIn(take, T!Pending) + m
    <3>1. IsFiniteSet(T!Pending')
      BY <1>0, <2>5, FS_AddElement DEF Costed
    <3>2. \A x \in T!Pending : take[x].days \in Nat /\ take'[x].days = take[x].days
      BY <1>0, <2>3, <2>5 DEF Costed
    <3> QED
      BY <2>2, <2>3, <2>5, <2>7, <3>1, <3>2, DaysJoined
  <2>9. DaysIn(take', booked') = DaysIn(take, booked)
    <3>1. IsFiniteSet(booked) /\ \A x \in booked : take[x].days \in Nat /\ take'[x].days = take[x].days
      BY <1>0, <2>3, <2>6 DEF Costed
    <3>2. DaysIn(take', booked) = DaysIn(take, booked)
      BY <3>1, DaysSame
    <3> QED
      BY <2>1, <3>2
  <2>10. m <= comp.credited - comp.used - DaysIn(take, T!Pending)
    <3>1. m <= T!Monus(comp.credited - comp.used, DaysIn(take, T!Pending))
      BY <2>1, RedeemedDays DEF T!Available
    <3> QED
      BY <1>0, <2>7, <3>1 DEF T!Monus
  <2>11. booked' = {x \in T!Rows(take)' : take'[x].status = "DEBIT"}
    BY <1>0, <2>1, <2>2, <2>3, <2>4
  <2>12. comp'.used + DaysIn(take', T!Pending') <= comp'.credited
    BY <1>0, <2>1, <2>7, <2>8, <2>10
  <2>13. BalanceCovers'
    BY <1>0, <2>1, <2>9, <2>11, <2>12, BalanceHolds
  <2>14. desk["reviewer"].op = "redeem" =>
            desk["reviewer"].take \in T!Pending' /\ take'[desk["reviewer"].take] = take[desk["reviewer"].take]
    BY <2>3, <2>5 DEF CompInv
  <2> QED
    BY <2>1, <2>3, <2>13, <2>14 DEF CompInv, Posted
<1>9. ASSUME NEW t \in Takes, NEW v \in T!Verdicts, T!RedemptionReads(t, v) PROVE CompInv'
  <2> DEFINE r == [op |-> "redeem", take |-> t, days |-> take[t].days, verdict |-> v]
  <2>1. T!Begins("reviewer", r) /\ t \in T!Pending
    BY <1>9 DEF T!RedemptionReads
  <2>2. r.op = "redeem" /\ r.take = t /\ r.days = take[t].days /\ r.verdict = v
    OBVIOUS
  <2> HIDE DEF r
  <2>3. desk'["reviewer"] = r /\ desk'["employee"] = desk["employee"] /\ Posted'
        /\ UNCHANGED <<comp, take, booked, alloc>>
    BY <1>0, <2>1, BeginsMoves DEF Posted
  <2> QED
    BY <1>1, <2>1, <2>2, <2>3 DEF CompInv
<1>10. ASSUME T!RedemptionCommits PROVE CompInv'
  <2> DEFINE q == desk["reviewer"]
             t == q.take
  <2>1. T!Ends("reviewer", "redeem") /\ UNCHANGED alloc
    BY <1>10 DEF T!RedemptionCommits
  <2>2. /\ q.op = "redeem" /\ desk'["reviewer"].op = "none"
        /\ desk'["employee"] = desk["employee"] /\ Posted'
    BY <1>0, <2>1, EndsMoves DEF Posted
  <2>3. t \in T!Pending /\ q.days = take[t].days
    BY <2>2 DEF CompInv
  <2>4. \/ /\ take' = [take EXCEPT ![t].status = "REJECTED"] /\ UNCHANGED <<comp, booked>>
        \/ UNCHANGED <<take, comp, booked>>
        \/ /\ take' = [take EXCEPT ![t].status = "DEBIT"]
           /\ comp' = [comp EXCEPT !.used = @ + q.days] /\ booked' = booked \cup {t}
    BY <1>10 DEF T!RedemptionCommits
  <2>5. t \in Takes /\ t \in T!Rows(take) /\ take[t] \in T!Redemption /\ take[t].status = "PENDING"
        /\ T!Rows(take) \subseteq Takes
    BY <1>0, <2>3, RowsCosted DEF T!Pending
  <2>6. q.days \in Nat
    BY <1>0, <2>3 DEF Costed
  <2> HIDE DEF q
  <2>7. ASSUME comp' \in T!CompOffBalance, take' \in [Takes -> T!Redemption \cup {None}], BalanceCovers'
        PROVE  CompInv'
    BY <2>1, <2>2, <2>7 DEF CompInv, q
  <2>8. CASE UNCHANGED <<take, comp, booked>>
    BY <1>0, <1>1, <2>7, <2>8
  <2>9. ASSUME NEW st \in {"REJECTED", "DEBIT"}, take' = [take EXCEPT ![t].status = st]
        PROVE  /\ take' \in [Takes -> T!Redemption \cup {None}]
               /\ take'[t].status = st /\ take'[t].days = q.days
               /\ \A x \in Takes : x # t => take'[x] = take[x]
               /\ T!Rows(take)' = T!Rows(take)
               /\ t \notin T!Pending' /\ T!Pending = T!Pending' \cup {t}
               /\ DaysIn(take', T!Pending') \in Nat
               /\ DaysIn(take, T!Pending) = DaysIn(take', T!Pending') + q.days
               /\ t \notin booked /\ booked \subseteq Takes
               /\ DaysIn(take', booked) = DaysIn(take, booked)
    <3> DEFINE row == [take[t] EXCEPT !.status = st]
    <3>1. row \in T!Redemption /\ row.status = st /\ row.days = q.days
      BY <2>3, <2>5, <2>9 DEF T!Redemption
    <3>2. take' = [take EXCEPT ![t] = row]
      BY <1>0, <2>5, <2>9
    <3>3. row # None
      BY <3>1, NoRow
    <3> HIDE DEF row, t
    <3>4. /\ take' \in [Takes -> T!Redemption \cup {None}] /\ take'[t] = row
          /\ \A x \in Takes : x # t => take'[x] = take[x]
      BY <1>0, <2>5, <3>1, <3>2
    <3>5. T!Rows(take)' = T!Rows(take)
      BY <1>0, <2>5, <3>3, <3>4 DEF T!Rows
    <3>6. t \notin T!Pending' /\ T!Pending = T!Pending' \cup {t}
      <4>1. ASSUME NEW x PROVE x \in T!Pending' <=> x \in T!Pending /\ x # t
        BY <2>3, <2>5, <3>1, <3>4, <3>5 DEF T!Pending
      <4> QED
        BY <2>3, <4>1
    <3>7. t \notin booked /\ booked \subseteq Takes
      BY <1>0, <2>5
    <3>8. Costed(take', T!Pending')
      <4>1. T!Pending' \in SUBSET T!Pending
        BY <3>6
      <4> QED
        BY <1>0, <3>4, <3>6, <4>1, RowsCosted, FS_Subset DEF Costed
    <3>9. DaysIn(take', T!Pending') \in Nat
      BY <3>8, DaysNat DEF Costed
    <3>10. DaysIn(take, T!Pending) = DaysIn(take', T!Pending') + take[t].days
      <4>1. IsFiniteSet(T!Pending) /\ take[t].days \in Nat
            /\ \A x \in T!Pending' : take'[x].days \in Nat /\ take[x].days = take'[x].days
        <5>1. \A x \in T!Pending' : x # t /\ x \in Takes
          BY <1>0, <3>6, RowsCosted
        <5> QED
          BY <1>0, <2>3, <3>4, <3>8, <5>1 DEF Costed
      <4> DEFINE S == T!Pending'
                 U == T!Pending
                 g == take'
      <4>2. t \notin S /\ U = S \cup {t} /\ IsFiniteSet(U) /\ take[t].days \in Nat
            /\ \A x \in S : g[x].days \in Nat /\ take[x].days = g[x].days
        BY <3>6, <4>1
      <4>3. DaysIn(take, U) = DaysIn(g, S) + take[t].days
        <5> HIDE DEF S, U, g
        <5> QED
          BY <4>2, DaysJoined
      <4> QED
        BY <4>3
    <3>11. DaysIn(take', booked) = DaysIn(take, booked)
      <4>1. IsFiniteSet(booked) /\ \A x \in booked : take[x].days \in Nat /\ take'[x].days = take[x].days
        BY <1>0, <3>4, <3>7 DEF Costed
      <4> QED
        BY <4>1, DaysSame
    <3> QED
      BY <2>3, <3>1, <3>4, <3>5, <3>6, <3>7, <3>9, <3>10, <3>11
  <2>10. CASE take' = [take EXCEPT ![t].status = "REJECTED"] /\ UNCHANGED <<comp, booked>>
    <3>1. comp'.used + DaysIn(take', T!Pending') <= comp'.credited
      BY <1>0, <2>6, <2>9, <2>10
    <3>2. booked' = {x \in T!Rows(take)' : take'[x].status = "DEBIT"}
      <4> HIDE DEF t
      <4> QED
        BY <1>0, <2>5, <2>9, <2>10
    <3>3. comp'.used = DaysIn(take', booked')
      BY <1>0, <2>9, <2>10
    <3> QED
      BY <1>0, <2>7, <2>9, <2>10, <3>1, <3>2, <3>3, BalanceHolds
  <2>11. CASE /\ take' = [take EXCEPT ![t].status = "DEBIT"]
              /\ comp' = [comp EXCEPT !.used = @ + q.days] /\ booked' = booked \cup {t}
    <3>1. comp' \in T!CompOffBalance /\ comp'.used = comp.used + q.days /\ comp'.credited = comp.credited
      <4> DEFINE n == comp.used + q.days
      <4>1. n \in Nat /\ comp \in T!CompOffBalance
        BY <1>0, <2>6
      <4>2. comp' = [comp EXCEPT !.used = n]
        BY <2>11
      <4> HIDE DEF n
      <4>3. comp' \in T!CompOffBalance /\ comp'.used = n /\ comp'.credited = comp.credited
        BY <4>1, <4>2 DEF T!CompOffBalance
      <4> QED
        BY <4>3 DEF n
    <3>2. comp'.used + DaysIn(take', T!Pending') <= comp'.credited
      BY <1>0, <2>6, <2>9, <2>11, <3>1
    <3>3. booked' = {x \in T!Rows(take)' : take'[x].status = "DEBIT"}
      <4> HIDE DEF t
      <4> QED
        BY <1>0, <2>5, <2>9, <2>11
    <3>4. DaysIn(take', booked') = DaysIn(take, booked) + q.days
      <4>1. IsFiniteSet(booked') /\ \A x \in booked : take[x].days \in Nat /\ take'[x].days = take[x].days
        <5> HIDE DEF t
        <5> QED
          BY <1>0, <2>9, <2>11, FS_AddElement DEF Costed
      <4>2. take'[t].days = q.days /\ t \notin booked /\ booked' = booked \cup {t}
        BY <2>9, <2>11
      <4> DEFINE g == take'
                 U == booked'
      <4>3. /\ IsFiniteSet(U) /\ U = booked \cup {t} /\ t \notin booked /\ g[t].days \in Nat
            /\ \A x \in booked : take[x].days \in Nat /\ g[x].days = take[x].days
        BY <2>6, <4>1, <4>2
      <4> HIDE DEF t
      <4>4. DaysIn(g, U) = DaysIn(take, booked) + g[t].days
        <5> HIDE DEF g, U
        <5> QED
          BY <4>3, DaysJoined
      <4> QED
        BY <4>2, <4>4
    <3> QED
      BY <1>0, <2>7, <2>9, <2>11, <3>1, <3>2, <3>3, <3>4, BalanceHolds
  <2> QED
    BY <2>4, <2>8, <2>10, <2>11
<1> QED
  BY <1>3, <1>4, <1>5, <1>6, <1>7, <1>8, <1>9, <1>10 DEF ChoiceSteps

LEMMA CompStep ==
  ASSUME CompInv, T!Next PROVE CompInv'
<1>0. Posted
  BY DEF CompInv
<1>1. CASE AskSteps
  <2>1. Only(AskOps) /\ UNCHANGED <<comp, take, booked, alloc>> /\ AskOps \cap ChoiceOps = {}
    BY <1>0, <1>1, AskMoves DEF AskOps, ChoiceOps
  <2> QED
    BY <2>1, CompQuiet
<1>2. CASE ShootSteps
  <2>1. Only({"shoot"}) /\ UNCHANGED <<comp, take, booked, alloc>> /\ {"shoot"} \cap ChoiceOps = {}
    BY <1>0, <1>2, ShootMoves DEF ChoiceOps
  <2> QED
    BY <2>1, CompQuiet
<1>3. CASE SettleSteps
  <2>1. Only(SettleOps) /\ UNCHANGED <<comp, take, booked, alloc>> /\ SettleOps \cap ChoiceOps = {}
    BY <1>0, <1>3, SettleMoves DEF SettleOps, ChoiceOps
  <2> QED
    BY <2>1, CompQuiet
<1>4. CASE T!Payroll
  <2>1. Only({}) /\ UNCHANGED <<comp, take, booked, alloc>> /\ {} \cap ChoiceOps = {}
    BY <1>0, <1>4 DEF T!Payroll, Only, Posted
  <2> QED
    BY <2>1, CompQuiet
<1> QED
  BY <1>1, <1>2, <1>3, <1>4, StepKinds, CompStepKeeps

-----------------------------------------------------------------------------
(***************************************************************************)
(* Why a request pays no more than it was granted: until its session ends, it *)
(* pays what was granted, and that is the limit the session is cut to.        *)
(***************************************************************************)
Granting(r) ==
  /\ ot[r].session # "ended" => ot[r].approved = granted[r]
  /\ granted[r] > 0 => ot[r].approved <= granted[r]

GrantInv ==
  /\ Posted
  /\ ot \in [T!Asks -> T!OvertimeRequest \cup {None}] /\ granted \in [T!Asks -> Nat]
  /\ \E n \in 0 .. MaxAsks : T!Rows(ot) = 1 .. n
  /\ \A r \in T!With({"APPROVED"}) : Granting(r)
  /\ desk["employee"].op = "ask" =>
         desk["employee"].new \in T!OvertimeRequest /\ desk["employee"].new.status = "PENDING"
  /\ desk["employee"].op = "start" =>
         desk["employee"].ask \in T!With({"APPROVED"}) /\ ot[desk["employee"].ask].session = "no"
  /\ desk["employee"].op = "end" =>
         /\ desk["employee"].ask \in T!With({"APPROVED"}) /\ ot[desk["employee"].ask].session = "open"
         /\ desk["employee"].limit = ot[desk["employee"].ask].approved /\ desk["employee"].minutes \in Nat
  /\ desk["reviewer"].op = "review" =>
         /\ desk["reviewer"].ask \in T!With({"PENDING"})
         /\ desk["reviewer"].minutes \in Nat /\ desk["reviewer"].verdict \in T!Verdicts

LEMMA AskTyped ==
  ASSUME NEW r \in T!OvertimeRequest
  PROVE  /\ r.approved \in Nat /\ r.session \in {"no", "open", "ended"}
         /\ r.status \in {"PENDING", "APPROVED", "REJECTED"}
BY DEF T!OvertimeRequest, T!Verdicts

LEMMA GrantQuiet ==
  ASSUME GrantInv, NEW ops, Only(ops), ops \cap AskOps = {}, UNCHANGED <<ot, granted>>
  PROVE  GrantInv'
<1>1. \A d \in T!Desks : desk'[d].op \in AskOps => desk'[d] = desk[d]
  BY DEF Only, AskOps
<1>2. Posted' /\ {"ask", "start", "end", "review"} \subseteq AskOps
  BY DEF Only, Posted, AskOps
<1>3. T!Rows(ot)' = T!Rows(ot) /\ \A st : T!With(st)' = T!With(st)
  BY DEF T!Rows, T!With
<1>4. T!With({"APPROVED"})' = T!With({"APPROVED"}) /\ T!With({"PENDING"})' = T!With({"PENDING"})
  BY DEF T!Rows, T!With
<1> QED
  BY <1>1, <1>2, <1>3, <1>4, TwoDesks DEF GrantInv, Granting

(* The next row is a new one. *)
LEMMA NextAskNew ==
  ASSUME NEW n \in 0 .. MaxAsks, T!Rows(ot) = 1 .. n, NEW r \in T!NextAsk
  PROVE  r = n + 1 /\ r \in T!Asks /\ r \notin T!Rows(ot)
<1>1. MaxAsks \in Nat
  BY TimeOffAssumption, Zenon DEF T!OvertimeAssumption
<1>2. n \in Nat /\ Cardinality(1 .. n) = n
  BY <1>1, FS_Interval
<1>3. T!Cardinality(1 .. n) = Cardinality(1 .. n)
  BY DEF T!Cardinality, Cardinality, T!IsFiniteSet, IsFiniteSet
<1>4. T!Rows(ot) # T!Asks /\ r = n + 1
  BY <1>2, <1>3 DEF T!NextAsk
<1> QED
  BY <1>1, <1>2, <1>4 DEF T!Asks

(* The latest of some requests is one of them. *)
LEMMA LatestAsk ==
  ASSUME NEW n \in Nat, NEW S \in SUBSET (1 .. n), S # {}
  PROVE  T!Max(S) \in S
<1> DEFINE Below(r) == n - r
           D == {Below(r) : r \in S}
<1>0. \A r \in S : Below(r) \in Nat /\ r \in Nat
  OBVIOUS
<1>1. D \subseteq Nat /\ D # {}
  <2> HIDE DEF Below
  <2> QED
    BY <1>0
<1>2. PICK k \in D : \A m \in D : k <= m
  <2> HIDE DEF D
  <2> QED
    BY <1>1, LeastNumber
<1>3. PICK r \in S : k = n - r
  BY <1>2
<1>4. ASSUME NEW x \in S PROVE r >= x
  <2>1. k <= Below(x)
    <3> HIDE DEF Below
    <3> QED
      BY <1>2
  <2> QED
    BY <1>0, <1>3, <2>1
<1> QED
  BY <1>3, <1>4 DEF T!Max

(* Those of a status, now and after a step. *)
LEMMA WithIs ==
  /\ \A r : r \in T!With({"APPROVED"}) <=> r \in T!Rows(ot) /\ ot[r].status = "APPROVED"
  /\ \A r : r \in T!With({"APPROVED"})' <=> r \in T!Rows(ot)' /\ ot'[r].status = "APPROVED"
  /\ \A r : r \in T!With({"PENDING"}) <=> r \in T!Rows(ot) /\ ot[r].status = "PENDING"
  /\ \A r : r \in T!With({"PENDING"})' <=> r \in T!Rows(ot)' /\ ot'[r].status = "PENDING"
BY DEF T!With

(* A new request joins, and waits. *)
LEMMA AskJoins ==
  ASSUME GrantInv, NEW r \in T!NextAsk, NEW new \in T!OvertimeRequest, new.status = "PENDING",
         ot' = [ot EXCEPT ![r] = new], UNCHANGED granted
  PROVE  /\ ot' \in [T!Asks -> T!OvertimeRequest \cup {None}]
         /\ \E n \in 0 .. MaxAsks : T!Rows(ot)' = 1 .. n
         /\ T!With({"APPROVED"})' = T!With({"APPROVED"}) /\ T!With({"PENDING"}) \subseteq T!With({"PENDING"})'
         /\ \A x \in T!With({"APPROVED"}) : ot'[x] = ot[x]
<1>1. PICK n \in 0 .. MaxAsks : T!Rows(ot) = 1 .. n
  BY DEF GrantInv
<1>2. r = n + 1 /\ r \in T!Asks /\ r \notin T!Rows(ot)
  BY <1>1, NextAskNew
<1>3. /\ ot' \in [T!Asks -> T!OvertimeRequest \cup {None}] /\ ot'[r] = new
      /\ \A x \in T!Asks : x # r => ot'[x] = ot[x]
  BY <1>2 DEF GrantInv
<1>4. new # None
  BY NoRow
<1>5. T!Rows(ot)' = T!Rows(ot) \cup {r} /\ T!Rows(ot) \subseteq T!Asks
  BY <1>2, <1>3, <1>4 DEF T!Rows, GrantInv
<1>6. T!Rows(ot)' = 1 .. n + 1 /\ n + 1 \in 0 .. MaxAsks
  <2>1. MaxAsks \in Nat
    BY TimeOffAssumption, Zenon DEF T!OvertimeAssumption
  <2>2. n \in Nat /\ n + 1 <= MaxAsks
    BY <1>2, <2>1 DEF T!Asks
  <2>3. 1 .. n + 1 = (1 .. n) \cup {n + 1}
    BY <2>2
  <2>4. T!Rows(ot)' = (1 .. n) \cup {n + 1}
    BY <1>1, <1>2, <1>5, Zenon
  <2>5. n + 1 \in 0 .. MaxAsks
    BY <2>1, <2>2
  <2> QED
    BY <2>3, <2>4, <2>5, Zenon
<1>7. ASSUME NEW x PROVE /\ x \in T!With({"APPROVED"}) => x \in T!Rows(ot) /\ ot'[x] = ot[x]
                         /\ x \in T!With({"PENDING"}) => x \in T!Rows(ot) /\ ot'[x] = ot[x]
  BY <1>2, <1>3, <1>5, WithIs
<1>8. ASSUME NEW x PROVE /\ x \in T!With({"APPROVED"})' <=> x \in T!With({"APPROVED"})
                         /\ x \in T!With({"PENDING"}) => x \in T!With({"PENDING"})'
  <2>1. x \in T!With({"APPROVED"})' => x \in T!Rows(ot) /\ ot'[x] = ot[x]
    BY <1>2, <1>3, <1>5, WithIs
  <2> QED
    BY <1>5, <1>7, <2>1, WithIs
<1>9. \A x \in T!With({"APPROVED"}) : ot'[x] = ot[x]
  BY <1>7
<1> QED
  BY <1>3, <1>6, <1>8, <1>9

(* A row changes and stays a row. *)
LEMMA AskChanges ==
  ASSUME GrantInv, NEW r \in T!Rows(ot), NEW new \in T!OvertimeRequest, ot' = [ot EXCEPT ![r] = new]
  PROVE  /\ ot' \in [T!Asks -> T!OvertimeRequest \cup {None}] /\ T!Rows(ot)' = T!Rows(ot)
         /\ ot'[r] = new
         /\ \A x \in T!Rows(ot) : x # r => ot'[x] = ot[x]
         /\ r \in T!Asks
<1>1. r \in T!Asks /\ T!Rows(ot) \subseteq T!Asks
  BY DEF T!Rows, GrantInv
<1>2. /\ ot' \in [T!Asks -> T!OvertimeRequest \cup {None}] /\ ot'[r] = new
      /\ \A x \in T!Asks : x # r => ot'[x] = ot[x]
  BY <1>1 DEF GrantInv
<1>3. new # None
  BY NoRow
<1>4. T!Rows(ot)' = T!Rows(ot)
  BY <1>1, <1>2, <1>3 DEF T!Rows, GrantInv
<1> QED
  BY <1>1, <1>2, <1>4

LEMMA AskStatus ==
  ASSUME GrantInv, NEW st, NEW r \in T!With({st})
  PROVE  r \in T!Rows(ot) /\ r \in T!Asks /\ ot[r] \in T!OvertimeRequest /\ ot[r].status = st /\ granted[r] \in Nat
BY DEF T!With, T!Rows, GrantInv

LEMMA GrantStepKeeps ==
  ASSUME GrantInv, AskSteps PROVE GrantInv'
<1>0. /\ "employee" \in T!Desks /\ "reviewer" \in T!Desks /\ "employee" # "reviewer" /\ Posted
      /\ T!Desks = {"employee", "reviewer"}
      /\ ot \in [T!Asks -> T!OvertimeRequest \cup {None}] /\ granted \in [T!Asks -> Nat]
  BY TwoDesks DEF GrantInv
<1>1. ASSUME NEW minutes \in Units \cup {0}, NEW b \in BOOLEAN
      PROVE  T!NewAsk(b, minutes) \in T!OvertimeRequest /\ T!NewAsk(b, minutes).status = "PENDING"
  BY UnitsNat DEF T!NewAsk, T!OvertimeRequest
<1>2. ASSUME UNCHANGED <<ot, granted, desk>> PROVE GrantInv'
  <2>1. Only({}) /\ {} \cap AskOps = {}
    BY <1>0, <1>2 DEF Only, Posted
  <2> QED
    BY <1>2, <2>1, GrantQuiet
<1>3. ASSUME NEW m \in Units \cup {0}, T!PunchOut(m) PROVE GrantInv'
  <2>1. UNCHANGED <<granted, desk>>
    BY <1>3 DEF T!PunchOut
  <2>2. CASE UNCHANGED ot
    BY <1>2, <2>1, <2>2
  <2>3. ASSUME NEW r \in T!NextAsk, ot' = [ot EXCEPT ![r] = T!NewAsk(FALSE, m)] PROVE GrantInv'
    <3> DEFINE new == T!NewAsk(FALSE, m)
    <3>1. new \in T!OvertimeRequest /\ new.status = "PENDING"
      BY <1>1
    <3> HIDE DEF new
    <3>2. ot' = [ot EXCEPT ![r] = new]
      BY <2>3 DEF new
    <3>3. /\ ot' \in [T!Asks -> T!OvertimeRequest \cup {None}]
          /\ \E n \in 0 .. MaxAsks : T!Rows(ot)' = 1 .. n
          /\ T!With({"APPROVED"})' = T!With({"APPROVED"}) /\ T!With({"PENDING"}) \subseteq T!With({"PENDING"})'
          /\ \A x \in T!With({"APPROVED"}) : ot'[x] = ot[x]
      BY <2>1, <3>1, <3>2, AskJoins
    <3> QED
      BY <2>1, <3>3 DEF GrantInv, Granting, Posted
  <2> QED
    BY <1>3, <2>2, <2>3 DEF T!PunchOut
<1>4. ASSUME NEW r, T!Begins("employee", r),
             r.op = "ask" => r.new \in T!OvertimeRequest /\ r.new.status = "PENDING",
             r.op = "start" => r.ask \in T!With({"APPROVED"}) /\ ot[r.ask].session = "no",
             r.op = "end" => /\ r.ask \in T!With({"APPROVED"}) /\ ot[r.ask].session = "open"
                             /\ r.limit = ot[r.ask].approved /\ r.minutes \in Nat
      PROVE  GrantInv'
  <2>1. desk'["employee"] = r /\ desk'["reviewer"] = desk["reviewer"] /\ Posted' /\ UNCHANGED <<ot, granted>>
    BY <1>0, <1>4, BeginsMoves DEF Posted
  <2>2. T!Rows(ot)' = T!Rows(ot) /\ T!With({"APPROVED"})' = T!With({"APPROVED"}) /\ T!With({"PENDING"})' = T!With({"PENDING"})
    BY <2>1 DEF T!Rows, T!With
  <2> QED
    BY <1>4, <2>1, <2>2 DEF GrantInv, Granting
<1>5. ASSUME NEW m \in Units, T!PlanReads(m) \/ T!ClaimReads(m) PROVE GrantInv'
  <2>1. PICK b \in BOOLEAN : T!Begins("employee", [op |-> "ask", new |-> T!NewAsk(b, m)])
    <3>1. ASSUME T!PlanReads(m) PROVE T!Begins("employee", [op |-> "ask", new |-> T!NewAsk(TRUE, m)])
      BY <3>1 DEF T!PlanReads
    <3>2. ASSUME T!ClaimReads(m) PROVE T!Begins("employee", [op |-> "ask", new |-> T!NewAsk(FALSE, m)])
      BY <3>2 DEF T!ClaimReads
    <3> QED
      BY <1>5, <3>1, <3>2
  <2> DEFINE r == [op |-> "ask", new |-> T!NewAsk(b, m)]
  <2>2. r.op = "ask" /\ r.new = T!NewAsk(b, m)
    OBVIOUS
  <2>3. T!NewAsk(b, m) \in T!OvertimeRequest /\ T!NewAsk(b, m).status = "PENDING"
    BY <1>1
  <2> HIDE DEF r
  <2>4. T!Begins("employee", r)
    BY <2>1 DEF r
  <2> QED
    BY <1>4, <2>2, <2>3, <2>4
<1>6. ASSUME T!AskCommits PROVE GrantInv'
  <2> DEFINE new == desk["employee"].new
  <2>1. T!Ends("employee", "ask") /\ UNCHANGED granted
    BY <1>6 DEF T!AskCommits
  <2>2. PICK r \in T!NextAsk : ot' = [ot EXCEPT ![r] = new]
    BY <1>6 DEF T!AskCommits
  <2>3. /\ desk["employee"].op = "ask" /\ desk'["employee"].op = "none"
        /\ desk'["reviewer"] = desk["reviewer"] /\ Posted'
    BY <1>0, <2>1, EndsMoves DEF Posted
  <2>4. new \in T!OvertimeRequest /\ new.status = "PENDING"
    BY <2>3 DEF GrantInv
  <2> HIDE DEF new
  <2>5. /\ ot' \in [T!Asks -> T!OvertimeRequest \cup {None}]
        /\ \E n \in 0 .. MaxAsks : T!Rows(ot)' = 1 .. n
        /\ T!With({"APPROVED"})' = T!With({"APPROVED"}) /\ T!With({"PENDING"}) \subseteq T!With({"PENDING"})'
        /\ \A x \in T!With({"APPROVED"}) : ot'[x] = ot[x]
    BY <2>1, <2>2, <2>4, AskJoins
  <2> QED
    BY <2>1, <2>3, <2>5 DEF GrantInv, Granting
<1>7. ASSUME T!StartReads PROVE GrantInv'
  <2> DEFINE a == T!Max(T!Startable)
             r == [op |-> "start", ask |-> a]
  <2>1. T!Begins("employee", r) /\ T!Startable # {}
    BY <1>7 DEF T!StartReads
  <2>2. PICK n \in 0 .. MaxAsks : T!Rows(ot) = 1 .. n
    BY DEF GrantInv
  <2>3. T!Startable \subseteq 1 .. n /\ n \in Nat
    BY <2>2 DEF T!Startable, T!With
  <2>4. a \in T!Startable
    BY <2>1, <2>3, LatestAsk
  <2>5. a \in T!With({"APPROVED"}) /\ ot[a].session = "no"
    BY <2>4 DEF T!Startable
  <2> HIDE DEF a
  <2>6. r.op = "start" /\ r.ask = a
    OBVIOUS
  <2> HIDE DEF r
  <2> QED
    BY <1>4, <2>1, <2>5, <2>6
<1>8. ASSUME NEW m \in Units, T!EndReads(m) PROVE GrantInv'
  <2>1. PICK a \in T!Running : T!Begins("employee", [op |-> "end", ask |-> a, minutes |-> m, limit |-> ot[a].approved])
    BY <1>8 DEF T!EndReads
  <2> DEFINE r == [op |-> "end", ask |-> a, minutes |-> m, limit |-> ot[a].approved]
  <2>2. r.op = "end" /\ r.ask = a /\ r.minutes = m /\ r.limit = ot[a].approved
    OBVIOUS
  <2>3. a \in T!With({"APPROVED"}) /\ ot[a].session = "open" /\ m \in Nat
    BY <2>1, UnitsNat DEF T!Running
  <2> HIDE DEF r
  <2>4. T!Begins("employee", r)
    BY <2>1 DEF r
  <2> QED
    BY <1>4, <2>2, <2>3, <2>4
<1>9. ASSUME NEW r \in T!Asks, NEW v \in T!Verdicts, NEW m \in Units \cup {0}, T!ReviewReads(r, v, m) PROVE GrantInv'
  <2> DEFINE x == [op |-> "review", ask |-> r, row |-> ot[r], ot |-> att.ot, verdict |-> v, minutes |-> m]
  <2>1. T!Begins("reviewer", x) /\ r \in T!With({"PENDING"})
    BY <1>9 DEF T!ReviewReads
  <2>2. x.op = "review" /\ x.ask = r /\ x.verdict = v /\ x.minutes = m
    OBVIOUS
  <2> HIDE DEF x
  <2>3. desk'["reviewer"] = x /\ desk'["employee"] = desk["employee"] /\ Posted' /\ UNCHANGED <<ot, granted>>
    BY <1>0, <2>1, BeginsMoves DEF Posted
  <2>4. T!Rows(ot)' = T!Rows(ot) /\ T!With({"APPROVED"})' = T!With({"APPROVED"}) /\ T!With({"PENDING"})' = T!With({"PENDING"})
    BY <2>3 DEF T!Rows, T!With
  <2>5. m \in Nat
    BY UnitsNat
  <2> QED
    BY <2>1, <2>2, <2>3, <2>4, <2>5 DEF GrantInv, Granting
<1>10. ASSUME NEW a, a \in T!With({"APPROVED"}), NEW new \in T!OvertimeRequest, new.status = "APPROVED",
              ot' = [ot EXCEPT ![a] = new], UNCHANGED granted,
              T!Ends("employee", "start") \/ T!Ends("employee", "end"), Granting(a)'
       PROVE  GrantInv'
  <2>1. a \in T!Rows(ot) /\ ot[a].status = "APPROVED"
    BY <1>10, AskStatus
  <2>2. /\ ot' \in [T!Asks -> T!OvertimeRequest \cup {None}] /\ T!Rows(ot)' = T!Rows(ot) /\ ot'[a] = new
        /\ \A x \in T!Rows(ot) : x # a => ot'[x] = ot[x]
    BY <1>10, <2>1, AskChanges
  <2>3. desk'["employee"].op = "none" /\ desk'["reviewer"] = desk["reviewer"] /\ Posted'
    BY <1>0, <1>10, EndsMoves DEF Posted
  <2>4. T!With({"APPROVED"})' = T!With({"APPROVED"}) /\ T!With({"PENDING"})' = T!With({"PENDING"})
    BY <1>10, <2>1, <2>2 DEF T!With
  <2>5. \A x \in T!With({"APPROVED"})' : Granting(x)'
    <3>1. ASSUME NEW x \in T!With({"APPROVED"}), x # a PROVE Granting(x)'
      <4>1. ot'[x] = ot[x] /\ Granting(x)
        BY <2>2, <3>1, AskStatus DEF GrantInv
      <4> QED
        BY <1>10, <4>1 DEF Granting
    <3> QED
      BY <1>10, <2>4, <3>1
  <2> QED
    BY <1>0, <1>10, <2>2, <2>3, <2>4, <2>5 DEF GrantInv
<1>11. ASSUME T!StartCommits PROVE GrantInv'
  <2>0. PICK a : a = desk["employee"].ask
    OBVIOUS
  <2> DEFINE new == [ot[a] EXCEPT !.session = "open"]
  <2>1. T!Ends("employee", "start") /\ UNCHANGED granted /\ ot' = [ot EXCEPT ![a].session = "open"]
    BY <1>11, <2>0 DEF T!StartCommits
  <2>2. a \in T!With({"APPROVED"}) /\ ot[a].session = "no"
    BY <2>0, <2>1 DEF T!Ends, GrantInv
  <2>3. ot[a] \in T!OvertimeRequest /\ ot[a].status = "APPROVED" /\ Granting(a) /\ a \in T!Asks /\ a \in T!Rows(ot)
    BY <2>2, AskStatus DEF GrantInv
  <2>4. new \in T!OvertimeRequest /\ new.status = "APPROVED" /\ new.approved = ot[a].approved /\ new.session = "open"
    BY <2>3 DEF T!OvertimeRequest, T!Verdicts
  <2>5. ot' = [ot EXCEPT ![a] = new]
    BY <1>0, <2>1, <2>3
  <2> HIDE DEF new
  <2>6. ot'[a] = new
    BY <1>0, <2>3, <2>5
  <2>7. Granting(a)'
    BY <2>1, <2>2, <2>3, <2>4, <2>6 DEF Granting
  <2> QED
    BY <1>10, <2>1, <2>2, <2>4, <2>5, <2>7
<1>12. ASSUME T!EndCommits PROVE GrantInv'
  <2> DEFINE q == desk["employee"]
             p == T!Payable(q.minutes, q.limit)
  <2>0. PICK a : a = q.ask
    OBVIOUS
  <2> DEFINE new == [ot[a] EXCEPT !.asked = q.minutes, !.approved = p, !.session = "ended"]
  <2>1. T!Ends("employee", "end") /\ UNCHANGED granted
        /\ ot' = [ot EXCEPT ![a].asked = q.minutes, ![a].approved = p, ![a].session = "ended"]
    BY <1>12, <2>0 DEF T!EndCommits
  <2>2. /\ a \in T!With({"APPROVED"}) /\ ot[a].session = "open"
        /\ q.limit = ot[a].approved /\ q.minutes \in Nat
    BY <2>0, <2>1 DEF T!Ends, GrantInv
  <2> HIDE DEF q
  <2>3. /\ ot[a] \in T!OvertimeRequest /\ ot[a].status = "APPROVED" /\ Granting(a)
        /\ a \in T!Asks /\ a \in T!Rows(ot) /\ granted[a] \in Nat
    BY <2>2, AskStatus DEF GrantInv
  <2>4. ot[a].approved = granted[a] /\ q.limit \in Nat
    BY <2>2, <2>3, AskTyped DEF Granting
  <2>5. p \in Nat /\ (granted[a] > 0 => p <= granted[a])
    BY <2>2, <2>3, <2>4 DEF T!Payable
  <2> HIDE DEF p
  <2>6. new \in T!OvertimeRequest /\ new.status = "APPROVED" /\ new.approved = p /\ new.session = "ended"
    BY <2>2, <2>3, <2>5 DEF T!OvertimeRequest, T!Verdicts
  <2>7. ot' = [ot EXCEPT ![a] = new]
    BY <1>0, <2>1, <2>3
  <2> HIDE DEF new
  <2>8. ot'[a] = new
    BY <1>0, <2>3, <2>7
  <2>9. Granting(a)'
    BY <2>1, <2>5, <2>6, <2>8 DEF Granting
  <2> QED
    BY <1>10, <2>1, <2>2, <2>6, <2>7, <2>9
<1>13. ASSUME T!ReviewCommits PROVE GrantInv'
  <2> DEFINE q == desk["reviewer"]
             a == q.ask
             new == [ot[a] EXCEPT !.status = q.verdict, !.approved = q.minutes]
  <2>1. /\ T!Ends("reviewer", "review")
        /\ ot' = [ot EXCEPT ![a].status = q.verdict, ![a].approved = q.minutes]
        /\ granted' = [granted EXCEPT ![a] = q.minutes]
    BY <1>13 DEF T!ReviewCommits
  <2>2. a \in T!With({"PENDING"}) /\ q.minutes \in Nat /\ q.verdict \in {"APPROVED", "REJECTED"}
    BY <2>1 DEF T!Ends, GrantInv, T!Verdicts
  <2>3. desk'["reviewer"].op = "none" /\ desk'["employee"] = desk["employee"] /\ Posted'
    BY <1>0, <2>1, EndsMoves DEF Posted
  <2> HIDE DEF a, q
  <2>4. ot[a] \in T!OvertimeRequest /\ ot[a].status = "PENDING" /\ a \in T!Asks /\ a \in T!Rows(ot)
    BY <2>2, AskStatus
  <2>5. new \in T!OvertimeRequest /\ new.status = q.verdict /\ new.approved = q.minutes
    BY <2>2, <2>4 DEF T!OvertimeRequest, T!Verdicts
  <2>6. ot' = [ot EXCEPT ![a] = new]
    BY <1>0, <2>1, <2>4
  <2> HIDE DEF new
  <2>7. /\ ot' \in [T!Asks -> T!OvertimeRequest \cup {None}] /\ T!Rows(ot)' = T!Rows(ot) /\ ot'[a] = new
        /\ \A x \in T!Rows(ot) : x # a => ot'[x] = ot[x]
    BY <2>4, <2>5, <2>6, AskChanges
  <2>8. /\ granted' \in [T!Asks -> Nat] /\ granted'[a] = q.minutes
        /\ \A x \in T!Asks : x # a => granted'[x] = granted[x]
    BY <1>0, <2>1, <2>2, <2>4
  <2>9. ASSUME NEW x, x \in T!With({"APPROVED"})
        PROVE  x # a /\ ot'[x] = ot[x] /\ x \in T!With({"APPROVED"})'
    <3>1. x \in T!Rows(ot) /\ ot[x].status = "APPROVED"
      BY <2>9, WithIs
    <3>2. x # a /\ ot'[x] = ot[x]
      BY <2>4, <2>7, <3>1
    <3> QED
      BY <2>7, <3>1, <3>2, WithIs
  <2>10. \A x \in T!With({"APPROVED"})' : Granting(x)'
    <3>1. ASSUME NEW x, x \in T!With({"APPROVED"})' PROVE Granting(x)'
      <4>1. x \in T!Rows(ot) /\ ot'[x].status = "APPROVED"
        BY <2>7, <3>1, WithIs
      <4>2. CASE x = a
        BY <2>2, <2>5, <2>7, <2>8, <4>2 DEF Granting
      <4>3. CASE x # a
        <5>1. ot'[x] = ot[x] /\ x \in T!With({"APPROVED"})
          BY <2>7, <4>1, <4>3, WithIs
        <5>2. Granting(x) /\ granted'[x] = granted[x]
          BY <2>8, <4>3, <5>1, AskStatus DEF GrantInv
        <5> QED
          BY <5>1, <5>2 DEF Granting
      <4> QED
        BY <4>2, <4>3
    <3> QED
      BY <3>1
  <2> QED
    BY <2>3, <2>7, <2>8, <2>9, <2>10 DEF GrantInv
<1> QED
  BY <1>3, <1>5, <1>6, <1>7, <1>8, <1>9, <1>11, <1>12, <1>13 DEF AskSteps

LEMMA GrantStep ==
  ASSUME GrantInv, T!Next PROVE GrantInv'
<1>0. Posted
  BY DEF GrantInv
<1>1. CASE ChoiceSteps
  <2>1. Only(ChoiceOps) /\ UNCHANGED <<ot, granted>> /\ ChoiceOps \cap AskOps = {}
    BY <1>0, <1>1, ChoiceMoves DEF AskOps, ChoiceOps
  <2> QED
    BY <2>1, GrantQuiet
<1>2. CASE ShootSteps
  <2>1. Only({"shoot"}) /\ UNCHANGED <<ot, granted>> /\ {"shoot"} \cap AskOps = {}
    BY <1>0, <1>2, ShootMoves DEF AskOps
  <2> QED
    BY <2>1, GrantQuiet
<1>3. CASE SettleSteps
  <2>1. Only(SettleOps) /\ UNCHANGED <<ot, granted>> /\ SettleOps \cap AskOps = {}
    BY <1>0, <1>3, SettleMoves DEF SettleOps, AskOps
  <2> QED
    BY <2>1, GrantQuiet
<1>4. CASE T!Payroll
  <2>1. Only({}) /\ UNCHANGED <<ot, granted>> /\ {} \cap AskOps = {}
    BY <1>0, <1>4 DEF T!Payroll, Only, Posted
  <2> QED
    BY <2>1, GrantQuiet
<1> QED
  BY <1>1, <1>2, <1>3, <1>4, StepKinds, GrantStepKeeps

-----------------------------------------------------------------------------
(* The side that rests keeps what it has. *)
LEMMA SideSteps ==
  ASSUME [LeaveStep \/ OvertimeStep \/ OvertimeRests]_<<side, vars, overtimeVars>>
  PROVE  T!Next \/ UNCHANGED overtimeVars
BY DEF LeaveStep, OvertimeStep, OvertimeRests

(* What a request of overtime pays, after the session that recomputes it, stays *)
(* within what the reviewer granted, where that was not zero minutes.           *)
THEOREM GrantsBoundPay == TimeOffSpec => []GrantBoundsPay
<1>1. TimeOffInit => GrantInv
  <2> SUFFICES ASSUME TimeOffInit PROVE GrantInv
    OBVIOUS
  <2>1. /\ ot = [r \in T!Asks |-> None] /\ granted = [r \in T!Asks |-> 0]
        /\ desk = [d \in T!Desks |-> T!NoReq]
    BY DEF TimeOffInit, T!Init
  <2>2. T!Rows(ot) = {} /\ T!With({"APPROVED"}) = {}
    BY <2>1 DEF T!Rows, T!With
  <2>3. 0 \in 0 .. MaxAsks /\ 1 .. 0 = {}
    <3>1. MaxAsks \in Nat
      BY TimeOffAssumption, Zenon DEF T!OvertimeAssumption
    <3> QED
      BY <3>1
  <2>4. desk["employee"].op = "none" /\ desk["reviewer"].op = "none" /\ Posted
    BY <2>1, TwoDesks DEF T!NoReq, Posted
  <2> QED
    BY <2>1, <2>2, <2>3, <2>4 DEF GrantInv
<1>2. GrantInv /\ [LeaveStep \/ OvertimeStep \/ OvertimeRests]_<<side, vars, overtimeVars>> => GrantInv'
  <2> SUFFICES ASSUME GrantInv, UNCHANGED overtimeVars PROVE GrantInv'
    BY SideSteps, GrantStep
  <2>1. Only({}) /\ {} \cap AskOps = {} /\ UNCHANGED <<ot, granted>>
    BY DEF Only, GrantInv, Posted, overtimeVars
  <2> QED
    BY <2>1, GrantQuiet
<1>3. GrantInv => GrantBoundsPay
  BY DEF GrantInv, Granting, GrantBoundsPay, T!GrantBoundsPay
<1> QED
  BY <1>1, <1>2, <1>3, PTL DEF TimeOffSpec

(* A settlement is payroll's exactly when it and both parts of its overtime     *)
(* were reviewed, in whatever order employee, reviewer and payroll come.        *)
THEOREM SettlementsAreReady == TimeOffSpec => []ReadyWhenReviewed
<1>1. TimeOffInit => SettleInv
  <2> SUFFICES ASSUME TimeOffInit PROVE SettleInv
    OBVIOUS
  <2>1. settle = None /\ desk = [d \in T!Desks |-> T!NoReq]
    BY DEF TimeOffInit, T!Init
  <2>2. desk["employee"].op = "none" /\ desk["reviewer"].op = "none" /\ Posted /\ "none" \notin SettleOps
    BY <2>1, TwoDesks DEF T!NoReq, Posted, SettleOps
  <2> QED
    BY <2>1, <2>2 DEF SettleInv, ReadyWhenReviewed, T!ReadyWhenReviewed
<1>2. SettleInv /\ [LeaveStep \/ OvertimeStep \/ OvertimeRests]_<<side, vars, overtimeVars>> => SettleInv'
  <2> SUFFICES ASSUME SettleInv, UNCHANGED overtimeVars PROVE SettleInv'
    BY SideSteps, SettleStep
  <2>1. Only({}) /\ {} \cap SettleOps = {} /\ UNCHANGED settle /\ "none" \notin SettleOps
    BY DEF Only, SettleInv, Posted, overtimeVars, SettleOps
  <2> QED
    BY <2>1, SettleQuiet
<1>3. SettleInv => ReadyWhenReviewed
  BY DEF SettleInv
<1> QED
  BY <1>1, <1>2, <1>3, PTL DEF TimeOffSpec

(* Comp-off that is spent, or waits to be, never exceeds what was credited, and *)
(* the days off that were booked are the ones the balance paid for.            *)
THEOREM BalancesCover == TimeOffSpec => []BalanceCovers
<1>1. TimeOffInit => CompInv
  <2> SUFFICES ASSUME TimeOffInit PROVE CompInv
    OBVIOUS
  <2>1. /\ comp = [credited |-> 0, used |-> 0] /\ alloc = None
        /\ take = [t \in Takes |-> None] /\ booked = {} /\ desk = [d \in T!Desks |-> T!NoReq]
    BY DEF TimeOffInit, T!Init
  <2>2. desk["employee"].op = "none" /\ desk["reviewer"].op = "none" /\ Posted
    BY <2>1, TwoDesks DEF T!NoReq, Posted
  <2>3. T!Rows(take) = {} /\ T!Pending = {}
    BY <2>1 DEF T!Rows, T!Pending
  <2>4. T!DaysOf(T!Pending) = 0 /\ T!DaysOf(booked) = 0
    BY <2>1, <2>3, DaysNone, RedeemedDays
  <2>5. comp.used = 0 /\ comp.credited = 0 /\ comp \in T!CompOffBalance
    BY <2>1 DEF T!CompOffBalance
  <2>6. BalanceCovers
    BY <2>1, <2>3, <2>4, <2>5 DEF BalanceCovers, T!BalanceCovers
  <2> QED
    BY <2>1, <2>2, <2>5, <2>6 DEF CompInv
<1>2. CompInv /\ [LeaveStep \/ OvertimeStep \/ OvertimeRests]_<<side, vars, overtimeVars>> => CompInv'
  <2> SUFFICES ASSUME CompInv, UNCHANGED overtimeVars PROVE CompInv'
    BY SideSteps, CompStep
  <2>1. Only({}) /\ {} \cap ChoiceOps = {} /\ UNCHANGED <<comp, take, booked, alloc>>
    BY DEF Only, CompInv, Posted, overtimeVars
  <2> QED
    BY <2>1, CompQuiet
<1>3. CompInv => BalanceCovers
  BY DEF CompInv
<1> QED
  BY <1>1, <1>2, <1>3, PTL DEF TimeOffSpec

-----------------------------------------------------------------------------
(***************************************************************************)
(* What a balance says, and what its leave requests cost.                    *)
(***************************************************************************)
Of(st, t, y) == {i \in With({st}) : leave[i].type = t /\ YearOf(leave[i].first) = y}
Tally(st, t, y) == DaysIn(leave, Of(st, t, y))

(* The days of leaves, now and after a step. *)
LEMMA LeaveDays ==
  /\ \A S : DaysOf(S) = DaysIn(leave, S)
  /\ \A st, t, y : Tally(st, t, y)' = DaysIn(leave', Of(st, t, y)')
<1>1. \A S : DaysOf(S) = DaysIn(leave, S)
  BY DEF DaysOf, DaysIn
<1>2. \A st, t, y : Tally(st, t, y)' = DaysIn(leave', Of(st, t, y)')
  BY DEF Tally, DaysIn, MapThenSumSet, MapThenFoldSet
<1> QED
  BY <1>1, <1>2

LEMMA OfIs == \A st, t, y :
  /\ \A i : i \in Of(st, t, y) <=> /\ i \in Ids /\ leave[i] # None /\ leave[i].status = st
                                   /\ leave[i].type = t /\ YearOf(leave[i].first) = y
  /\ \A i : i \in Of(st, t, y)' <=> /\ i \in Ids /\ leave'[i] # None /\ leave'[i].status = st
                                    /\ leave'[i].type = t /\ YearOf(leave'[i].first) = y
BY DEF Of, With, Made, YearOf

LEMMA OfCosted ==
  ASSUME leave \in [Ids -> LeaveRows \cup {None}], NEW st, NEW t, NEW y
  PROVE  /\ IsFiniteSet(Of(st, t, y)) /\ Of(st, t, y) \subseteq Ids
         /\ \A i \in Of(st, t, y) : leave[i] \in LeaveRows /\ leave[i].days \in Nat
         /\ Tally(st, t, y) \in Nat
<1>1. Of(st, t, y) \subseteq Ids /\ \A i \in Of(st, t, y) : leave[i] \in LeaveRows
  BY OfIs
<1>2. IsFiniteSet(Of(st, t, y))
  BY <1>1, LeaveAssumption, FS_Subset
<1>3. \A i \in Of(st, t, y) : leave[i].days \in Nat
  BY <1>1 DEF LeaveRows
<1> QED
  BY <1>1, <1>2, <1>3, DaysNat DEF Tally

LEMMA TallySame ==
  ASSUME TypeOK, NEW st, NEW t, NEW y, Of(st, t, y)' = Of(st, t, y),
         \A i \in Of(st, t, y) : leave'[i].days = leave[i].days
  PROVE  Tally(st, t, y)' = Tally(st, t, y)
<1>1. IsFiniteSet(Of(st, t, y)) /\ \A i \in Of(st, t, y) : leave[i].days \in Nat
  BY OfCosted DEF TypeOK
<1>2. DaysIn(leave', Of(st, t, y)) = DaysIn(leave, Of(st, t, y))
  BY <1>1, DaysSame
<1> QED
  BY <1>2, LeaveDays DEF Tally

LEMMA TallyJoined ==
  ASSUME TypeOK, TypeOK', NEW st, NEW t, NEW y, NEW i, i \notin Of(st, t, y), Of(st, t, y)' = Of(st, t, y) \cup {i},
         \A j \in Of(st, t, y) : leave'[j].days = leave[j].days
  PROVE  Tally(st, t, y)' = Tally(st, t, y) + leave'[i].days
<1> DEFINE S == Of(st, t, y)
           U == Of(st, t, y)'
           g == leave'
<1>1. IsFiniteSet(S) /\ \A j \in S : leave[j].days \in Nat
  BY OfCosted DEF TypeOK
<1>2. i \in Ids /\ leave'[i] \in LeaveRows
  <2>1. i \in Of(st, t, y)'
    OBVIOUS
  <2> QED
    BY <2>1, OfIs DEF TypeOK
<1>3. g[i].days \in Nat
  BY <1>2 DEF LeaveRows
<1>4. IsFiniteSet(U) /\ U = S \cup {i} /\ i \notin S /\ \A j \in S : leave[j].days \in Nat /\ g[j].days = leave[j].days
  BY <1>1, FS_AddElement
<1>5. DaysIn(g, U) = DaysIn(leave, S) + g[i].days
  <2> HIDE DEF S, U, g
  <2> QED
    BY <1>3, <1>4, DaysJoined
<1> QED
  BY <1>5, LeaveDays DEF Tally

LEMMA TallyLeft ==
  ASSUME TypeOK, TypeOK', NEW st, NEW t, NEW y, NEW i, i \notin Of(st, t, y)', Of(st, t, y) = Of(st, t, y)' \cup {i},
         \A j \in Of(st, t, y)' : leave'[j].days = leave[j].days
  PROVE  Tally(st, t, y) = Tally(st, t, y)' + leave[i].days
<1> DEFINE S == Of(st, t, y)'
           U == Of(st, t, y)
           f == leave'
<1>1. IsFiniteSet(U) /\ \A j \in U : leave[j].days \in Nat
  BY OfCosted DEF TypeOK
<1>2. leave[i].days \in Nat /\ \A j \in S : f[j].days \in Nat /\ leave[j].days = f[j].days
  BY <1>1
<1>3. U = S \cup {i} /\ i \notin S
  OBVIOUS
<1>4. DaysIn(leave, U) = DaysIn(f, S) + leave[i].days
  <2> HIDE DEF S, U, f
  <2> QED
    BY <1>1, <1>2, <1>3, DaysJoined
<1> QED
  BY <1>4, LeaveDays DEF Tally

(* A row whose status changes moves its days from one tally to another. *)
Mine(i, t, y) == leave[i].type = t /\ YearOf(leave[i].first) = y
Restated(i, st) == leave' = [leave EXCEPT ![i].status = st]
Added(i, row) == leave[i] = None /\ leave' = [leave EXCEPT ![i] = row]

LEMMA StatusTally ==
  ASSUME TypeOK, TypeOK', NEW i \in Ids, leave[i] # None, NEW st \in BLOCKING_STATUSES \cup {"REJECTED"}, leave[i].status # st,
         Restated(i, st), NEW x, NEW t, NEW y
  PROVE  /\ leave[i].days \in Nat /\ Tally(x, t, y) \in Nat /\ Tally(x, t, y)' \in Nat
         /\ ~Mine(i, t, y) \/ x \notin {st, leave[i].status} => Tally(x, t, y)' = Tally(x, t, y)
         /\ Mine(i, t, y) /\ x = st => Tally(x, t, y)' = Tally(x, t, y) + leave[i].days
         /\ Mine(i, t, y) /\ x = leave[i].status => Tally(x, t, y) = Tally(x, t, y)' + leave[i].days
<1> DEFINE r == [leave[i] EXCEPT !.status = st]
<1>1. leave[i] \in LeaveRows /\ leave \in [Ids -> LeaveRows \cup {None}] /\ leave' \in [Ids -> LeaveRows \cup {None}]
  BY DEF TypeOK
<1>2. r \in LeaveRows /\ r.status = st /\ r.first = leave[i].first /\ r.type = leave[i].type /\ r.days = leave[i].days
  BY <1>1 DEF LeaveRows
<1>3. leave' = [leave EXCEPT ![i] = r]
  BY DEF Restated
<1>4. r # None
  BY <1>2, NoRowAssumption
<1> HIDE DEF r
<1>5. leave'[i] = r /\ \A j \in Ids : j # i => leave'[j] = leave[j]
  BY <1>1, <1>3
<1>6. leave[i].days \in Nat
  BY <1>1 DEF LeaveRows
<1>7. Tally(x, t, y) \in Nat /\ Tally(x, t, y)' \in Nat
  <2>1. DaysIn(leave', Of(x, t, y)') \in Nat
    <3> DEFINE g == leave'
               U == Of(x, t, y)'
    <3>1. U \subseteq Ids /\ \A j \in U : g[j] \in LeaveRows
      BY <1>1, OfIs
    <3>2. IsFiniteSet(U) /\ \A j \in U : g[j].days \in Nat
      BY <3>1, LeaveAssumption, FS_Subset DEF LeaveRows
    <3> HIDE DEF g, U
    <3>3. DaysIn(g, U) \in Nat
      BY <3>2, DaysNat
    <3> QED
      BY <3>3 DEF g, U
  <2> QED
    BY <1>1, <2>1, OfCosted, LeaveDays
<1>8. ASSUME NEW j \in Ids PROVE leave[j] # None => leave'[j].days = leave[j].days
  BY <1>2, <1>5
<1>9. ASSUME NEW j PROVE /\ j # i => (j \in Of(x, t, y)' <=> j \in Of(x, t, y))
                         /\ i \in Of(x, t, y) <=> Mine(i, t, y) /\ x = leave[i].status
                         /\ i \in Of(x, t, y)' <=> Mine(i, t, y) /\ x = st
  BY <1>2, <1>4, <1>5, OfIs DEF Mine
<1>10. \A j \in Of(x, t, y) : leave'[j].days = leave[j].days
  BY <1>8, OfIs
<1>11. \A j \in Of(x, t, y)' : leave'[j].days = leave[j].days
  <2>1. ASSUME NEW j \in Of(x, t, y)' PROVE leave'[j].days = leave[j].days
    <3>1. j \in Ids
      BY OfIs
    <3> QED
      BY <1>2, <1>5, <3>1
  <2> QED
    BY <2>1
<1>12. ASSUME ~Mine(i, t, y) \/ x \notin {st, leave[i].status} PROVE Tally(x, t, y)' = Tally(x, t, y)
  <2>1. Of(x, t, y)' = Of(x, t, y)
    BY <1>9, <1>12
  <2> QED
    BY <1>10, <2>1, TallySame
<1>13. ASSUME Mine(i, t, y), x = st PROVE Tally(x, t, y)' = Tally(x, t, y) + leave[i].days
  <2>1. i \notin Of(x, t, y) /\ Of(x, t, y)' = Of(x, t, y) \cup {i}
    BY <1>9, <1>13
  <2>2. Tally(x, t, y)' = Tally(x, t, y) + leave'[i].days
    BY <1>10, <2>1, TallyJoined
  <2> QED
    BY <1>2, <1>5, <2>2
<1>14. ASSUME Mine(i, t, y), x = leave[i].status PROVE Tally(x, t, y) = Tally(x, t, y)' + leave[i].days
  <2>1. i \notin Of(x, t, y)' /\ Of(x, t, y) = Of(x, t, y)' \cup {i}
    BY <1>9, <1>14
  <2> QED
    BY <1>11, <2>1, TallyLeft
<1> QED
  BY <1>6, <1>7, <1>12, <1>13, <1>14

(* A new row adds its days to the pending ones. *)
LEMMA CreateTally ==
  ASSUME TypeOK, TypeOK', NEW i \in Ids, NEW row \in LeaveRows, row.status = "PENDING", Added(i, row), NEW t, NEW y
  PROVE  /\ Tally("APPROVED", t, y)' = Tally("APPROVED", t, y)
         /\ Tally("PENDING", t, y)' = IF row.type = t /\ YearOf(row.first) = y
                                      THEN Tally("PENDING", t, y) + row.days ELSE Tally("PENDING", t, y)
<1>1. leave'[i] = row /\ leave[i] = None /\ \A j \in Ids : j # i => leave'[j] = leave[j]
  BY DEF TypeOK, Added
<1>2. row # None
  BY NoRowAssumption
<1>3. ASSUME NEW x, NEW j PROVE /\ j # i => (j \in Of(x, t, y)' <=> j \in Of(x, t, y))
                                /\ i \notin Of(x, t, y)
                                /\ i \in Of(x, t, y)' <=> x = "PENDING" /\ row.type = t /\ YearOf(row.first) = y
  BY <1>1, <1>2, OfIs
<1>4. \A x : \A j \in Of(x, t, y) : leave'[j].days = leave[j].days
  BY <1>1, OfIs
<1>5. ASSUME NEW x, x # "PENDING" \/ ~(row.type = t /\ YearOf(row.first) = y) PROVE Tally(x, t, y)' = Tally(x, t, y)
  <2>1. \A j : j \in Of(x, t, y)' <=> j \in Of(x, t, y)
    BY <1>3, <1>5
  <2>2. Of(x, t, y)' = Of(x, t, y)
    BY <2>1
  <2> QED
    BY <1>4, <2>2, TallySame
<1>6. ASSUME row.type = t, YearOf(row.first) = y PROVE Tally("PENDING", t, y)' = Tally("PENDING", t, y) + row.days
  <2>1. i \notin Of("PENDING", t, y) /\ Of("PENDING", t, y)' = Of("PENDING", t, y) \cup {i}
    BY <1>3, <1>6
  <2>2. \A j \in Of("PENDING", t, y) : leave'[j].days = leave[j].days
    BY <1>4
  <2>3. Tally("PENDING", t, y)' = Tally("PENDING", t, y) + leave'[i].days
    BY <2>1, <2>2, TallyJoined
  <2> QED
    BY <1>1, <2>3
<1> QED
  BY <1>5, <1>6

LEMMA RestTally ==
  ASSUME UNCHANGED leave, NEW x, NEW t, NEW y PROVE Tally(x, t, y)' = Tally(x, t, y)
<1>1. Of(x, t, y)' = Of(x, t, y)
  BY OfIs
<1> QED
  BY <1>1, LeaveDays DEF Tally

(* What is charged, and to which balance. *)
LEMMA ChargedIs ==
  ASSUME TypeOK, NEW t \in Types, NEW y \in Years, NEW n \in Int, balance' = Charged(t, y, n),
         NEW u \in Types, NEW z \in Years
  PROVE  /\ Used(u, z)' = IF u = t /\ z = y THEN Used(u, z) + n ELSE Used(u, z)
         /\ Allocated(u, z)' = Allocated(u, z)
<1> DEFINE b == [allocated |-> Allocated(t, y), used |-> Used(t, y) + n]
<1>1. b \in BalanceRows
  BY BalanceTyped DEF BalanceRows
<1>2. b # None /\ b.used = Used(t, y) + n /\ b.allocated = Allocated(t, y)
  BY <1>1, NoRowAssumption
<1>3. balance' = [balance EXCEPT ![t] = [balance[t] EXCEPT ![y] = b]]
  BY DEF Charged, TypeOK
<1> HIDE DEF b
<1>4. balance'[t][y] = b /\ (u # t \/ z # y => balance'[u][z] = balance[u][z])
  BY <1>3 DEF TypeOK
<1> QED
  BY <1>2, <1>4 DEF Used, Allocated

(* What a step other than a creation does to a balance and its two tallies:     *)
(* nothing, or a leave of n days is approved and charged, rejected while it      *)
(* waits, or cancelled and credited back, if the year has a balance yet.         *)
Moved(t, y, n) ==
  \/ /\ Used(t, y)' = Used(t, y)
     /\ Tally("APPROVED", t, y)' = Tally("APPROVED", t, y) /\ Tally("PENDING", t, y)' = Tally("PENDING", t, y)
  \/ /\ Used(t, y)' = Used(t, y) + n
     /\ Tally("APPROVED", t, y)' = Tally("APPROVED", t, y) + n /\ Tally("PENDING", t, y) = Tally("PENDING", t, y)' + n
  \/ /\ Used(t, y)' = Used(t, y)
     /\ Tally("APPROVED", t, y)' = Tally("APPROVED", t, y) /\ Tally("PENDING", t, y) = Tally("PENDING", t, y)' + n
  \/ /\ Used(t, y)' = Used(t, y) - n \/ (Used(t, y) = 0 /\ Used(t, y)' = 0)
     /\ Tally("APPROVED", t, y) = Tally("APPROVED", t, y)' + n /\ Tally("PENDING", t, y)' = Tally("PENDING", t, y)

LEMMA TalliesTyped ==
  ASSUME TypeOK, TypeOK', NEW st, NEW t, NEW y
  PROVE  Tally(st, t, y) \in Nat /\ Tally(st, t, y)' \in Nat
<1>1. Tally(st, t, y) \in Nat
  BY OfCosted DEF TypeOK
<1> DEFINE g == leave'
           U == Of(st, t, y)'
<1>2. U \subseteq Ids /\ \A j \in U : g[j] \in LeaveRows
  BY OfIs DEF TypeOK
<1>3. IsFiniteSet(U) /\ \A j \in U : g[j].days \in Nat
  BY <1>2, LeaveAssumption, FS_Subset DEF LeaveRows
<1> HIDE DEF g, U
<1>4. DaysIn(g, U) \in Nat
  BY <1>3, DaysNat
<1>5. Tally(st, t, y)' \in Nat
  BY <1>4, LeaveDays DEF g, U
<1> QED
  BY <1>1, <1>5

LEMMA BalanceRests ==
  ASSUME UNCHANGED balance, NEW t, NEW y
  PROVE  Used(t, y)' = Used(t, y) /\ Allocated(t, y)' = Allocated(t, y)
BY DEF Used, Allocated, daysAllowed

LEMMA Effects ==
  ASSUME Races = {}, MarkInv, MarkInv', [Next]_vars, \A s \in Slots : ~CreateCommits(s), NEW t \in Paid, NEW y \in Years
  PROVE  \E n \in Nat : Moved(t, y, n)
<1>0. TypeOK /\ TypeOK' /\ TypeInv /\ DecidedExists /\ t \in Types /\ 0 \in Nat
  BY DEF MarkInv, TypeInv, Paid
<1>1. ASSUME UNCHANGED leave, Used(t, y)' = Used(t, y) PROVE Moved(t, y, 0)
  BY <1>1, RestTally DEF Moved
<1>2. ASSUME UNCHANGED <<leave, balance>> PROVE Moved(t, y, 0)
  BY <1>1, <1>2, BalanceRests
<1>3. ASSUME NEW z \in Years, getLeaveBalances(z) PROVE Moved(t, y, 0)
  <2> DEFINE b == [allocated |-> Allocated(t, z), used |-> Used(t, z)]
  <2>1. b \in BalanceRows
    BY <1>0, BalanceTyped DEF BalanceRows
  <2>2. b # None /\ b.used = Used(t, z)
    BY <2>1, NoRowAssumption
  <2>3. balance'[t] = [balance[t] EXCEPT ![z] = b] /\ UNCHANGED leave
    BY <1>0, <1>3 DEF getLeaveBalances
  <2> HIDE DEF b
  <2>4. balance'[t][y] = IF y = z THEN b ELSE balance[t][y]
    BY <1>0, <2>3 DEF TypeOK
  <2>5. Used(t, y)' = Used(t, y)
    BY <2>2, <2>4 DEF Used
  <2> QED
    BY <1>1, <2>3, <2>5
<1>4. ASSUME NEW s \in Slots, CarryCommits(s) PROVE Moved(t, y, 0)
  <2> DEFINE b == [allocated |-> req[s].allocated[t], used |-> Used(t, 2)]
  <2>1. req[s].allocated \in [Paid -> Nat]
    BY <1>0, <1>4, RequestCases DEF CarryCommits, InFlight
  <2>2. b \in BalanceRows
    BY <1>0, <2>1, BalanceTyped DEF BalanceRows, Years
  <2>3. b # None /\ b.used = Used(t, 2)
    BY <2>2, NoRowAssumption
  <2>4. balance'[t] = [balance[t] EXCEPT ![2] = b] /\ UNCHANGED leave
    BY <1>0, <1>4 DEF CarryCommits
  <2> HIDE DEF b
  <2>5. balance'[t][y] = IF y = 2 THEN b ELSE balance[t][y]
    BY <1>0, <2>4 DEF TypeOK, Years
  <2>6. Used(t, y)' = Used(t, y)
    BY <2>3, <2>5 DEF Used
  <2> QED
    BY <1>1, <2>4, <2>6
<1>5. ASSUME NEW i \in Ids, leave[i] # None, leave[i].status = "PENDING", UNCHANGED balance,
             Restated(i, "REJECTED")
      PROVE  \E n \in Nat : Moved(t, y, n)
  <2>1. /\ leave[i].days \in Nat
        /\ Tally("APPROVED", t, y)' = Tally("APPROVED", t, y)
        /\ ~Mine(i, t, y) => Tally("PENDING", t, y)' = Tally("PENDING", t, y)
        /\ Mine(i, t, y) => Tally("PENDING", t, y) = Tally("PENDING", t, y)' + leave[i].days
    BY <1>0, <1>5, StatusTally
  <2>2. Used(t, y)' = Used(t, y)
    BY <1>5, BalanceRests
  <2>3. Moved(t, y, leave[i].days)
    BY <2>1, <2>2 DEF Moved
  <2> QED
    BY <2>1, <2>3
<1>6. ASSUME NEW s \in Slots, ReviewClaims(s) PROVE \E n \in Nat : Moved(t, y, n)
  <2>0. PICK i : i = req[s].id
    OBVIOUS
  <2>1. req[s] # None /\ req[s].op = "review" /\ UNCHANGED balance
    BY <1>6 DEF ReviewClaims, InFlight
  <2>2. i \in Ids /\ leave[i] # None
    BY <1>0, <2>0, <2>1, RequestCases DEF DecidedExists, DecisionOps
  <2>3. UNCHANGED leave \/ (leave[i].status = "PENDING" /\ Restated(i, "REJECTED"))
    BY <1>6, <2>0 DEF ReviewClaims, Claimed, Restated
  <2> QED
    BY <1>0, <1>2, <1>5, <2>1, <2>2, <2>3
<1>7. ASSUME NEW s \in Slots, ApproveCommits(s) PROVE \E n \in Nat : Moved(t, y, n)
  <2>0. PICK i : i = req[s].id
    OBVIOUS
  <2>1. Is(s, "approve")
    BY <1>7 DEF ApproveCommits, InFlight, Is
  <2>2. i \in Ids /\ leave[i] # None
    BY <1>0, <2>0, <2>1, RequestCases DEF DecidedExists, DecisionOps, Is
  <2>3. leave[i].status = "PENDING" /\ leave[i] \in LeaveRows
    BY <1>0, <2>0, <2>1, <2>2 DEF MarkInv, ApproveHolds, TypeOK
  <2>4. leave[i].type \in Types /\ leave[i].first \in Days /\ leave[i].days \in Int
    BY <2>3 DEF LeaveRows
  <2>5. Restated(i, "APPROVED")
    BY <1>7, <2>0 DEF ApproveCommits, Restated
  <2>6. balance' = IF leave[i].type \in Paid THEN Charged(leave[i].type, YearOf(leave[i].first), leave[i].days) ELSE balance
    BY <1>7, <2>0 DEF ApproveCommits
  <2>7. "APPROVED" \in BLOCKING_STATUSES
    BY DEF BLOCKING_STATUSES
  <2>8. /\ leave[i].days \in Nat
        /\ Mine(i, t, y) => /\ Tally("APPROVED", t, y)' = Tally("APPROVED", t, y) + leave[i].days
                            /\ Tally("PENDING", t, y) = Tally("PENDING", t, y)' + leave[i].days
        /\ ~Mine(i, t, y) => /\ Tally("APPROVED", t, y)' = Tally("APPROVED", t, y)
                             /\ Tally("PENDING", t, y)' = Tally("PENDING", t, y)
    BY <1>0, <2>2, <2>3, <2>5, <2>7, StatusTally
  <2>9. Mine(i, t, y) => Used(t, y)' = Used(t, y) + leave[i].days
    <3>1. Mine(i, t, y) => balance' = Charged(t, y, leave[i].days)
      BY <2>6 DEF Mine
    <3> QED
      BY <1>0, <2>4, <3>1, ChargedIs
  <2>10. ~Mine(i, t, y) => Used(t, y)' = Used(t, y)
    <3>1. CASE leave[i].type \in Paid
      <4>1. YearOf(leave[i].first) \in Years /\ balance' = Charged(leave[i].type, YearOf(leave[i].first), leave[i].days)
        BY <2>4, <2>6, <3>1, YearTyped
      <4> QED
        BY <1>0, <2>4, <4>1, ChargedIs DEF Mine
    <3>2. CASE leave[i].type \notin Paid
      BY <2>6, <3>2, BalanceRests
    <3> QED
      BY <3>1, <3>2
  <2>11. Moved(t, y, leave[i].days)
    BY <2>8, <2>9, <2>10 DEF Moved
  <2> QED
    BY <2>8, <2>11
<1>8. ASSUME NEW s \in Slots, CancelCommits(s) PROVE \E n \in Nat : Moved(t, y, n)
  <2>0. PICK i : i = req[s].id
    OBVIOUS
  <2>1. Is(s, "cancel")
    BY <1>8 DEF CancelCommits, InFlight, Is
  <2>2. i \in Ids /\ leave[i] # None
    BY <1>0, <2>0, <2>1, RequestCases DEF DecidedExists, DecisionOps, Is
  <2>3. leave[i].status = req[s].was /\ req[s].was \in {"PENDING", "APPROVED"} /\ leave[i] \in LeaveRows
    <3>1. leave[i].status = req[s].was
      BY <2>0, <2>1 DEF MarkInv, CancelAlone
    <3>2. req[s].was \in {"PENDING", "APPROVED"}
      BY <1>0, <2>1, RequestCases DEF Is, BLOCKING_STATUSES
    <3>3. leave[i] \in LeaveRows
      BY <1>0, <2>2 DEF TypeOK
    <3> QED
      BY <3>1, <3>2, <3>3
  <2>4. leave[i].type \in Types /\ leave[i].first \in Days /\ leave[i].days \in Int /\ -leave[i].days \in Int
    BY <2>3 DEF LeaveRows
  <2>5. Restated(i, "REJECTED")
    BY <1>8, <2>0 DEF CancelCommits, Restated
  <2>6. CASE req[s].was = "PENDING"
    <3>1. UNCHANGED balance
      BY <1>8, <2>6 DEF CancelCommits
    <3> QED
      BY <1>5, <2>2, <2>3, <2>5, <2>6, <3>1
  <2>7. CASE req[s].was = "APPROVED"
    <3>1. balance' = IF leave[i].type \in Paid /\ balance[leave[i].type][YearOf(leave[i].first)] # None
                     THEN Charged(leave[i].type, YearOf(leave[i].first), -leave[i].days) ELSE balance
      BY <1>8, <2>0, <2>7 DEF CancelCommits
    <3>2. /\ leave[i].days \in Nat
          /\ Tally("PENDING", t, y)' = Tally("PENDING", t, y)
          /\ Mine(i, t, y) => Tally("APPROVED", t, y) = Tally("APPROVED", t, y)' + leave[i].days
          /\ ~Mine(i, t, y) => Tally("APPROVED", t, y)' = Tally("APPROVED", t, y)
      BY <1>0, <2>2, <2>3, <2>5, <2>7, StatusTally
    <3>3. ASSUME Mine(i, t, y) PROVE Used(t, y)' = Used(t, y) - leave[i].days \/ (Used(t, y) = 0 /\ Used(t, y)' = 0)
      <4>1. CASE balance[t][y] # None
        <5>1. balance' = Charged(t, y, -leave[i].days)
          BY <3>1, <3>3, <4>1 DEF Mine
        <5>2. Used(t, y)' = Used(t, y) + (-leave[i].days) /\ Used(t, y) \in Int
          BY <1>0, <2>4, <5>1, ChargedIs, BalanceTyped
        <5> QED
          BY <2>4, <5>2
      <4>2. CASE balance[t][y] = None
        <5>1. UNCHANGED balance
          BY <3>1, <3>3, <4>2 DEF Mine
        <5> QED
          BY <4>2, <5>1 DEF Used
      <4> QED
        BY <4>1, <4>2
    <3>4. ASSUME ~Mine(i, t, y) PROVE Used(t, y)' = Used(t, y)
      <4>1. CASE UNCHANGED balance
        BY <4>1, BalanceRests
      <4>2. CASE balance' = Charged(leave[i].type, YearOf(leave[i].first), -leave[i].days)
        <5>1. YearOf(leave[i].first) \in Years
          BY <2>4, YearTyped
        <5> QED
          BY <1>0, <2>4, <3>4, <4>2, <5>1, ChargedIs DEF Mine
      <4> QED
        BY <3>1, <4>1, <4>2
    <3>5. Moved(t, y, leave[i].days)
      BY <3>2, <3>3, <3>4 DEF Moved
    <3> QED
      BY <3>2, <3>5
  <2> QED
    BY <2>3, <2>6, <2>7
<1>9. ASSUME NEW s \in Slots,
             \/ \E u \in Types, first, last, days \in Days : CreateChecks(s, u, first, last, days)
             \/ \E i \in Ids, status \in {"APPROVED", "REJECTED"} : ReviewChecks(s, i, status)
             \/ \E i \in Ids, isAdmin \in BOOLEAN : CancelChecks(s, i, isAdmin)
             \/ CarryReads(s)
             \/ \E onBehalf \in BOOLEAN : PunchChecks(s, onBehalf)
             \/ PunchCommits(s)
      PROVE  UNCHANGED <<leave, balance>>
  <2>1. ASSUME NEW u, NEW first, NEW last, NEW days, CreateChecks(s, u, first, last, days)
        PROVE  UNCHANGED <<leave, balance>>
    BY <2>1 DEF CreateChecks
  <2>2. ASSUME NEW i, NEW status, ReviewChecks(s, i, status) PROVE UNCHANGED <<leave, balance>>
    BY <2>2 DEF ReviewChecks
  <2>3. ASSUME NEW i, NEW isAdmin, CancelChecks(s, i, isAdmin) PROVE UNCHANGED <<leave, balance>>
    BY <2>3 DEF CancelChecks
  <2>4. ASSUME NEW onBehalf, PunchChecks(s, onBehalf) PROVE UNCHANGED <<leave, balance>>
    BY <2>4 DEF PunchChecks
  <2>5. ASSUME CarryReads(s) \/ PunchCommits(s) PROVE UNCHANGED <<leave, balance>>
    BY <2>5 DEF CarryReads, PunchCommits
  <2> QED
    BY <1>9, <2>1, <2>2, <2>3, <2>4, <2>5
<1>10. CASE DayPasses \/ UNCHANGED vars
  <2>1. UNCHANGED <<leave, balance>>
    BY <1>10 DEF DayPasses, vars
  <2> QED
    BY <1>0, <1>2, <2>1
<1> QED
  BY <1>0, <1>2, <1>3, <1>4, <1>6, <1>7, <1>8, <1>9, <1>10 DEF Next

(* A creation. *)
LEMMA CreateEffects ==
  ASSUME MarkInv, MarkInv', NEW s \in Slots, CreateCommits(s), NEW t \in Paid, NEW y \in Years
  PROVE  /\ Is(s, "create") /\ req[s].row \in LeaveRows
         /\ Used(t, y)' = Used(t, y) /\ Allocated(t, y)' = Allocated(t, y)
         /\ Tally("APPROVED", t, y)' = Tally("APPROVED", t, y)
         /\ Tally("PENDING", t, y)' = IF req[s].row.type = t /\ YearOf(req[s].row.first) = y
                                      THEN Tally("PENDING", t, y) + req[s].row.days ELSE Tally("PENDING", t, y)
<1>1. TypeOK /\ TypeOK'
  BY DEF MarkInv, TypeInv
<1>2. PICK row : row = req[s].row
  OBVIOUS
<1>3. Is(s, "create") /\ UNCHANGED balance
  BY DEF CreateCommits, InFlight, Is
<1>4. row \in LeaveRows /\ row.status = "PENDING"
  BY <1>1, <1>2, <1>3, RequestCases DEF Is
<1>5. PICK i \in Ids : Added(i, row)
  BY <1>2 DEF CreateCommits, Added, Made
<1>6. /\ Tally("APPROVED", t, y)' = Tally("APPROVED", t, y)
      /\ Tally("PENDING", t, y)' = IF row.type = t /\ YearOf(row.first) = y
                                   THEN Tally("PENDING", t, y) + row.days ELSE Tally("PENDING", t, y)
  BY <1>1, <1>4, <1>5, CreateTally
<1> QED
  BY <1>2, <1>3, <1>4, <1>6, BalanceRests

Charges == \A t \in Paid, y \in Years : Used(t, y) = Tally("APPROVED", t, y)

BillInv == MarkInv /\ Charges

LEMMA BillStep ==
  ASSUME Races = {}, BillInv, [Next]_vars PROVE BillInv'
<1>1. MarkInv /\ MarkInv'
  BY MarkStep DEF BillInv
<1>2. ASSUME NEW t \in Paid, NEW y \in Years PROVE Used(t, y)' = Tally("APPROVED", t, y)'
  <2>1. /\ Tally("APPROVED", t, y) \in Nat /\ Tally("APPROVED", t, y)' \in Nat
        /\ Used(t, y) = Tally("APPROVED", t, y)
    BY <1>1, TalliesTyped DEF MarkInv, TypeInv, BillInv, Charges
  <2>2. CASE \E s \in Slots : CreateCommits(s)
    BY <1>1, <2>1, <2>2, CreateEffects
  <2>3. CASE \A s \in Slots : ~CreateCommits(s)
    <3>1. PICK n \in Nat : Moved(t, y, n)
      BY <1>1, <2>3, Effects
    <3> QED
      BY <2>1, <3>1 DEF Moved
  <2> QED
    BY <2>2, <2>3
<1>3. Charges'
  BY <1>2 DEF Charges
<1> QED
  BY <1>1, <1>3 DEF BillInv

(* Unless two creations overlap, or a cancellation and another decision of    *)
(* one request: what a balance has used is what its approved leaves cost.     *)
THEOREM RequestsAreCharged ==
  ASSUME Races = {} PROVE Spec => []BalanceMatchesRequests
<1>1. Init => BillInv
  <2> SUFFICES ASSUME Init PROVE BillInv
    OBVIOUS
  <2>1. ASSUME NEW t \in Paid, NEW y \in Years PROVE Used(t, y) = Tally("APPROVED", t, y)
    <3>1. balance[t][y] = None /\ \A i \in Ids : leave[i] = None
      BY <2>1 DEF Init, Paid
    <3>2. \A i : i \notin Of("APPROVED", t, y)
      BY <3>1, OfIs
    <3>3. Of("APPROVED", t, y) = {}
      BY <3>2
    <3> QED
      BY <3>1, <3>3, DaysNone DEF Tally, Used
  <2> QED
    BY <2>1, MarkInit DEF BillInv, Charges
<1>2. BillInv /\ [Next]_vars => BillInv'
  BY BillStep
<1>3. BillInv => BalanceMatchesRequests
  <2> SUFFICES ASSUME BillInv, NEW t \in Paid, NEW y \in Years
               PROVE  Used(t, y) = DaysOf({i \in With({"APPROVED"}) : leave[i].type = t /\ YearOf(leave[i].first) = y})
    BY DEF BalanceMatchesRequests
  <2>1. Used(t, y) = DaysIn(leave, Of("APPROVED", t, y))
    BY DEF BillInv, Charges, Tally
  <2> QED
    BY <2>1, LeaveDays DEF Of
<1> QED
  BY <1>1, <1>2, <1>3, PTL DEF Spec

-----------------------------------------------------------------------------
(***************************************************************************)
(* Why requests that are approved never exceed an allowance: what is used    *)
(* and what waits together stay within it, with room for the one creation    *)
(* in flight.  A leave counts in the year it starts in, so none may span      *)
(* years; and the first carry-forward never takes days back.                *)
(***************************************************************************)
Counted == Paid \ {OT_LEAVE_CODE}
Held(t, y) == Used(t, y) + Tally("PENDING", t, y)

SameYear ==
  /\ \A i \in Ids : leave[i] # None => YearOf(leave[i].first) = YearOf(leave[i].last)
  /\ \A s \in Slots : Is(s, "create") => YearOf(req[s].row.first) = YearOf(req[s].row.last)

Room == carried <= 1 =>
  /\ \A t \in Counted, y \in Years : Held(t, y) <= Allocated(t, y)
  /\ \A s \in Slots, t \in Counted, y \in Years :
        Is(s, "create") /\ req[s].row.type = t /\ YearOf(req[s].row.first) = y
        => Held(t, y) + req[s].row.days <= Allocated(t, y)

CarriedOnce == carried <= 1 =>
  /\ \A s \in Slots : Is(s, "carry") =>
        /\ carried = 1 /\ \A t \in Paid : req[s].allocated[t] >= daysAllowed(t)
        /\ \A x \in Slots : Is(x, "carry") => x = s
  /\ carried = 0 \/ (\E s \in Slots : Is(s, "carry")) => \A t \in Paid : Allocated(t, 2) = daysAllowed(t)

AllocInv == MarkInv /\ SameYear /\ Room /\ CarriedOnce

(* Only checks and a carry's reads put a creation or a carry in flight.       *)
LEMMA NewWaits ==
  ASSUME TypeOK, [Next]_vars, NEW s \in Slots, NEW op \in {"create", "carry"}, Is(s, op)'
  PROVE  \/ Is(s, op) /\ req'[s] = req[s]
         \/ op = "create" /\ \E t \in Types, first, last, days \in Days : CreateChecks(s, t, first, last, days)
         \/ op = "carry" /\ CarryReads(s)
<1>1. ASSUME req'[s] = req[s] PROVE Is(s, op)
  BY <1>1 DEF Is
<1>2. ASSUME NEW x \in Slots, Done(x) PROVE req'[s] = req[s]
  BY <1>2, DoneSlot DEF Is
<1>3. ASSUME NEW x \in Slots, NEW r, Waits(x, r) PROVE (s = x /\ req'[s] = r) \/ req'[s] = req[s]
  BY <1>3 DEF Waits, TypeOK
<1>4. ASSUME UNCHANGED req PROVE req'[s] = req[s]
  BY <1>4
<1>5. ASSUME NEW x \in Slots, NEW t \in Types, NEW first \in Days, NEW last \in Days, NEW days \in Days,
             CreateChecks(x, t, first, last, days)
      PROVE  req'[s] = req[s] \/ (op = "create" /\ CreateChecks(s, t, first, last, days))
  <2>1. PICK r : r = [op |-> "create", row |-> [type |-> t, first |-> first, last |-> last, days |-> days, status |-> "PENDING"]]
    OBVIOUS
  <2>2. Waits(x, r) /\ r.op = "create"
    BY <1>5, <2>1 DEF CreateChecks
  <2> QED
    BY <1>3, <1>5, <2>2 DEF Is
<1>6. ASSUME NEW x \in Slots, NEW i \in Ids, NEW status, ReviewChecks(x, i, status) PROVE req'[s] = req[s]
  <2>1. PICK r : r = [op |-> "review", id |-> i, status |-> status]
    OBVIOUS
  <2>2. Waits(x, r) /\ r.op = "review"
    BY <1>6, <2>1 DEF ReviewChecks
  <2> QED
    BY <1>3, <2>2 DEF Is
<1>7. ASSUME NEW x \in Slots, ReviewClaims(x) PROVE req'[s] = req[s]
  <2>1. PICK r : r = [op |-> "approve", id |-> req[x].id, free |-> {d \in classifyRangeDays(leave[req[x].id].first, leave[req[x].id].last) :
                        ~day[d].checkIn /\ day[d].status # "PRESENT"}]
    OBVIOUS
  <2>2. req' = [req EXCEPT ![x] = r] \/ Done(x)
    BY <1>7, <2>1 DEF ReviewClaims
  <2>3. r.op = "approve"
    BY <2>1
  <2>4. CASE req' = [req EXCEPT ![x] = r]
    BY <2>3, <2>4 DEF Is, TypeOK
  <2> QED
    BY <1>2, <2>2, <2>4
<1>8. ASSUME NEW x \in Slots, NEW i \in Ids, NEW isAdmin, CancelChecks(x, i, isAdmin) PROVE req'[s] = req[s]
  <2>1. PICK r : r = [op |-> "cancel", id |-> i, was |-> leave[i].status]
    OBVIOUS
  <2>2. Waits(x, r) /\ r.op = "cancel"
    BY <1>8, <2>1 DEF CancelChecks
  <2> QED
    BY <1>3, <2>2 DEF Is
<1>9. ASSUME NEW x \in Slots, CarryReads(x) PROVE req'[s] = req[s] \/ (op = "carry" /\ CarryReads(s))
  <2>1. PICK r : r = [op |-> "carry", allocated |-> [t \in Paid |-> NextYear(t)]]
    OBVIOUS
  <2>2. Waits(x, r) /\ r.op = "carry"
    BY <1>9, <2>1 DEF CarryReads
  <2> QED
    BY <1>3, <1>9, <2>2 DEF Is
<1>10. ASSUME NEW x \in Slots, NEW onBehalf, PunchChecks(x, onBehalf) PROVE req'[s] = req[s]
  <2>1. PICK r : r = [op |-> "punch", date |-> today]
    OBVIOUS
  <2>2. Waits(x, r) /\ r.op = "punch"
    BY <1>10, <2>1 DEF PunchChecks
  <2> QED
    BY <1>3, <2>2 DEF Is
<1>11. ASSUME NEW x \in Slots, CreateCommits(x) \/ ApproveCommits(x) \/ CancelCommits(x) \/ CarryCommits(x) \/ PunchCommits(x)
       PROVE  req'[s] = req[s]
  BY <1>2, <1>11 DEF CreateCommits, ApproveCommits, CancelCommits, CarryCommits, PunchCommits
<1>12. ASSUME NEW y, getLeaveBalances(y) PROVE req'[s] = req[s]
  BY <1>4, <1>12 DEF getLeaveBalances
<1>13. ASSUME DayPasses \/ UNCHANGED vars PROVE req'[s] = req[s]
  BY <1>4, <1>13 DEF DayPasses, vars
<1> QED
  BY <1>1, <1>5, <1>6, <1>7, <1>8, <1>9, <1>10, <1>11, <1>12, <1>13 DEF Next

(* An allowance only changes when a carry commits. *)
LEMMA AllocatedMoves ==
  ASSUME MarkInv, [Next]_vars, NEW t \in Paid, NEW y \in Years
  PROVE  \/ Allocated(t, y)' = Allocated(t, y)
         \/ \E s \in Slots : CarryCommits(s) /\ y = 2 /\ Allocated(t, y)' = req[s].allocated[t]
<1>0. TypeOK /\ TypeInv /\ DecidedExists /\ t \in Types
  BY DEF MarkInv, TypeInv, Paid
<1>1. ASSUME UNCHANGED balance PROVE Allocated(t, y)' = Allocated(t, y)
  BY <1>1, BalanceRests
<1>2. ASSUME NEW u \in Types, NEW z \in Years, NEW n \in Int, balance' = Charged(u, z, n)
      PROVE  Allocated(t, y)' = Allocated(t, y)
  BY <1>0, <1>2, ChargedIs
<1>3. ASSUME NEW z \in Years, getLeaveBalances(z) PROVE Allocated(t, y)' = Allocated(t, y)
  <2> DEFINE b == [allocated |-> Allocated(t, z), used |-> Used(t, z)]
  <2>1. b \in BalanceRows
    BY <1>0, BalanceTyped DEF BalanceRows
  <2>2. b # None /\ b.allocated = Allocated(t, z)
    BY <2>1, NoRowAssumption
  <2>3. balance'[t] = [balance[t] EXCEPT ![z] = b]
    BY <1>0, <1>3 DEF getLeaveBalances
  <2> HIDE DEF b
  <2>4. balance'[t][y] = IF y = z THEN b ELSE balance[t][y]
    BY <1>0, <2>3 DEF TypeOK
  <2> QED
    BY <2>2, <2>4 DEF Allocated
<1>4. ASSUME NEW s \in Slots, CarryCommits(s)
      PROVE  Allocated(t, y)' = Allocated(t, y) \/ (y = 2 /\ Allocated(t, y)' = req[s].allocated[t])
  <2> DEFINE b == [allocated |-> req[s].allocated[t], used |-> Used(t, 2)]
  <2>1. req[s].allocated \in [Paid -> Nat]
    BY <1>0, <1>4, RequestCases DEF CarryCommits, InFlight
  <2>2. b \in BalanceRows
    BY <1>0, <2>1, BalanceTyped DEF BalanceRows, Years
  <2>3. b # None /\ b.allocated = req[s].allocated[t]
    BY <2>2, NoRowAssumption
  <2>4. balance'[t] = [balance[t] EXCEPT ![2] = b]
    BY <1>0, <1>4 DEF CarryCommits
  <2> HIDE DEF b
  <2>5. balance'[t][y] = IF y = 2 THEN b ELSE balance[t][y]
    BY <1>0, <2>4 DEF TypeOK, Years
  <2> QED
    BY <2>3, <2>5 DEF Allocated
<1>5. ASSUME NEW s \in Slots, ApproveCommits(s) \/ CancelCommits(s) PROVE Allocated(t, y)' = Allocated(t, y)
  <2>0. PICK i : i = req[s].id
    OBVIOUS
  <2>1. Is(s, "approve") \/ Is(s, "cancel")
    BY <1>5 DEF ApproveCommits, CancelCommits, InFlight, Is
  <2>2. i \in Ids /\ leave[i] # None
    BY <1>0, <2>0, <2>1, RequestCases DEF DecidedExists, DecisionOps, Is
  <2>3. leave[i] \in LeaveRows
    BY <1>0, <2>2 DEF TypeOK
  <2>4. leave[i].type \in Types /\ leave[i].first \in Days /\ leave[i].days \in Int /\ -leave[i].days \in Int
    BY <2>3 DEF LeaveRows
  <2>5. YearOf(leave[i].first) \in Years
    BY <2>4, YearTyped
  <2>6. CASE ApproveCommits(s)
    <3>1. UNCHANGED balance \/ balance' = Charged(leave[i].type, YearOf(leave[i].first), leave[i].days)
      BY <2>0, <2>6 DEF ApproveCommits
    <3> QED
      BY <1>1, <1>2, <2>4, <2>5, <3>1
  <2>7. CASE CancelCommits(s)
    <3>1. UNCHANGED balance \/ balance' = Charged(leave[i].type, YearOf(leave[i].first), -leave[i].days)
      BY <2>0, <2>7 DEF CancelCommits
    <3> QED
      BY <1>1, <1>2, <2>4, <2>5, <3>1
  <2> QED
    BY <1>5, <2>6, <2>7
<1>6. ASSUME NEW s \in Slots,
             \/ \E u \in Types, first, last, days \in Days : CreateChecks(s, u, first, last, days)
             \/ CreateCommits(s)
             \/ \E i \in Ids, status \in {"APPROVED", "REJECTED"} : ReviewChecks(s, i, status)
             \/ ReviewClaims(s)
             \/ \E i \in Ids, isAdmin \in BOOLEAN : CancelChecks(s, i, isAdmin)
             \/ CarryReads(s)
             \/ \E onBehalf \in BOOLEAN : PunchChecks(s, onBehalf)
             \/ PunchCommits(s)
      PROVE  UNCHANGED balance
  <2>1. ASSUME NEW u, NEW first, NEW last, NEW days, CreateChecks(s, u, first, last, days) PROVE UNCHANGED balance
    BY <2>1 DEF CreateChecks
  <2>2. ASSUME NEW i, NEW status, ReviewChecks(s, i, status) PROVE UNCHANGED balance
    BY <2>2 DEF ReviewChecks
  <2>3. ASSUME NEW i, NEW isAdmin, CancelChecks(s, i, isAdmin) PROVE UNCHANGED balance
    BY <2>3 DEF CancelChecks
  <2>4. ASSUME NEW onBehalf, PunchChecks(s, onBehalf) PROVE UNCHANGED balance
    BY <2>4 DEF PunchChecks
  <2>5. ASSUME CreateCommits(s) \/ ReviewClaims(s) \/ CarryReads(s) \/ PunchCommits(s) PROVE UNCHANGED balance
    BY <2>5 DEF CreateCommits, ReviewClaims, CarryReads, PunchCommits
  <2> QED
    BY <1>6, <2>1, <2>2, <2>3, <2>4, <2>5
<1>7. ASSUME DayPasses \/ UNCHANGED vars PROVE UNCHANGED balance
  BY <1>7 DEF DayPasses, vars
<1> QED
  BY <1>1, <1>3, <1>4, <1>5, <1>6, <1>7 DEF Next

LEMMA CarriedMoves ==
  ASSUME TypeOK, [Next]_vars
  PROVE  /\ carried \in Nat
         /\ carried' = carried \/ (carried' = carried + 1 /\ \E s \in Slots : CarryReads(s))
         /\ \A s \in Slots : CarryReads(s) => carried' = carried + 1
<1>1. carried \in Nat
  BY LeaveAssumption DEF TypeOK
<1>2. ASSUME NEW s \in Slots, CarryReads(s) PROVE carried' = carried + 1
  BY <1>2 DEF CarryReads
<1>3. ASSUME NEW s \in Slots,
             \/ \E u \in Types, first, last, days \in Days : CreateChecks(s, u, first, last, days)
             \/ CreateCommits(s)
             \/ \E i \in Ids, status \in {"APPROVED", "REJECTED"} : ReviewChecks(s, i, status)
             \/ ReviewClaims(s) \/ ApproveCommits(s)
             \/ \E i \in Ids, isAdmin \in BOOLEAN : CancelChecks(s, i, isAdmin)
             \/ CancelCommits(s) \/ CarryCommits(s)
             \/ \E onBehalf \in BOOLEAN : PunchChecks(s, onBehalf)
             \/ PunchCommits(s)
      PROVE  carried' = carried
  <2>1. ASSUME NEW u, NEW first, NEW last, NEW days, CreateChecks(s, u, first, last, days) PROVE carried' = carried
    BY <2>1 DEF CreateChecks
  <2>2. ASSUME NEW i, NEW status, ReviewChecks(s, i, status) PROVE carried' = carried
    BY <2>2 DEF ReviewChecks
  <2>3. ASSUME NEW i, NEW isAdmin, CancelChecks(s, i, isAdmin) PROVE carried' = carried
    BY <2>3 DEF CancelChecks
  <2>4. ASSUME NEW onBehalf, PunchChecks(s, onBehalf) PROVE carried' = carried
    BY <2>4 DEF PunchChecks
  <2>5. ASSUME CreateCommits(s) \/ ReviewClaims(s) \/ ApproveCommits(s) \/ CancelCommits(s) \/ CarryCommits(s) \/ PunchCommits(s)
        PROVE  carried' = carried
    BY <2>5 DEF CreateCommits, ReviewClaims, ApproveCommits, CancelCommits, CarryCommits, PunchCommits
  <2> QED
    BY <1>3, <2>1, <2>2, <2>3, <2>4, <2>5
<1>4. ASSUME DayPasses \/ UNCHANGED vars \/ \E y \in Years : getLeaveBalances(y) PROVE carried' = carried
  BY <1>4 DEF DayPasses, vars, getLeaveBalances
<1> QED
  BY <1>1, <1>2, <1>3, <1>4 DEF Next

LEMMA NextYearEnough ==
  ASSUME TypeOK, NEW t \in Paid PROVE NextYear(t) \in Nat /\ NextYear(t) >= daysAllowed(t)
<1>1. balance[t][1] \in BalanceRows \cup {None}
  BY DEF TypeOK, Paid, Years
<1>2. Unused(t) \in Nat
  BY <1>1 DEF Unused, BalanceRows
<1>3. daysAllowed(t) \in Nat
  BY LeaveAssumption DEF daysAllowed
<1>4. Least(Unused(t), CarryCap) \in Nat
  BY <1>2, LeaveAssumption DEF Least
<1> QED
  BY <1>3, <1>4 DEF NextYear

LEMMA CarriedOnceStep ==
  ASSUME MarkInv, CarriedOnce, [Next]_vars PROVE CarriedOnce'
<1>0. TypeOK
  BY DEF MarkInv, TypeInv
<1> SUFFICES ASSUME carried' <= 1
             PROVE  /\ \A s \in Slots : Is(s, "carry")' =>
                          /\ carried' = 1 /\ \A t \in Paid : req'[s].allocated[t] >= daysAllowed(t)
                          /\ \A x \in Slots : Is(x, "carry")' => x = s
                    /\ carried' = 0 \/ (\E s \in Slots : Is(s, "carry")') => \A t \in Paid : Allocated(t, 2)' = daysAllowed(t)
  BY DEF CarriedOnce, daysAllowed
<1>1. /\ carried \in Nat
      /\ carried' = carried \/ (carried' = carried + 1 /\ \E s \in Slots : CarryReads(s))
      /\ \A s \in Slots : CarryReads(s) => carried' = carried + 1
  BY <1>0, CarriedMoves
<1>2. carried <= 1
  BY <1>1
<1>3. \A s \in Slots : Is(s, "carry") =>
        /\ carried = 1 /\ \A t \in Paid : req[s].allocated[t] >= daysAllowed(t)
        /\ \A x \in Slots : Is(x, "carry") => x = s
  BY <1>2 DEF CarriedOnce
<1>4. carried = 0 \/ (\E s \in Slots : Is(s, "carry")) => \A t \in Paid : Allocated(t, 2) = daysAllowed(t)
  BY <1>2 DEF CarriedOnce
<1>5. \A s \in Slots : Is(s, "carry")' => (Is(s, "carry") /\ req'[s] = req[s]) \/ CarryReads(s)
  BY <1>0, NewWaits
<1>6. ASSUME NEW s \in Slots, CarryReads(s)
      PROVE  /\ carried = 0 /\ carried' = 1 /\ UNCHANGED balance
             /\ \A t \in Paid : req'[s].allocated[t] >= daysAllowed(t)
  <2>1. carried = 0 /\ carried' = 1 /\ UNCHANGED balance
    BY <1>1, <1>6 DEF CarryReads
  <2>2. PICK r : r = [op |-> "carry", allocated |-> [t \in Paid |-> NextYear(t)]]
    OBVIOUS
  <2>3. req'[s] = r
    BY <1>0, <1>6, <2>2 DEF CarryReads, Waits, TypeOK
  <2>4. \A t \in Paid : r.allocated[t] = NextYear(t)
    BY <2>2
  <2> QED
    BY <1>0, <2>1, <2>3, <2>4, NextYearEnough
<1>7. ASSUME NEW s \in Slots, CarryReads(s), NEW x \in Slots, CarryReads(x) PROVE x = s
  <2>1. PICK r : r = [op |-> "carry", allocated |-> [t \in Paid |-> NextYear(t)]]
    OBVIOUS
  <2>2. Waits(s, r) /\ Waits(x, r)
    BY <1>7, <2>1 DEF CarryReads
  <2>3. r \in Requests
    <3>1. r.op = "carry" /\ r.allocated \in [Paid -> Nat]
      BY <1>0, <2>1, NextYearEnough
    <3> QED
      BY <2>1, <3>1 DEF Requests
  <2>4. req[s] = None /\ req'[s] = r /\ r # None
    BY <1>0, <2>2, <2>3, NoRowAssumption DEF Waits, TypeOK
  <2> QED
    BY <1>0, <2>2, <2>4 DEF Waits, TypeOK
<1>8. ASSUME NEW s \in Slots, Is(s, "carry")'
      PROVE  /\ carried' = 1 /\ \A t \in Paid : req'[s].allocated[t] >= daysAllowed(t)
             /\ \A x \in Slots : Is(x, "carry")' => x = s
  BY <1>1, <1>3, <1>5, <1>6, <1>7, <1>8
<1>9. ASSUME carried' = 0 \/ (\E s \in Slots : Is(s, "carry")'), NEW t \in Paid
      PROVE  Allocated(t, 2)' = daysAllowed(t)
  <2>1. ASSUME NEW s \in Slots, CarryReads(s) PROVE Allocated(t, 2)' = daysAllowed(t)
    <3>1. Allocated(t, 2)' = Allocated(t, 2)
      BY <1>6, <2>1, BalanceRests
    <3> QED
      BY <1>4, <1>6, <2>1, <3>1
  <2>2. CASE \A s \in Slots : ~CarryReads(s)
    <3>1. carried' = carried
      BY <1>1, <2>2
    <3>2. Allocated(t, 2) = daysAllowed(t)
      BY <1>4, <1>5, <1>9, <2>2, <3>1
    <3>3. ASSUME NEW x \in Slots, CarryCommits(x) PROVE FALSE
      <4>1. Is(x, "carry") /\ req'[x] = None
        BY <1>0, <3>3 DEF CarryCommits, InFlight, Is, Done, TypeOK
      <4>2. ~Is(x, "carry")'
        BY <4>1 DEF Is
      <4>3. carried' # 0
        BY <1>3, <3>1, <4>1
      <4>4. PICK s \in Slots : Is(s, "carry")'
        BY <1>9, <4>3
      <4>5. Is(s, "carry") /\ s # x
        BY <1>5, <2>2, <4>2, <4>4
      <4> QED
        BY <1>3, <4>1, <4>5
    <3> QED
      BY <3>2, <3>3, AllocatedMoves DEF Years
  <2> QED
    BY <2>1, <2>2
<1> QED
  BY <1>8, <1>9

LEMMA SameYearStep ==
  ASSUME Spans = FALSE, MarkInv, MarkInv', SameYear, [Next]_vars PROVE SameYear'
<1>0. TypeOK /\ TypeOK' /\ TypeInv /\ DecidedExists
  BY DEF MarkInv, TypeInv
<1>1. ASSUME NEW s \in Slots, Is(s, "create")' PROVE YearOf(req'[s].row.first) = YearOf(req'[s].row.last)
  <2>1. CASE Is(s, "create") /\ req'[s] = req[s]
    BY <2>1 DEF SameYear
  <2>2. ASSUME NEW t \in Types, NEW first \in Days, NEW last \in Days, NEW days \in Days,
               CreateChecks(s, t, first, last, days)
        PROVE  YearOf(req'[s].row.first) = YearOf(req'[s].row.last)
    <3>1. PICK r : r = [type |-> t, first |-> first, last |-> last, days |-> days, status |-> "PENDING"]
      OBVIOUS
    <3>2. YearOf(first) = YearOf(last) /\ Waits(s, [op |-> "create", row |-> r])
      BY <2>2, <3>1 DEF CreateChecks
    <3>3. r.first = first /\ r.last = last
      BY <3>1
    <3>4. req'[s].row = r
      BY <1>0, <3>2 DEF Waits, TypeOK
    <3> QED
      BY <3>2, <3>3, <3>4
  <2> QED
    BY <1>0, <1>1, <2>1, <2>2, NewWaits
<1>2. ASSUME NEW i \in Ids, leave'[i] # None PROVE YearOf(leave'[i].first) = YearOf(leave'[i].last)
  <2>1. CASE UNCHANGED leave
    BY <1>2, <2>1 DEF SameYear
  <2>2. ASSUME NEW s \in Slots, CreateCommits(s) PROVE YearOf(leave'[i].first) = YearOf(leave'[i].last)
    <3>1. PICK row : row = req[s].row
      OBVIOUS
    <3>2. PICK j \in Ids : Added(j, row)
      BY <2>2, <3>1 DEF CreateCommits, Added, Made
    <3>3. leave'[i] = IF i = j THEN row ELSE leave[i]
      BY <1>0, <3>2 DEF Added, TypeOK
    <3>4. YearOf(row.first) = YearOf(row.last)
      BY <2>2, <3>1 DEF SameYear, CreateCommits, InFlight, Is
    <3> QED
      BY <1>2, <3>3, <3>4 DEF SameYear
  <2>3. ASSUME NEW j \in Ids, leave[j] # None, NEW st, Restated(j, st) PROVE YearOf(leave'[i].first) = YearOf(leave'[i].last)
    <3> DEFINE r == [leave[j] EXCEPT !.status = st]
    <3>1. leave[j] \in LeaveRows
      BY <1>0, <2>3 DEF TypeOK
    <3>2. r.first = leave[j].first /\ r.last = leave[j].last
      BY <3>1 DEF LeaveRows
    <3>3. leave' = [leave EXCEPT ![j] = r]
      BY <2>3 DEF Restated
    <3> HIDE DEF r
    <3>4. leave'[i] = IF i = j THEN r ELSE leave[i]
      BY <1>0, <3>3 DEF TypeOK
    <3> QED
      BY <1>2, <2>3, <3>2, <3>4 DEF SameYear
  <2>4. ASSUME NEW s \in Slots, ReviewClaims(s) \/ ApproveCommits(s) \/ CancelCommits(s)
        PROVE  YearOf(leave'[i].first) = YearOf(leave'[i].last)
    <3>0. PICK j : j = req[s].id
      OBVIOUS
    <3>1. req[s] # None /\ req[s].op \in DecisionOps
      BY <2>4 DEF ReviewClaims, ApproveCommits, CancelCommits, InFlight, DecisionOps
    <3>2. j \in Ids /\ leave[j] # None
      BY <1>0, <3>0, <3>1, RequestCases DEF DecidedExists
    <3>3. UNCHANGED leave \/ Restated(j, "REJECTED") \/ Restated(j, "APPROVED")
      BY <2>4, <3>0 DEF ReviewClaims, ApproveCommits, CancelCommits, Restated
    <3> QED
      BY <2>1, <2>3, <3>2, <3>3
  <2>5. ASSUME NEW s \in Slots,
               \/ \E u \in Types, first, last, days \in Days : CreateChecks(s, u, first, last, days)
               \/ \E k \in Ids, status \in {"APPROVED", "REJECTED"} : ReviewChecks(s, k, status)
               \/ \E k \in Ids, isAdmin \in BOOLEAN : CancelChecks(s, k, isAdmin)
               \/ CarryReads(s) \/ CarryCommits(s)
               \/ \E onBehalf \in BOOLEAN : PunchChecks(s, onBehalf)
               \/ PunchCommits(s)
        PROVE  UNCHANGED leave
    <3>1. ASSUME NEW u, NEW first, NEW last, NEW days, CreateChecks(s, u, first, last, days) PROVE UNCHANGED leave
      BY <3>1 DEF CreateChecks
    <3>2. ASSUME NEW k, NEW status, ReviewChecks(s, k, status) PROVE UNCHANGED leave
      BY <3>2 DEF ReviewChecks
    <3>3. ASSUME NEW k, NEW isAdmin, CancelChecks(s, k, isAdmin) PROVE UNCHANGED leave
      BY <3>3 DEF CancelChecks
    <3>4. ASSUME NEW onBehalf, PunchChecks(s, onBehalf) PROVE UNCHANGED leave
      BY <3>4 DEF PunchChecks
    <3>5. ASSUME CarryReads(s) \/ CarryCommits(s) \/ PunchCommits(s) PROVE UNCHANGED leave
      BY <3>5 DEF CarryReads, CarryCommits, PunchCommits
    <3> QED
      BY <2>5, <3>1, <3>2, <3>3, <3>4, <3>5
  <2>6. ASSUME DayPasses \/ UNCHANGED vars \/ \E y \in Years : getLeaveBalances(y) PROVE UNCHANGED leave
    BY <2>6 DEF DayPasses, vars, getLeaveBalances
  <2> QED
    BY <2>1, <2>2, <2>4, <2>5, <2>6 DEF Next
<1> QED
  BY <1>1, <1>2 DEF SameYear, Is, YearOf

(* What is used and what waits together only grows by a creation. *)
LEMMA HeldMoves ==
  ASSUME Races = {}, MarkInv, MarkInv', [Next]_vars, NEW t \in Paid, NEW y \in Years
  PROVE  /\ Held(t, y) \in Int /\ Held(t, y)' \in Int
         /\ \/ Held(t, y)' <= Held(t, y) /\ \A s \in Slots : ~CreateCommits(s)
            \/ \E s \in Slots : /\ CreateCommits(s) /\ Is(s, "create") /\ Allocated(t, y)' = Allocated(t, y)
                                /\ Held(t, y)' = IF req[s].row.type = t /\ YearOf(req[s].row.first) = y
                                                 THEN Held(t, y) + req[s].row.days ELSE Held(t, y)
<1>0. TypeOK /\ TypeOK' /\ t \in Types
  BY DEF MarkInv, TypeInv, Paid
<1>1. Tally("PENDING", t, y) \in Nat /\ Tally("PENDING", t, y)' \in Nat
  BY <1>0, TalliesTyped
<1>2. Used(t, y) \in Int
  BY <1>0, BalanceTyped
<1>3. CASE \A s \in Slots : ~CreateCommits(s)
  <2>1. PICK n \in Nat : Moved(t, y, n)
    BY <1>3, Effects
  <2> QED
    BY <1>1, <1>2, <1>3, <2>1 DEF Moved, Held
<1>4. ASSUME NEW s \in Slots, CreateCommits(s)
      PROVE  /\ Held(t, y)' \in Int /\ Is(s, "create") /\ Allocated(t, y)' = Allocated(t, y)
             /\ Held(t, y)' = IF req[s].row.type = t /\ YearOf(req[s].row.first) = y
                              THEN Held(t, y) + req[s].row.days ELSE Held(t, y)
  <2>1. /\ Is(s, "create") /\ req[s].row \in LeaveRows
        /\ Used(t, y)' = Used(t, y) /\ Allocated(t, y)' = Allocated(t, y)
        /\ Tally("PENDING", t, y)' = IF req[s].row.type = t /\ YearOf(req[s].row.first) = y
                                     THEN Tally("PENDING", t, y) + req[s].row.days ELSE Tally("PENDING", t, y)
    BY <1>4, CreateEffects
  <2>2. req[s].row.days \in Nat
    BY <2>1 DEF LeaveRows
  <2> QED
    BY <1>1, <1>2, <2>1, <2>2 DEF Held
<1> QED
  BY <1>1, <1>2, <1>3, <1>4 DEF Held

(* What a check for room sees: every request of the type that waits counts,   *)
(* as none spans the end of a year.                                          *)
LEMMA RemainingIs ==
  ASSUME TypeOK, SameYear, NEW t \in Paid, NEW y \in Years
  PROVE  Remaining(t, y) = Allocated(t, y) - Held(t, y)
<1> DEFINE W == {i \in With({"PENDING"}) : /\ leave[i].type = t
                                           /\ YearOf(leave[i].first) = y /\ YearOf(leave[i].last) = y}
<1>1. \A i \in With({"PENDING"}) : i \in Ids /\ leave[i] # None
  BY DEF With, Made
<1>2. W = Of("PENDING", t, y)
  BY <1>1 DEF SameYear, Of
<1>3. Remaining(t, y) = Allocated(t, y) - Used(t, y) - Tally("PENDING", t, y)
  BY <1>2, LeaveDays DEF Remaining, Tally
<1>4. Allocated(t, y) \in Nat /\ Used(t, y) \in Int /\ Tally("PENDING", t, y) \in Nat
  BY BalanceTyped, OfCosted DEF TypeOK, Paid
<1> QED
  BY <1>3, <1>4 DEF Held

LEMMA RoomStep ==
  ASSUME Races = {}, MarkInv, MarkInv', SameYear, CarriedOnce, Room, [Next]_vars PROVE Room'
<1>0. TypeOK /\ TypeOK' /\ \A t \in Counted : t \in Paid /\ t \in Types
  BY DEF MarkInv, TypeInv, Counted, Paid
<1> SUFFICES ASSUME carried' <= 1
             PROVE  /\ \A t \in Counted, y \in Years : Held(t, y)' <= Allocated(t, y)'
                    /\ \A s \in Slots, t \in Counted, y \in Years :
                          Is(s, "create")' /\ req'[s].row.type = t /\ YearOf(req'[s].row.first) = y
                          => Held(t, y)' + req'[s].row.days <= Allocated(t, y)'
  BY DEF Room, YearOf
<1>1. /\ carried \in Nat
      /\ carried' = carried \/ (carried' = carried + 1 /\ \E s \in Slots : CarryReads(s))
  BY <1>0, CarriedMoves
<1>2. carried <= 1
  BY <1>1
<1>3. /\ \A t \in Counted, y \in Years : Held(t, y) <= Allocated(t, y)
      /\ \A s \in Slots, t \in Counted, y \in Years :
            Is(s, "create") /\ req[s].row.type = t /\ YearOf(req[s].row.first) = y
            => Held(t, y) + req[s].row.days <= Allocated(t, y)
  BY <1>2 DEF Room
<1>4. ASSUME NEW t \in Paid, NEW y \in Years PROVE Allocated(t, y)' >= Allocated(t, y) /\ Allocated(t, y) \in Nat /\ Allocated(t, y)' \in Nat
  <2>1. t \in Types
    BY DEF Paid
  <2>2. Allocated(t, y) \in Nat
    BY <1>0, <2>1, BalanceTyped
  <2>3. ASSUME NEW s \in Slots, CarryCommits(s), y = 2, Allocated(t, y)' = req[s].allocated[t]
        PROVE  Allocated(t, y)' >= Allocated(t, y) /\ Allocated(t, y)' \in Nat
    <3>1. Is(s, "carry")
      BY <2>3 DEF CarryCommits, InFlight, Is
    <3>2. req[s].allocated[t] \in Nat
      BY <1>0, <3>1, RequestCases DEF Is
    <3> QED
      BY <1>2, <2>3, <3>1, <3>2 DEF CarriedOnce
  <2> QED
    BY <2>2, <2>3, AllocatedMoves
<1>5. ASSUME NEW t \in Counted, NEW y \in Years PROVE Held(t, y)' <= Allocated(t, y)'
  <2>1. /\ Held(t, y) \in Int /\ Held(t, y)' \in Int
        /\ \/ Held(t, y)' <= Held(t, y)
           \/ \E s \in Slots : /\ CreateCommits(s) /\ Is(s, "create") /\ Allocated(t, y)' = Allocated(t, y)
                               /\ Held(t, y)' = IF req[s].row.type = t /\ YearOf(req[s].row.first) = y
                                                THEN Held(t, y) + req[s].row.days ELSE Held(t, y)
    BY <1>0, HeldMoves
  <2>2. Held(t, y) <= Allocated(t, y) /\ Allocated(t, y)' >= Allocated(t, y) /\ Allocated(t, y) \in Nat /\ Allocated(t, y)' \in Nat
    BY <1>0, <1>3, <1>4
  <2>3. CASE Held(t, y)' <= Held(t, y)
    BY <2>1, <2>2, <2>3
  <2>4. ASSUME NEW s \in Slots, Is(s, "create"), Allocated(t, y)' = Allocated(t, y),
               Held(t, y)' = IF req[s].row.type = t /\ YearOf(req[s].row.first) = y
                             THEN Held(t, y) + req[s].row.days ELSE Held(t, y)
        PROVE  Held(t, y)' <= Allocated(t, y)'
    BY <1>3, <2>2, <2>4
  <2> QED
    BY <2>1, <2>3, <2>4
<1>6. ASSUME NEW s \in Slots, NEW t \in Counted, NEW y \in Years,
             Is(s, "create")', req'[s].row.type = t, YearOf(req'[s].row.first) = y
      PROVE  Held(t, y)' + req'[s].row.days <= Allocated(t, y)'
  <2>1. Allocated(t, y)' >= Allocated(t, y) /\ Allocated(t, y) \in Nat /\ Allocated(t, y)' \in Nat
    BY <1>0, <1>4
  <2>2. CASE Is(s, "create") /\ req'[s] = req[s]
    <3>1. ASSUME NEW x \in Slots, CreateCommits(x) PROVE FALSE
      <4>1. Is(x, "create") /\ req'[x] = None
        BY <1>0, <3>1 DEF CreateCommits, InFlight, Is, Done, TypeOK
      <4>2. x = s
        BY <2>2, <4>1 DEF MarkInv, CreateClear
      <4> QED
        BY <1>6, <4>1, <4>2 DEF Is
    <3>2. Held(t, y)' <= Held(t, y) /\ Held(t, y) \in Int /\ Held(t, y)' \in Int
      BY <1>0, <3>1, HeldMoves
    <3>3. Held(t, y) + req[s].row.days <= Allocated(t, y)
      BY <1>3, <1>6, <2>2
    <3>4. req[s].row.days \in Nat
      BY <1>0, <2>2, RequestCases DEF Is, LeaveRows
    <3> QED
      BY <2>1, <2>2, <3>2, <3>3, <3>4
  <2>3. ASSUME NEW u \in Types, NEW first \in Days, NEW last \in Days, NEW days \in Days, CreateChecks(s, u, first, last, days)
        PROVE  Held(t, y)' + req'[s].row.days <= Allocated(t, y)'
    <3>1. PICK r : r = [type |-> u, first |-> first, last |-> last, days |-> days, status |-> "PENDING"]
      OBVIOUS
    <3>2. /\ Waits(s, [op |-> "create", row |-> r]) /\ UNCHANGED <<leave, balance>>
          /\ u \in Paid => days <= Remaining(u, YearOf(first))
      BY <2>3, <3>1 DEF CreateChecks
    <3>3. r.type = u /\ r.first = first /\ r.days = days
      BY <3>1
    <3>4. req'[s].row = r
      BY <1>0, <3>2 DEF Waits, TypeOK
    <3>5. u = t /\ YearOf(first) = y /\ days \in Nat
      BY <1>6, <3>3, <3>4, LeaveAssumption DEF Days
    <3>6. days <= Allocated(t, y) - Held(t, y)
      BY <1>0, <3>2, <3>5, RemainingIs
    <3>7. Held(t, y)' = Held(t, y) /\ Allocated(t, y)' = Allocated(t, y)
      BY <3>2, BalanceRests, RestTally DEF Held
    <3>8. Held(t, y) \in Int
      BY <1>0, HeldMoves
    <3> QED
      BY <2>1, <3>3, <3>4, <3>5, <3>6, <3>7, <3>8
  <2> QED
    BY <1>0, <1>6, <2>2, <2>3, NewWaits
<1> QED
  BY <1>5, <1>6

(* When no leave spans the end of a year and no two creations, and no           *)
(* cancellation and another decision of its request, overlap: approved paid     *)
(* leave never exceeds its year's allowance, up to the first carry-forward.     *)
THEOREM LeaveWithinAllocation ==
  ASSUME Races = {}, Spans = FALSE PROVE Spec => []WithinAllocation
<1>1. Init => AllocInv
  <2> SUFFICES ASSUME Init PROVE AllocInv
    OBVIOUS
  <2>1. (\A s \in Slots : ~Is(s, "create") /\ ~Is(s, "carry")) /\ \A i \in Ids : leave[i] = None
    BY DEF Init, Is
  <2>2. ASSUME NEW t \in Paid, NEW y \in Years PROVE Held(t, y) = 0 /\ Allocated(t, y) = daysAllowed(t) /\ daysAllowed(t) \in Nat
    <3>1. balance[t][y] = None
      BY <2>2 DEF Init, Paid
    <3>2. \A i : i \notin Of("PENDING", t, y)
      BY <2>1, OfIs
    <3>3. Of("PENDING", t, y) = {}
      BY <3>2
    <3> QED
      BY <3>1, <3>3, DaysNone, LeaveAssumption DEF Tally, Used, Held, Allocated, daysAllowed
  <2>3. \A t \in Counted : t \in Paid
    BY DEF Counted
  <2>4. Room
    BY <2>1, <2>2, <2>3 DEF Room
  <2>5. CarriedOnce
    BY <2>1, <2>2 DEF CarriedOnce, Years
  <2> QED
    BY <2>1, <2>4, <2>5, MarkInit DEF AllocInv, SameYear
<1>2. AllocInv /\ [Next]_vars => AllocInv'
  BY MarkStep, SameYearStep, RoomStep, CarriedOnceStep DEF AllocInv
<1>3. AllocInv => WithinAllocation
  <2> SUFFICES ASSUME AllocInv, NEW t \in Counted, NEW y \in Years, carried <= 1 PROVE Used(t, y) <= Allocated(t, y)
    BY DEF WithinAllocation, Counted
  <2>1. t \in Types /\ TypeOK
    BY DEF AllocInv, MarkInv, TypeInv, Counted, Paid
  <2>2. Allocated(t, y) \in Nat /\ Used(t, y) \in Int /\ Tally("PENDING", t, y) \in Nat
    BY <2>1, BalanceTyped, OfCosted DEF TypeOK
  <2>3. Held(t, y) <= Allocated(t, y)
    BY DEF AllocInv, Room
  <2> QED
    BY <2>2, <2>3 DEF Held
<1> QED
  BY <1>1, <1>2, <1>3, PTL DEF Spec
=============================================================================
