-------------------------- MODULE PunchClock_proofs --------------------------
(***************************************************************************)
(* Proofs about the punches of one employee, for any number of requests in *)
(* flight, any calendar of days off and any shift; about whether a day is     *)
(* one off, for any branches, shifts and changes of the calendar; and about  *)
(* the corrections, for any days, times, slots and bounds.                   *)
(***************************************************************************)
EXTENDS MCAttendance, SequenceTheorems, TLAPS

(* The row a punch-out or the end of a pause will write was punched in when   *)
(* it was read, and punch-ins are never taken back.                          *)
TargetsPunchedIn ==
    \A r \in Requests : req[r] # None /\ req[r].op \in {"checkOut", "endPause"} => PunchedIn(req[r].day)

PunchInv == TypeOK /\ TargetsPunchedIn /\ SweptMeansNoPunch

(* Clock arithmetic stays in the calendar. *)
LEMMA DayOfInstant == ASSUME NEW t \in Instants PROVE DayOf(t) \in Days
<1>1. DayLength \in Nat \ {0} /\ MaxDay \in Nat
  BY PunchConstants
<1>2. t \in Int /\ 0 <= t /\ t < (MaxDay + 1) * DayLength
  BY <1>1 DEF Instants
<1> QED
  BY <1>1, <1>2, SMTT(30) DEF DayOf, Days

(* Instants are numbers. *)
LEMMA InstantsInt == Instants \subseteq Nat
BY DEF Instants

(* Truncated subtraction. *)
LEMMA MonusNat == \A a, b \in Nat : Monus(a, b) \in Nat
BY DEF Monus

(* The day a punch-out or a pause resolves to has a row that was punched in.  *)
LEMMA SessionDay ==
  ASSUME NEW t \in Instants, NEW d \in CheckOutDay(t) \cup findOpenAttendance(t)
  PROVE  d \in Days /\ PunchedIn(d)
<1>1. (d = DayOf(t) /\ PunchedIn(d)) \/ d \in CarriedOver(DayOf(t))
  BY DEF CheckOutDay, findOpenAttendance
<1> QED
  BY <1>1, DayOfInstant DEF CarriedOver, OpenRow

(* Accepting a request touches nothing but its slot. *)
LEMMA AcceptInv ==
  ASSUME PunchInv, NEW r \in Requests, NEW request \in InFlight, Accept(r, request),
         request.op \in {"checkOut", "endPause"} => PunchedIn(request.day)
  PROVE  PunchInv'
<1> USE DEF PunchInv
<1>1. req' \in [Requests -> InFlight \cup {None}] /\ punches' \in 0 .. MaxPunches
  BY PunchConstants DEF Accept, TypeOK
<1>2. TypeOK'
  BY <1>1 DEF Accept, TypeOK
<1>3. TargetsPunchedIn'
  BY DEF Accept, TypeOK, TargetsPunchedIn, PunchedIn
<1>4. SweptMeansNoPunch'
  BY DEF Accept, SweptMeansNoPunch
<1> QED
  BY <1>2, <1>3, <1>4

(* What the read steps put in flight is well typed and aims at a session.     *)
LEMMA ReadsInv ==
  ASSUME PunchInv, NEW r \in Requests, NEW t \in Instants
  PROVE  /\ \A id \in Ids : CheckInReads(r, t, id) => PunchInv'
         /\ WfhCheckInReads(r, t) => PunchInv'
         /\ \A id \in Ids : CheckOutReads(r, t, id) => PunchInv'
         /\ \A kind \in Pauses : StartPauseReads(r, t, kind) => PunchInv'
         /\ \A kind \in Pauses : EndPauseReads(r, t, kind) => PunchInv'
<1> USE DEF PunchInv
<1>1. ASSUME NEW id \in Ids, CheckInReads(r, t, id) PROVE PunchInv'
  <2> DEFINE q == [op |-> "checkIn", day |-> DayOf(t), at |-> t, id |-> id, status |-> "PRESENT"]
  <2>1. q \in InFlight
    BY DayOfInstant DEF InFlight, CheckIns, PunchStatus
  <2>2. Accept(r, q)
    BY <1>1 DEF CheckInReads
  <2> HIDE DEF q
  <2>3. q.op = "checkIn"
    BY DEF q
  <2> QED
    BY <2>1, <2>2, <2>3, AcceptInv
<1>5. ASSUME WfhCheckInReads(r, t) PROVE PunchInv'
  <2> DEFINE q == [op |-> "checkIn", day |-> DayOf(t), at |-> t, id |-> NoId, status |-> "WORK_FROM_HOME"]
  <2>1. q \in InFlight
    BY DayOfInstant DEF InFlight, CheckIns, PunchStatus, Ids
  <2>2. Accept(r, q)
    BY <1>5 DEF WfhCheckInReads
  <2> HIDE DEF q
  <2>3. q.op = "checkIn"
    BY DEF q
  <2> QED
    BY <2>1, <2>2, <2>3, AcceptInv
<1>2. ASSUME NEW id \in Ids, CheckOutReads(r, t, id) PROVE PunchInv'
  <2>1. PICK d \in CheckOutDay(t) : \E e \in Latest(d, EventTypes) :
          LET open == PauseLeftOpen(e)
              pause == [k \in Pauses |-> row[d].pause[k] + IF k = open THEN Monus(t, e.at) ELSE 0]
          IN  Accept(r, [op |-> "checkOut", day |-> d, at |-> t, id |-> id,
                         open |-> open, pause |-> pause, status |-> row[d].status,
                         work |-> Monus(Monus(t, row[d].in), pause["BREAK"] + pause["LUNCH"])])
    BY <1>2 DEF CheckOutReads
  <2>2. d \in Days /\ PunchedIn(d)
    BY SessionDay
  <2>3. PICK e \in Latest(d, EventTypes) :
          LET open == PauseLeftOpen(e)
              pause == [k \in Pauses |-> row[d].pause[k] + IF k = open THEN Monus(t, e.at) ELSE 0]
          IN  Accept(r, [op |-> "checkOut", day |-> d, at |-> t, id |-> id,
                         open |-> open, pause |-> pause, status |-> row[d].status,
                         work |-> Monus(Monus(t, row[d].in), pause["BREAK"] + pause["LUNCH"])])
    BY <2>1
  <2> DEFINE open == PauseLeftOpen(e)
             pause == [k \in Pauses |-> row[d].pause[k] + IF k = open THEN Monus(t, e.at) ELSE 0]
             work == Monus(Monus(t, row[d].in), pause["BREAK"] + pause["LUNCH"])
             q == [op |-> "checkOut", day |-> d, at |-> t, id |-> id,
                   open |-> open, pause |-> pause, status |-> row[d].status, work |-> work]
  <2>4. e.at \in Nat
    <3>1. events[d] \in Seq(EventRecords)
      BY <2>2 DEF TypeOK
    <3>2. \E i \in DOMAIN events[d] : e = events[d][i]
      BY DEF Latest
    <3>3. e \in EventRecords
      BY <3>1, <3>2
    <3> QED
      BY <3>3, InstantsInt DEF EventRecords
  <2>5. row[d] \in Rows /\ row[d].in \in Instants
    BY <2>2, NoneIsFresh DEF TypeOK, PunchedIn, Rows
  <2>6. open \in Pauses \cup {NoPause}
    BY DEF PauseLeftOpen, Pauses
  <2>7. pause \in [Pauses -> Nat]
    <3> SUFFICES ASSUME NEW k \in Pauses
                 PROVE  row[d].pause[k] + (IF k = open THEN Monus(t, e.at) ELSE 0) \in Nat
      OBVIOUS
    <3>1. row[d].pause[k] \in Nat
      BY <2>5 DEF Rows
    <3>2. Monus(t, e.at) \in Nat
      BY <2>4, InstantsInt DEF Monus
    <3> QED
      BY <3>1, <3>2
  <2>8. work \in Nat
    <3> HIDE DEF pause
    <3>1. t \in Nat /\ row[d].in \in Nat
      BY <2>5, InstantsInt
    <3>2. pause["BREAK"] + pause["LUNCH"] \in Nat
      BY <2>7 DEF Pauses
    <3>3. Monus(t, row[d].in) \in Nat
      BY <3>1, MonusNat
    <3> QED
      BY <3>2, <3>3, MonusNat
  <2>9. row[d].status \in PunchStatus
    BY <2>2, <2>5 DEF SweptMeansNoPunch, Rows, PunchedIn
  <2>10. Accept(r, q)
    BY <2>3
  <2> HIDE DEF open, pause, work
  <2>11. q \in InFlight
    BY <2>2, <2>6, <2>7, <2>8, <2>9 DEF InFlight, CheckOuts
  <2>12. q.day = d
    OBVIOUS
  <2> HIDE DEF q
  <2> QED
    BY <2>2, <2>10, <2>11, <2>12, AcceptInv
<1>3. ASSUME NEW kind \in Pauses, StartPauseReads(r, t, kind) PROVE PunchInv'
  <2>1. PICK d \in findOpenAttendance(t) :
          Accept(r, [op |-> "startPause", day |-> d, at |-> t, kind |-> kind])
    BY <1>3 DEF StartPauseReads
  <2>2. d \in Days
    BY SessionDay
  <2> DEFINE q == [op |-> "startPause", day |-> d, at |-> t, kind |-> kind]
  <2>3. q \in InFlight /\ q.op = "startPause"
    BY <2>2 DEF InFlight, Starts
  <2>4. Accept(r, q)
    BY <2>1
  <2> HIDE DEF q
  <2> QED
    BY <2>3, <2>4, AcceptInv
<1>4. ASSUME NEW kind \in Pauses, EndPauseReads(r, t, kind) PROVE PunchInv'
  <2>1. PICK d \in findOpenAttendance(t) : \E s \in Latest(d, {StartType(kind)}) :
          Accept(r, [op |-> "endPause", day |-> d, at |-> t, kind |-> kind,
                     total |-> row[d].pause[kind] + Monus(t, s.at)])
    BY <1>4 DEF EndPauseReads
  <2>2. d \in Days /\ PunchedIn(d)
    BY SessionDay
  <2>3. PICK s \in Latest(d, {StartType(kind)}) :
          Accept(r, [op |-> "endPause", day |-> d, at |-> t, kind |-> kind,
                     total |-> row[d].pause[kind] + Monus(t, s.at)])
    BY <2>1
  <2>4. s.at \in Nat
    <3>1. events[d] \in Seq(EventRecords)
      BY <2>2 DEF TypeOK
    <3>2. \E i \in DOMAIN events[d] : s = events[d][i]
      BY DEF Latest
    <3>3. s \in EventRecords
      BY <3>1, <3>2
    <3> QED
      BY <3>3, InstantsInt DEF EventRecords
  <2>5. row[d].pause[kind] \in Nat
    <3>1. row[d] \in Rows
      BY <2>2 DEF TypeOK, PunchedIn
    <3> QED
      BY <3>1 DEF Rows
  <2>6. Monus(t, s.at) \in Nat
    BY <2>4, InstantsInt DEF Monus
  <2> DEFINE total == row[d].pause[kind] + Monus(t, s.at)
             q == [op |-> "endPause", day |-> d, at |-> t, kind |-> kind, total |-> total]
  <2>7. total \in Nat
    BY <2>5, <2>6
  <2>8. Accept(r, q)
    BY <2>3
  <2> HIDE DEF total
  <2>9. q \in InFlight /\ q.day = d
    BY <2>2, <2>7 DEF InFlight, Ends
  <2> HIDE DEF q
  <2> QED
    BY <2>2, <2>8, <2>9, AcceptInv
<1> QED
  BY <1>1, <1>2, <1>3, <1>4, <1>5

(* A rolled back request leaves everything but its slot. *)
LEMMA RollBackInv == ASSUME PunchInv, NEW r \in Requests, RollBack(r) PROVE PunchInv'
<1>1. req' \in [Requests -> InFlight \cup {None}]
  BY DEF PunchInv, TypeOK, RollBack
<1> QED
  BY <1>1 DEF PunchInv, TypeOK, TargetsPunchedIn, SweptMeansNoPunch, PunchedIn, RollBack

(* The request that commits, by its operation. *)
LEMMA InFlightCases ==
  ASSUME PunchInv, NEW r \in Requests, req[r] # None
  PROVE  /\ req[r] \in InFlight
         /\ req[r].op = "checkIn" => req[r] \in CheckIns
         /\ req[r].op = "checkOut" => req[r] \in CheckOuts
         /\ req[r].op = "startPause" => req[r] \in Starts
         /\ req[r].op = "endPause" => req[r] \in Ends
<1>1. req[r] \in InFlight
  BY DEF PunchInv, TypeOK
<1> QED
  BY <1>1 DEF InFlight, CheckIns, CheckOuts, Starts, Ends

(* Writing a punched-in row of a day without sweep status, and any events.    *)
LEMMA RowWriteInv ==
  ASSUME PunchInv, NEW r \in Requests, NEW d \in Days, NEW new \in Rows,
         new.in # None, new.status \in PunchStatus,
         row' = [row EXCEPT ![d] = new], req' = [req EXCEPT ![r] = None],
         TypeOK'
  PROVE  PunchInv'
<1> USE DEF PunchInv
<1>1. TargetsPunchedIn'
  BY NoneIsFresh DEF TypeOK, TargetsPunchedIn, PunchedIn
<1>2. SweptMeansNoPunch'
  BY NoneIsFresh DEF TypeOK, SweptMeansNoPunch, PunchStatus, SweptStatus
<1> QED
  BY <1>1, <1>2

(* A committed punch-in leaves a punched-in row with a working status. *)
LEMMA CheckInInv == ASSUME PunchInv, NEW r \in Requests, CheckInCommits(r) PROVE PunchInv'
<1> DEFINE q == req[r]
           base == IF row[q.day] = None THEN FreshRow ELSE row[q.day]
           new == [base EXCEPT !.in = q.at, !.status = q.status]
<1>1. q \in CheckIns
  BY InFlightCases DEF CheckInCommits
<1>2. CASE IdUsed(q.id)
  BY <1>2, RollBackInv DEF CheckInCommits
<1>3. CASE ~IdUsed(q.id)
  <2>1. row' = [row EXCEPT ![q.day] = new] /\ req' = [req EXCEPT ![r] = None]
    BY <1>3 DEF CheckInCommits
  <2>2. base \in Rows
    BY <1>1 DEF CheckIns, PunchInv, TypeOK, FreshRow, Rows, PunchStatus
  <2>3. new \in Rows /\ new.in # None /\ new.status \in PunchStatus
    BY <1>1, <2>2, PunchConstants DEF CheckIns, Rows
  <2>4. events' \in [Days -> Seq(EventRecords)]
    <3>1. Event("CHECK_IN", q.at, q.id) \in EventRecords
      BY <1>1 DEF CheckIns, Event, EventRecords, EventTypes
    <3>2. events' = [events EXCEPT ![q.day] = Append(@, Event("CHECK_IN", q.at, q.id))]
      BY <1>3 DEF CheckInCommits
    <3> QED
      BY <1>1, <3>1, <3>2 DEF PunchInv, TypeOK, CheckIns
  <2>5. q.day \in Days
    BY <1>1 DEF CheckIns
  <2>6. TypeOK'
    <3> HIDE DEF new, q
    <3> QED
      BY <1>3, <2>1, <2>3, <2>4, <2>5 DEF PunchInv, TypeOK, CheckInCommits, q
  <2> HIDE DEF new, q
  <2> QED
    BY <2>1, <2>3, <2>5, <2>6, RowWriteInv
<1> QED
  BY <1>2, <1>3

(* A punch-out keeps the punch-in and the status its read saw; its credit and *)
(* its overtime request keep their types.                                    *)
LEMMA CheckOutInv == ASSUME PunchInv, NEW r \in Requests, CheckOutCommits(r) PROVE PunchInv'
<1> DEFINE q == req[r]
           new == [row[q.day] EXCEPT !.out = q.at, !.pause = q.pause, !.work = q.work, !.status = q.status]
<1>1. q \in CheckOuts /\ q.day \in Days /\ PunchedIn(q.day)
  BY InFlightCases DEF CheckOutCommits, CheckOuts, PunchInv, TargetsPunchedIn
<1>2. CASE IdUsed(q.id)
  BY <1>2, RollBackInv DEF CheckOutCommits
<1>3. CASE ~IdUsed(q.id)
  <2>1. row' = [row EXCEPT ![q.day] = new] /\ req' = [req EXCEPT ![r] = None]
    BY <1>1, <1>3 DEF CheckOutCommits, PunchInv, TypeOK
  <2>2. row[q.day] \in Rows
    BY <1>1 DEF PunchedIn, PunchInv, TypeOK
  <2>3. new \in Rows /\ new.in # None /\ new.status \in PunchStatus
    BY <1>1, <2>2 DEF CheckOuts, Rows, PunchedIn
  <2>4. events' \in [Days -> Seq(EventRecords)]
    <3> DEFINE closing == IF q.open = NoPause THEN <<>> ELSE <<Event(EndType(q.open), q.at, NoId)>>
    <3>1. closing \in Seq(EventRecords)
      <4>1. Event(EndType(q.open), q.at, NoId) \in EventRecords
        BY <1>1 DEF CheckOuts, Event, EndType, EventRecords, EventTypes, Ids
      <4>2. <<>> \in Seq(EventRecords) /\ <<Event(EndType(q.open), q.at, NoId)>> \in Seq(EventRecords)
        BY <4>1
      <4> QED
        BY <4>2
    <3>2. Event("CHECK_OUT", q.at, q.id) \in EventRecords
      BY <1>1 DEF CheckOuts, Event, EventRecords, EventTypes
    <3>3. events' = [events EXCEPT ![q.day] = @ \o closing \o <<Event("CHECK_OUT", q.at, q.id)>>]
      BY <1>3 DEF CheckOutCommits
    <3>4. events[q.day] \in Seq(EventRecords)
      BY <1>1 DEF PunchInv, TypeOK
    <3> HIDE DEF closing, q
    <3>5. events[q.day] \o closing \o <<Event("CHECK_OUT", q.at, q.id)>> \in Seq(EventRecords)
      BY <3>1, <3>2, <3>4
    <3> QED
      BY <1>1, <3>3, <3>5 DEF PunchInv, TypeOK
  <2>5. credited' \in Nat /\ ledger' \in Seq([ref : Days, days : {1, 2}])
    <3>1. Earned(q.work) \in {1, 2}
      BY DEF Earned
    <3>2. CreditDay(q.day, q.work)
      BY <1>3 DEF CheckOutCommits
    <3> DEFINE credit == [ref |-> q.day, days |-> Earned(q.work)]
    <3>3. credit \in [ref : Days, days : {1, 2}]
      BY <1>1, <3>1
    <3>4. \/ credited' = credited + Earned(q.work) /\ ledger' = Append(ledger, credit)
          \/ UNCHANGED <<credited, ledger>>
      BY <3>2 DEF CreditDay
    <3>5. credited \in Nat /\ ledger \in Seq([ref : Days, days : {1, 2}])
      BY DEF PunchInv, TypeOK
    <3> HIDE DEF credit, q
    <3>6. Append(ledger, credit) \in Seq([ref : Days, days : {1, 2}])
      BY <3>3, <3>5
    <3>7. credited + Earned(q.work) \in Nat
      BY <3>1, <3>5
    <3> QED
      BY <3>4, <3>5, <3>6, <3>7
  <2>6. otRequests' \in [Days -> Nat]
    <3>1. RaiseOvertime(q.day, q.work)
      BY <1>3 DEF CheckOutCommits
    <3> HIDE DEF q
    <3> QED
      BY <1>1, <3>1 DEF RaiseOvertime, PunchInv, TypeOK
  <2>7. TypeOK'
    <3>1. now' = now /\ punches' = punches
      BY <1>3 DEF CheckOutCommits
    <3> HIDE DEF new, q
    <3> QED
      BY <1>1, <2>1, <2>3, <2>4, <2>5, <2>6, <3>1 DEF PunchInv, TypeOK
  <2> HIDE DEF new, q
  <2> QED
    BY <1>1, <2>1, <2>3, <2>7, RowWriteInv
<1> QED
  BY <1>2, <1>3

(* Pauses append events and, at their end, replace one total of a session.    *)
LEMMA PauseInv ==
  ASSUME PunchInv, NEW r \in Requests, StartPauseCommits(r) \/ EndPauseCommits(r)
  PROVE  PunchInv'
<1> DEFINE q == req[r]
<1>1. CASE StartPauseCommits(r)
  <2>1. q \in Starts
    BY <1>1, InFlightCases DEF StartPauseCommits
  <2>2. Event(StartType(q.kind), q.at, NoId) \in EventRecords /\ q.day \in Days
    BY <2>1 DEF Starts, Event, StartType, EventRecords, EventTypes, Ids
  <2>3. events' \in [Days -> Seq(EventRecords)]
    BY <1>1, <2>2 DEF StartPauseCommits, PunchInv, TypeOK
  <2> QED
    BY <1>1, <2>3 DEF StartPauseCommits, PunchInv, TypeOK, TargetsPunchedIn, SweptMeansNoPunch, PunchedIn
<1>2. CASE EndPauseCommits(r)
  <2> DEFINE new == [row[q.day] EXCEPT !.pause[q.kind] = q.total]
  <2>1. q \in Ends /\ q.day \in Days /\ PunchedIn(q.day)
    BY <1>2, InFlightCases DEF EndPauseCommits, Ends, PunchInv, TargetsPunchedIn
  <2>2. row' = [row EXCEPT ![q.day] = new] /\ req' = [req EXCEPT ![r] = None]
    BY <1>2, <2>1 DEF EndPauseCommits, PunchInv, TypeOK
  <2>3. row[q.day] \in Rows
    BY <2>1 DEF PunchedIn, PunchInv, TypeOK
  <2>4. new \in Rows /\ new.in = row[q.day].in /\ new.status = row[q.day].status
    BY <2>1, <2>3 DEF Ends, Rows
  <2>5. new.in # None /\ new.status \in PunchStatus
    BY <2>1, <2>3, <2>4 DEF PunchedIn, PunchInv, SweptMeansNoPunch, Rows
  <2>6. Event(EndType(q.kind), q.at, NoId) \in EventRecords
    BY <2>1 DEF Ends, Event, EndType, EventRecords, EventTypes, Ids
  <2>7. events' \in [Days -> Seq(EventRecords)]
    BY <1>2, <2>1, <2>6 DEF EndPauseCommits, PunchInv, TypeOK
  <2>8. UNCHANGED <<now, credited, ledger, otRequests, punches>>
    BY <1>2 DEF EndPauseCommits
  <2> HIDE DEF new, q
  <2>9. TypeOK'
    BY <2>1, <2>2, <2>4, <2>7, <2>8 DEF PunchInv, TypeOK
  <2> QED
    BY <2>1, <2>2, <2>4, <2>5, <2>9, RowWriteInv
<1> QED
  BY <1>1, <1>2

(* The sweep creates a row where there is none. *)
LEMMA SweepInv == ASSUME PunchInv, NEW d \in Days, MarkAbsent(d) PROVE PunchInv'
<1>1. SweptRow(d) \in Rows /\ SweptRow(d).in = None
  BY DEF SweptRow, FreshRow, Rows, PunchStatus, SweptStatus
<1>2. row' = [row EXCEPT ![d] = SweptRow(d)] /\ row[d] = None
  BY DEF MarkAbsent
<1>3. TypeOK'
  BY <1>1, <1>2 DEF MarkAbsent, PunchInv, TypeOK
<1>4. TargetsPunchedIn' /\ SweptMeansNoPunch'
  BY <1>1, <1>2 DEF MarkAbsent, PunchInv, TypeOK, TargetsPunchedIn, SweptMeansNoPunch, PunchedIn
<1> QED
  BY <1>3, <1>4 DEF PunchInv

LEMMA PunchInvInit == Init => PunchInv
<1> SUFFICES ASSUME Init PROVE PunchInv
  OBVIOUS
<1>1. 0 \in Instants
  <2>1. (MaxDay + 1) * DayLength - 1 \in Nat
    BY PunchConstants, SMTT(30)
  <2> QED
    BY <2>1 DEF Instants
<1> QED
  BY <1>1, PunchConstants DEF Init, PunchInv, TypeOK, TargetsPunchedIn, SweptMeansNoPunch

LEMMA PunchInvStep == PunchInv /\ [Next]_vars => PunchInv'
<1> SUFFICES ASSUME PunchInv, [Next]_vars PROVE PunchInv'
  OBVIOUS
<1>1. CASE Tick
  BY <1>1 DEF Tick, PunchInv, TypeOK, TargetsPunchedIn, SweptMeansNoPunch, PunchedIn
<1>2. CASE \E d \in Days : MarkAbsent(d)
  BY <1>2, SweepInv
<1>3. ASSUME NEW r \in Requests, NEW t \in Instants,
             \/ CheckInReads(r, t, NoId) \/ WfhCheckInReads(r, t) \/ CheckOutReads(r, t, NoId)
             \/ \E id \in ClientIds : syncOfflinePunches(r, t, id)
             \/ \E kind \in Pauses : StartPauseReads(r, t, kind) \/ EndPauseReads(r, t, kind)
      PROVE  PunchInv'
  BY <1>3, ReadsInv DEF syncOfflinePunches, Ids
<1>4. ASSUME NEW r \in Requests, Commits(r) PROVE PunchInv'
  BY <1>4, CheckInInv, CheckOutInv, PauseInv DEF Commits
<1>5. CASE UNCHANGED vars
  BY <1>5 DEF vars, PunchInv, TypeOK, TargetsPunchedIn, SweptMeansNoPunch, PunchedIn
<1> QED
  BY <1>1, <1>2, <1>3, <1>4, <1>5 DEF Next

(* Only a punch-out touches the comp-off ledger and the overtime requests.    *)
LEMMA OnlyCheckOut ==
  ASSUME [Next]_vars
  PROVE  (ledger' = ledger /\ otRequests' = otRequests) \/ \E r \in Requests : CheckOutCommits(r)
<1>1. CASE Tick \/ UNCHANGED vars \/ \E d \in Days : MarkAbsent(d)
  BY <1>1 DEF Tick, vars, MarkAbsent
<1>2. ASSUME NEW r \in Requests, NEW t \in Instants,
             \/ CheckInReads(r, t, NoId) \/ WfhCheckInReads(r, t) \/ CheckOutReads(r, t, NoId)
             \/ \E id \in ClientIds : syncOfflinePunches(r, t, id)
             \/ \E kind \in Pauses : StartPauseReads(r, t, kind) \/ EndPauseReads(r, t, kind)
      PROVE  ledger' = ledger /\ otRequests' = otRequests
  BY <1>2 DEF syncOfflinePunches, CheckOutReads, CheckInReads, WfhCheckInReads, StartPauseReads, EndPauseReads, Accept
<1>3. ASSUME NEW r \in Requests, CheckInCommits(r) \/ StartPauseCommits(r) \/ EndPauseCommits(r)
      PROVE  ledger' = ledger /\ otRequests' = otRequests
  BY <1>3 DEF CheckInCommits, RollBack, StartPauseCommits, EndPauseCommits
<1> QED
  BY <1>1, <1>2, <1>3 DEF Next, Commits

(* Types, and what requests in flight may rely on, in every reachable state.  *)
THEOREM PunchInvariant == Spec => []PunchInv
BY PunchInvInit, PunchInvStep, PTL DEF Spec

(* markAbsentForDay and the punches: no order of the sweep, punch-ins and     *)
(* punch-outs leaves a punched day marked absent or weekly off.              *)
THEOREM SweepNeverHidesPunch == Spec => []SweptMeansNoPunch
<1>1. PunchInv => SweptMeansNoPunch
  BY DEF PunchInv
<1> QED
  BY <1>1, PunchInvariant, PTL

(* checkOut's comp-off: a day off is credited at most once, however many      *)
(* punch-outs of it race.                                                   *)
THEOREM DayCreditedOnce == Spec => []CreditedOnce
<1>1. Init => CreditedOnce
  BY DEF Init, CreditedOnce
<1>2. PunchInv /\ CreditedOnce /\ [Next]_vars => CreditedOnce'
  <2> SUFFICES ASSUME PunchInv, CreditedOnce, [Next]_vars PROVE CreditedOnce'
    OBVIOUS
  <2>1. ASSUME NEW r \in Requests, CheckOutCommits(r), ledger' # ledger PROVE CreditedOnce'
    <3> DEFINE q == req[r]
    <3>1. /\ ledger' = Append(ledger, [ref |-> q.day, days |-> Earned(q.work)])
          /\ ~AlreadyCredited(q.day)
      BY <2>1 DEF CheckOutCommits, RollBack, CreditDay
    <3>2. ledger \in Seq([ref : Days, days : {1, 2}])
      BY DEF PunchInv, TypeOK
    <3> HIDE DEF q
    <3> QED
      BY <3>1, <3>2 DEF AlreadyCredited, CreditedOnce
  <2>2. CASE ledger' = ledger
    BY <2>2 DEF CreditedOnce
  <2> QED
    BY <2>1, <2>2, OnlyCheckOut
<1> QED
  BY <1>1, <1>2, PunchInvariant, PTL DEF Spec

(* checkOut's overtime: racing punch-outs raise one pending request per day.  *)
THEOREM DayOvertimeOnce == Spec => []OneOvertimeRequest
<1>1. Init => OneOvertimeRequest
  BY DEF Init, OneOvertimeRequest
<1>2. PunchInv /\ OneOvertimeRequest /\ [Next]_vars => OneOvertimeRequest'
  <2> SUFFICES ASSUME PunchInv, OneOvertimeRequest, [Next]_vars PROVE OneOvertimeRequest'
    OBVIOUS
  <2>1. ASSUME NEW r \in Requests, CheckOutCommits(r) PROVE OneOvertimeRequest'
    <3>1. otRequests' = otRequests \/ RaiseOvertime(req[r].day, req[r].work)
      BY <2>1 DEF CheckOutCommits, RollBack
    <3>2. otRequests \in [Days -> Nat]
      BY DEF PunchInv, TypeOK
    <3> QED
      BY <3>1, <3>2 DEF RaiseOvertime, OneOvertimeRequest
  <2>2. CASE otRequests' = otRequests
    BY <2>2 DEF OneOvertimeRequest
  <2> QED
    BY <2>1, <2>2, OnlyCheckOut
<1> QED
  BY <1>1, <1>2, PunchInvariant, PTL DEF Spec
-----------------------------------------------------------------------------
(* Ids of an offline queue *)

(* That an id is stored once, of any record of the days' events.             *)
StoredOnce(ev) ==
    \A c, d \in Days : \A i \in DOMAIN ev[c], j \in DOMAIN ev[d] :
        ev[c][i].id = ev[d][j].id /\ ev[c][i].id # NoId => c = d /\ i = j

Stored(ev, id) == \E d \in Days : \E i \in DOMAIN ev[d] : ev[d][i].id = id

(* An event without an id, or with one that no event has, may be added.      *)
LEMMA AppendKeepsOnce ==
  ASSUME NEW ev \in [Days -> Seq(EventRecords)], StoredOnce(ev),
         NEW d \in Days, NEW e \in EventRecords, e.id = NoId \/ ~Stored(ev, e.id)
  PROVE  /\ StoredOnce([ev EXCEPT ![d] = Append(ev[d], e)])
         /\ [ev EXCEPT ![d] = Append(ev[d], e)] \in [Days -> Seq(EventRecords)]
         /\ \A id \in Ids : id # e.id /\ Stored([ev EXCEPT ![d] = Append(ev[d], e)], id) => Stored(ev, id)
<1> DEFINE new == [ev EXCEPT ![d] = Append(ev[d], e)]
           n == Len(ev[d])
<1>1. ev[d] \in Seq(EventRecords) /\ n \in Nat /\ DOMAIN ev[d] = 1 .. n
  OBVIOUS
<1>2. /\ Append(ev[d], e) \in Seq(EventRecords)
      /\ DOMAIN Append(ev[d], e) = 1 .. n + 1
      /\ \A i \in 1 .. n : Append(ev[d], e)[i] = ev[d][i]
      /\ Append(ev[d], e)[n + 1] = e
  BY <1>1
<1>3. \A c \in Days : \A i \in DOMAIN new[c] :
         \/ c = d /\ i = n + 1 /\ new[c][i] = e
         \/ i \in DOMAIN ev[c] /\ new[c][i] = ev[c][i]
  BY <1>1, <1>2
<1>4. new \in [Days -> Seq(EventRecords)]
  BY <1>2
<1> HIDE DEF new, n
<1>5. StoredOnce(new)
  <2> SUFFICES ASSUME NEW b \in Days, NEW c \in Days, NEW i \in DOMAIN new[b], NEW j \in DOMAIN new[c],
                      new[b][i].id = new[c][j].id, new[b][i].id # NoId
               PROVE  b = c /\ i = j
    BY DEF StoredOnce
  <2>1. CASE i \in DOMAIN ev[b] /\ new[b][i] = ev[b][i] /\ j \in DOMAIN ev[c] /\ new[c][j] = ev[c][j]
    BY <2>1 DEF StoredOnce
  <2>2. CASE b = d /\ i = n + 1 /\ new[b][i] = e
    BY <1>3, <2>2 DEF Stored
  <2>3. CASE c = d /\ j = n + 1 /\ new[c][j] = e
    BY <1>3, <2>3 DEF Stored
  <2> QED
    BY <1>3, <2>1, <2>2, <2>3
<1>6. \A id \in Ids : id # e.id /\ Stored(new, id) => Stored(ev, id)
  BY <1>3 DEF Stored
<1> QED
  BY <1>4, <1>5, <1>6 DEF new

(* What a commit adds to the events of a day: nothing with an id that is       *)
(* stored already.                                                          *)
LEMMA CommitStoresOnce ==
  ASSUME PunchInv, PunchRecordedOnce, NEW r \in Requests, Commits(r)
  PROVE  PunchRecordedOnce'
<1> DEFINE q == req[r]
<1>1. events \in [Days -> Seq(EventRecords)] /\ StoredOnce(events)
  BY DEF PunchInv, TypeOK, PunchRecordedOnce, StoredOnce
<1>2. SUFFICES StoredOnce(events')
  BY DEF PunchRecordedOnce, StoredOnce
<1>3. \A id \in Ids : id # NoId /\ ~IdUsed(id) => ~Stored(events, id)
  BY DEF IdUsed, Stored
<1>4. CASE events' = events
  BY <1>1, <1>4
<1>5. CASE CheckInCommits(r) /\ events' # events
  <2> DEFINE e == Event("CHECK_IN", q.at, q.id)
  <2>1. q \in CheckIns
    BY <1>5, InFlightCases DEF CheckInCommits
  <2>2. e \in EventRecords /\ e.id = q.id /\ q.day \in Days /\ q.id \in Ids
    BY <2>1 DEF CheckIns, Event, EventRecords, EventTypes
  <2>3. ~IdUsed(q.id) /\ events' = [events EXCEPT ![q.day] = Append(events[q.day], e)]
    BY <1>5 DEF CheckInCommits, RollBack
  <2>4. e.id = NoId \/ ~Stored(events, e.id)
    BY <1>3, <2>2, <2>3
  <2> HIDE DEF e, q
  <2> QED
    BY <1>1, <2>2, <2>3, <2>4, AppendKeepsOnce
<1>6. CASE CheckOutCommits(r) /\ events' # events
  <2> DEFINE c == Event(EndType(q.open), q.at, NoId)
             closing == IF q.open = NoPause THEN <<>> ELSE <<c>>
             e == Event("CHECK_OUT", q.at, q.id)
             mid == IF q.open = NoPause THEN events ELSE [events EXCEPT ![q.day] = Append(events[q.day], c)]
  <2>1. q \in CheckOuts
    BY <1>6, InFlightCases DEF CheckOutCommits
  <2>2. e \in EventRecords /\ e.id = q.id /\ q.day \in Days /\ q.id \in Ids
    BY <2>1 DEF CheckOuts, Event, EventRecords, EventTypes
  <2>3. c \in EventRecords /\ c.id = NoId
    BY <2>1 DEF CheckOuts, Event, EndType, EventRecords, EventTypes, Ids
  <2>4. ~IdUsed(q.id) /\ events' = [events EXCEPT ![q.day] = events[q.day] \o closing \o <<e>>]
    BY <1>6 DEF CheckOutCommits, RollBack
  <2> HIDE DEF c, e, q
  <2>5. /\ mid \in [Days -> Seq(EventRecords)] /\ StoredOnce(mid)
        /\ \A id \in Ids : id # NoId /\ Stored(mid, id) => Stored(events, id)
    BY <1>1, <2>2, <2>3, AppendKeepsOnce
  <2>6. events[q.day] \o closing \o <<e>> = Append(mid[q.day], e)
    <3>1. events[q.day] \in Seq(EventRecords)
      BY <1>1, <2>2
    <3>2. mid[q.day] = events[q.day] \o closing
      <4>1. CASE q.open = NoPause
        BY <3>1, <4>1
      <4>2. CASE q.open # NoPause
        <5>1. mid[q.day] = Append(events[q.day], c) /\ closing = <<c>>
          BY <1>1, <2>2, <4>2
        <5> HIDE DEF mid, closing
        <5> QED
          BY <2>3, <3>1, <5>1
      <4> QED
        BY <4>1, <4>2
    <3> HIDE DEF mid, closing
    <3>3. mid[q.day] \in Seq(EventRecords)
      BY <2>2, <2>5
    <3> QED
      BY <2>2, <3>2, <3>3
  <2>7. events' = [mid EXCEPT ![q.day] = Append(mid[q.day], e)]
    BY <1>1, <2>2, <2>4, <2>6
  <2>8. e.id = NoId \/ ~Stored(mid, e.id)
    BY <1>3, <2>2, <2>4, <2>5
  <2> HIDE DEF mid, closing
  <2> QED
    BY <2>2, <2>5, <2>7, <2>8, AppendKeepsOnce
<1>7. CASE StartPauseCommits(r)
  <2> DEFINE e == Event(StartType(q.kind), q.at, NoId)
  <2>1. q \in Starts
    BY <1>7, InFlightCases DEF StartPauseCommits
  <2>2. e \in EventRecords /\ e.id = NoId /\ q.day \in Days
    BY <2>1 DEF Starts, Event, StartType, EventRecords, EventTypes, Ids
  <2>3. events' = [events EXCEPT ![q.day] = Append(events[q.day], e)]
    BY <1>7 DEF StartPauseCommits
  <2> HIDE DEF e, q
  <2> QED
    BY <1>1, <2>2, <2>3, AppendKeepsOnce
<1>8. CASE EndPauseCommits(r)
  <2> DEFINE e == Event(EndType(q.kind), q.at, NoId)
  <2>1. q \in Ends
    BY <1>8, InFlightCases DEF EndPauseCommits
  <2>2. e \in EventRecords /\ e.id = NoId /\ q.day \in Days
    BY <2>1 DEF Ends, Event, EndType, EventRecords, EventTypes, Ids
  <2>3. events' = [events EXCEPT ![q.day] = Append(events[q.day], e)]
    BY <1>8 DEF EndPauseCommits
  <2> HIDE DEF e, q
  <2> QED
    BY <1>1, <2>2, <2>3, AppendKeepsOnce
<1> QED
  BY <1>4, <1>5, <1>6, <1>7, <1>8 DEF Commits

(* Only a commit writes events. *)
LEMMA OnlyCommits ==
  ASSUME [Next]_vars
  PROVE  events' = events \/ \E r \in Requests : Commits(r)
<1>1. CASE Tick \/ UNCHANGED vars \/ \E d \in Days : MarkAbsent(d)
  BY <1>1 DEF Tick, vars, MarkAbsent
<1>2. ASSUME NEW r \in Requests, NEW t \in Instants,
             \/ CheckInReads(r, t, NoId) \/ WfhCheckInReads(r, t) \/ CheckOutReads(r, t, NoId)
             \/ \E id \in ClientIds : syncOfflinePunches(r, t, id)
             \/ \E kind \in Pauses : StartPauseReads(r, t, kind) \/ EndPauseReads(r, t, kind)
      PROVE  events' = events
  BY <1>2 DEF syncOfflinePunches, CheckOutReads, CheckInReads, WfhCheckInReads, StartPauseReads, EndPauseReads, Accept
<1> QED
  BY <1>1, <1>2 DEF Next

(* syncOfflinePunches and the unique clientEventId: a queue that is sent again, *)
(* or over several connections at once, stores each of its punches once.        *)
THEOREM PunchesRecordedOnce == Spec => []PunchRecordedOnce
<1>1. Init => PunchRecordedOnce
  BY DEF Init, PunchRecordedOnce
<1>2. PunchInv /\ PunchRecordedOnce /\ [Next]_vars => PunchRecordedOnce'
  <2> SUFFICES ASSUME PunchInv, PunchRecordedOnce, [Next]_vars PROVE PunchRecordedOnce'
    OBVIOUS
  <2>1. CASE events' = events
    BY <2>1 DEF PunchRecordedOnce
  <2> QED
    BY <2>1, OnlyCommits, CommitStoresOnce
<1> QED
  BY <1>1, <1>2, PunchInvariant, PTL DEF Spec

-----------------------------------------------------------------------------
(***************************************************************************)
(* Days off.  A row that was punched while the day was off says PRESENT, and *)
(* one without a punch is the sweep's or a leave's; so does what a punch in   *)
(* flight will write, whatever the calendar becomes before it is written.    *)
(***************************************************************************)
PunchedOff ==
  mark # None =>
    /\ mark = [status |-> mark.status, in |-> mark.in, out |-> mark.out, shift |-> mark.shift, off |-> mark.off]
    /\ mark.in /\ mark.off => mark.status = "PRESENT"
    /\ mark.in => mark.status \in {"PRESENT", "LATE", "HALF_DAY"}
    /\ ~mark.in => mark.status \in {"ABSENT", "WEEK_OFF", "ON_LEAVE"}

PunchWaits ==
  LET q == calls["employee"]
  IN  q # None =>
        /\ q.op \in {"checkIn", "checkOut"} => /\ q.off => q.status = "PRESENT"
                                               /\ q.status \in {"PRESENT", "LATE", "HALF_DAY"}
        /\ q.op = "checkOut" => O!PunchedIn

MarkWaits ==
  LET q == calls["sweep"]
  IN  q # None => q.op = "mark" /\ q.status \in {"WEEK_OFF", "ABSENT"}

CalendarInv == DOMAIN calls = O!Actors /\ PunchedOff /\ PunchWaits /\ MarkWaits

(* What each request reads and writes of it. *)
LEMMA OffIsNonWorking == \A s : O!Off(s) => O!NonWorking(s)
BY DEF O!Off, O!NonWorking, O!findDayOff

LEMMA StartEmployee ==
  ASSUME CalendarInv, UNCHANGED mark, NEW q, O!Start("employee", q),
         q.op \in {"checkIn", "checkOut"} => /\ q.off => q.status = "PRESENT"
                                             /\ q.status \in {"PRESENT", "LATE", "HALF_DAY"},
         q.op = "checkOut" => O!PunchedIn
  PROVE  CalendarInv'
<1>1. DOMAIN calls' = O!Actors /\ calls'["employee"] = q /\ calls'["sweep"] = calls["sweep"]
  BY DEF CalendarInv, O!Start, O!Actors
<1> QED
  BY <1>1 DEF CalendarInv, PunchedOff, PunchWaits, MarkWaits, O!PunchedIn

LEMMA StartAdmin ==
  ASSUME CalendarInv, UNCHANGED mark, NEW q, O!Start("admin", q)
  PROVE  CalendarInv'
<1>1. DOMAIN calls' = O!Actors /\ calls'["employee"] = calls["employee"] /\ calls'["sweep"] = calls["sweep"]
  BY DEF CalendarInv, O!Start, O!Actors
<1> QED
  BY <1>1 DEF CalendarInv, PunchedOff, PunchWaits, MarkWaits, O!PunchedIn

LEMMA FinishAny ==
  ASSUME CalendarInv, NEW a \in O!Actors, NEW op, O!Finish(a, op), PunchedOff',
         a = "employee" \/ (O!PunchedIn => mark' = mark)
  PROVE  CalendarInv'
<1>1. DOMAIN calls' = O!Actors /\ calls'[a] = None /\ \A x \in O!Actors : x # a => calls'[x] = calls[x]
  BY DEF CalendarInv, O!Finish
<1>2. calls'["employee"] = None \/ (calls'["employee"] = calls["employee"] /\ a # "employee")
  BY <1>1 DEF O!Actors
<1>3. calls'["sweep"] = None \/ calls'["sweep"] = calls["sweep"]
  BY <1>1 DEF O!Actors
<1>4. PunchWaits'
  BY <1>2 DEF CalendarInv, PunchWaits, O!PunchedIn
<1> QED
  BY <1>1, <1>3, <1>4 DEF CalendarInv, MarkWaits

LEMMA CalendarRests ==
  ASSUME CalendarInv, UNCHANGED <<mark, calls>> PROVE CalendarInv'
BY DEF CalendarInv, PunchedOff, PunchWaits, MarkWaits, O!PunchedIn

LEMMA PunchSteps ==
  ASSUME CalendarInv,
         \/ \E by \in O!Punchers \cup {"device"}, status \in {"PRESENT", "LATE"} : O!CheckInReads(by, status)
         \/ \E status \in {"PRESENT", "LATE", "HALF_DAY"} : O!CheckOutReads(status)
         \/ O!CheckInCommits \/ O!CheckOutCommits
  PROVE  CalendarInv'
<1>1. ASSUME NEW by, NEW status \in {"PRESENT", "LATE"}, O!CheckInReads(by, status) PROVE CalendarInv'
  <2>1. PICK q : q = [op |-> "checkIn", status |-> status, shift |-> O!resolveShift, off |-> O!Off(O!resolveShift)]
    OBVIOUS
  <2>2. O!Start("employee", q) /\ UNCHANGED mark /\ (status = "LATE" => ~O!NonWorking(O!resolveShift))
    BY <1>1, <2>1 DEF O!CheckInReads
  <2>3. q.op = "checkIn" /\ q.status = status /\ q.off = O!Off(O!resolveShift)
    BY <2>1
  <2>4. q.off => q.status = "PRESENT"
    BY <2>2, <2>3, OffIsNonWorking
  <2> QED
    BY <2>2, <2>3, <2>4, StartEmployee
<1>2. ASSUME NEW status \in {"PRESENT", "LATE", "HALF_DAY"}, O!CheckOutReads(status) PROVE CalendarInv'
  <2>1. PICK s : s = IF mark.shift # None THEN mark.shift ELSE O!resolveShift
    OBVIOUS
  <2>2. PICK q : q = [op |-> "checkOut", status |-> status, off |-> O!Off(s)]
    OBVIOUS
  <2>3. O!Start("employee", q) /\ UNCHANGED mark /\ (status # "PRESENT" => ~O!NonWorking(s)) /\ O!PunchedIn
    BY <1>2, <2>1, <2>2 DEF O!CheckOutReads
  <2>4. q.op = "checkOut" /\ q.status = status /\ q.off = O!Off(s)
    BY <2>2
  <2>5. q.off => q.status = "PRESENT"
    BY <2>3, <2>4, OffIsNonWorking
  <2> QED
    BY <2>3, <2>4, <2>5, StartEmployee
<1>3. CASE O!CheckInCommits
  <2>1. PICK q : q = calls["employee"]
    OBVIOUS
  <2>2. O!Finish("employee", "checkIn") /\ q # None /\ q.op = "checkIn"
    BY <1>3, <2>1 DEF O!CheckInCommits, O!Finish
  <2>3. PICK r : r = [status |-> q.status, in |-> TRUE, out |-> mark # None /\ mark.out, shift |-> q.shift, off |-> q.off]
    OBVIOUS
  <2>4. mark' = r
    BY <1>3, <2>1, <2>3 DEF O!CheckInCommits
  <2>5. r.in = TRUE /\ r.status = q.status /\ r.off = q.off
        /\ r = [status |-> r.status, in |-> r.in, out |-> r.out, shift |-> r.shift, off |-> r.off]
    BY <2>3
  <2>6. (q.off => q.status = "PRESENT") /\ q.status \in {"PRESENT", "LATE", "HALF_DAY"}
    BY <2>1, <2>2 DEF CalendarInv, PunchWaits
  <2>7. PunchedOff'
    BY <2>4, <2>5, <2>6 DEF PunchedOff
  <2> QED
    BY <2>2, <2>7, FinishAny DEF O!Actors
<1>4. CASE O!CheckOutCommits
  <2>1. PICK q : q = calls["employee"]
    OBVIOUS
  <2>2. O!Finish("employee", "checkOut") /\ q # None /\ q.op = "checkOut"
    BY <1>4, <2>1 DEF O!CheckOutCommits, O!Finish
  <2>3. mark # None /\ mark.in /\ (q.off => q.status = "PRESENT") /\ q.status \in {"PRESENT", "LATE", "HALF_DAY"}
    BY <2>1, <2>2 DEF CalendarInv, PunchWaits, O!PunchedIn
  <2>4. mark = [status |-> mark.status, in |-> mark.in, out |-> mark.out, shift |-> mark.shift, off |-> mark.off]
    BY <2>3 DEF CalendarInv, PunchedOff
  <2>5. PICK r : r = [status |-> q.status, in |-> mark.in, out |-> TRUE, shift |-> mark.shift, off |-> mark.off /\ q.off]
    OBVIOUS
  <2>6. mark' = [mark EXCEPT !.status = q.status, !.out = TRUE, !.off = @ /\ q.off]
    BY <1>4, <2>1 DEF O!CheckOutCommits
  <2>7. mark' = r
    <3>1. PICK b : b = (mark.off /\ q.off)
      OBVIOUS
    <3>2. mark' = [mark EXCEPT !.status = q.status, !.out = TRUE, !.off = b]
      BY <2>6, <3>1
    <3>3. r = [status |-> q.status, in |-> mark.in, out |-> TRUE, shift |-> mark.shift, off |-> b]
      BY <2>5, <3>1
    <3>4. PICK st, i, o, h, f : mark = [status |-> st, in |-> i, out |-> o, shift |-> h, off |-> f]
      BY <2>4
    <3>5. mark.in = i /\ mark.shift = h
      BY <3>4
    <3>6. mark' = [status |-> q.status, in |-> i, out |-> TRUE, shift |-> h, off |-> b]
      BY <3>2, <3>4
    <3> QED
      BY <3>3, <3>5, <3>6
  <2>8. r.in = mark.in /\ r.status = q.status /\ r.off = (mark.off /\ q.off)
        /\ r = [status |-> r.status, in |-> r.in, out |-> r.out, shift |-> r.shift, off |-> r.off]
    BY <2>5
  <2>9. PunchedOff'
    BY <2>3, <2>7, <2>8 DEF PunchedOff
  <2> QED
    BY <2>2, <2>9, FinishAny DEF O!Actors
<1> QED
  BY <1>1, <1>2, <1>3, <1>4

LEMMA MarkSteps ==
  ASSUME CalendarInv,
         \/ O!SweepReads \/ O!SweepCommits \/ O!cancelLeave
         \/ \E kind \in {"paid", "unpaid"} : O!ApproveLeave(kind)
  PROVE  CalendarInv'
<1>1. CASE O!SweepReads
  <2>1. PICK q : q = [op |-> "mark", status |-> O!SweepVerdict]
    OBVIOUS
  <2>2. O!Start("sweep", q) /\ UNCHANGED mark /\ O!SweepVerdict # "skip"
    BY <1>1, <2>1 DEF O!SweepReads
  <2>3. q.op = "mark" /\ q.status \in {"WEEK_OFF", "ABSENT"}
    BY <2>1, <2>2 DEF O!SweepVerdict
  <2>4. DOMAIN calls' = O!Actors /\ calls'["employee"] = calls["employee"] /\ calls'["sweep"] = q
    BY <2>2 DEF CalendarInv, O!Start, O!Actors
  <2> QED
    BY <2>2, <2>3, <2>4 DEF CalendarInv, PunchedOff, PunchWaits, MarkWaits, O!PunchedIn
<1>2. CASE O!SweepCommits
  <2>1. PICK q : q = calls["sweep"]
    OBVIOUS
  <2>2. O!Finish("sweep", "mark") /\ q # None
    BY <1>2, <2>1 DEF O!SweepCommits, O!Finish
  <2>3. q.status \in {"WEEK_OFF", "ABSENT"}
    BY <2>1, <2>2 DEF CalendarInv, MarkWaits
  <2>4. PICK r : r = [status |-> q.status, in |-> FALSE, out |-> FALSE, shift |-> assigned, off |-> FALSE]
    OBVIOUS
  <2>5. mark' = IF mark # None THEN mark ELSE r
    BY <1>2, <2>1, <2>4 DEF O!SweepCommits
  <2>6. r.in = FALSE /\ r.status = q.status
        /\ r = [status |-> r.status, in |-> r.in, out |-> r.out, shift |-> r.shift, off |-> r.off]
    BY <2>4
  <2>7. PunchedOff'
    BY <2>3, <2>5, <2>6 DEF CalendarInv, PunchedOff
  <2> QED
    BY <2>2, <2>5, <2>7, FinishAny DEF O!Actors, O!PunchedIn
<1>3. ASSUME UNCHANGED calls, PunchedOff', O!PunchedIn => mark' = mark PROVE CalendarInv'
  BY <1>3 DEF CalendarInv, PunchWaits, MarkWaits, O!PunchedIn
<1>4. CASE O!cancelLeave
  <2>1. UNCHANGED calls /\ (mark' = mark \/ (mark' = None /\ ~O!PunchedIn))
    BY <1>4 DEF O!cancelLeave
  <2> QED
    BY <1>3, <2>1 DEF CalendarInv, PunchedOff
<1>5. ASSUME NEW kind, O!ApproveLeave(kind) PROVE CalendarInv'
  <2>1. PICK r : r = [status |-> "ON_LEAVE", in |-> FALSE, out |-> FALSE, shift |-> assigned, off |-> FALSE]
    OBVIOUS
  <2>2. UNCHANGED calls
    BY <1>5 DEF O!ApproveLeave
  <2>3. CASE mark' = mark
    BY <1>3, <2>2, <2>3 DEF CalendarInv, PunchedOff
  <2>4. CASE mark = None /\ mark' = r
    <3>1. r.in = FALSE /\ r.status = "ON_LEAVE"
          /\ r = [status |-> r.status, in |-> r.in, out |-> r.out, shift |-> r.shift, off |-> r.off]
      BY <2>1
    <3>2. PunchedOff'
      BY <2>4, <3>1 DEF PunchedOff
    <3> QED
      BY <1>3, <2>2, <2>4, <3>2 DEF O!PunchedIn
  <2>5. CASE mark # None /\ ~O!PunchedIn /\ mark' = [mark EXCEPT !.status = "ON_LEAVE"]
    <3>1. mark = [status |-> mark.status, in |-> mark.in, out |-> mark.out, shift |-> mark.shift, off |-> mark.off] /\ ~mark.in
      BY <2>5 DEF CalendarInv, PunchedOff, O!PunchedIn
    <3>2. PICK q : q = [status |-> "ON_LEAVE", in |-> mark.in, out |-> mark.out, shift |-> mark.shift, off |-> mark.off]
      OBVIOUS
    <3>3. mark' = q
      BY <2>5, <3>1, <3>2
    <3>4. q.in = mark.in /\ q.status = "ON_LEAVE"
          /\ q = [status |-> q.status, in |-> q.in, out |-> q.out, shift |-> q.shift, off |-> q.off]
      BY <3>2
    <3>5. PunchedOff'
      BY <3>1, <3>3, <3>4 DEF PunchedOff
    <3> QED
      BY <1>3, <2>2, <2>5, <3>5
  <2> QED
    BY <1>5, <2>1, <2>3, <2>4, <2>5 DEF O!ApproveLeave
<1> QED
  BY <1>1, <1>2, <1>4, <1>5

(* Changes of the calendar, and requests that touch no row. *)
LEMMA CalendarSteps ==
  ASSUME CalendarInv,
         \/ \E h \in O!Holidays : O!createHoliday(h) \/ O!deleteHoliday(h) \/ \E g \in O!Holidays : O!updateHoliday(h, g)
         \/ \E S \in SUBSET O!Holidays : O!bulkCreateHolidays(S)
         \/ \E c \in O!CompanyLeaves : O!AnnounceReads(c) \/ O!WithdrawReads(c)
         \/ O!AnnounceCommits \/ O!WithdrawCommits \/ O!ApprovePayslip
         \/ \E worked \in BOOLEAN : O!updatePolicy(worked) \/ \E s \in Shifts : O!updateShift(s, worked)
         \/ \E s \in Shifts : O!assignEmployeesToShift(s) \/ O!setOverride(s)
         \/ O!removeEmployeeFromShift \/ O!deleteOverride
         \/ O!AskReads \/ O!AskCommits
         \/ \E status \in {"APPROVED", "REJECTED"} : O!ReviewReads(status)
         \/ O!ReviewCommits
  PROVE  CalendarInv'
<1>1. ASSUME NEW H, O!Rewrite(H) PROVE CalendarInv'
  BY <1>1, CalendarRests DEF O!Rewrite
<1>2. ASSUME NEW w, NEW a, NEW o, O!Reshift(w, a, o) PROVE CalendarInv'
  BY <1>2, CalendarRests DEF O!Reshift
<1>3. ASSUME NEW h, O!createHoliday(h) \/ O!deleteHoliday(h) \/ \E g \in O!Holidays : O!updateHoliday(h, g) PROVE CalendarInv'
  BY <1>1, <1>3 DEF O!createHoliday, O!deleteHoliday, O!updateHoliday
<1>4. ASSUME NEW S, O!bulkCreateHolidays(S) PROVE CalendarInv'
  BY <1>1, <1>4 DEF O!bulkCreateHolidays
<1>5. ASSUME NEW q, O!Start("admin", q), UNCHANGED mark PROVE CalendarInv'
  BY <1>5, StartAdmin
<1>6. ASSUME NEW op, O!Finish("admin", op), UNCHANGED mark PROVE CalendarInv'
  <2>1. PunchedOff'
    BY <1>6 DEF CalendarInv, PunchedOff
  <2> QED
    BY <1>6, <2>1, FinishAny DEF O!Actors
<1>7. ASSUME NEW c, O!AnnounceReads(c) \/ O!WithdrawReads(c) PROVE CalendarInv'
  BY <1>5, <1>7 DEF O!AnnounceReads, O!WithdrawReads
<1>8. CASE O!AnnounceCommits \/ O!WithdrawCommits \/ O!ReviewCommits
  BY <1>6, <1>8 DEF O!AnnounceCommits, O!WithdrawCommits, O!ReviewCommits
<1>9. CASE O!ApprovePayslip
  BY <1>9, CalendarRests DEF O!ApprovePayslip
<1>10. ASSUME NEW worked, O!updatePolicy(worked) \/ \E s \in Shifts : O!updateShift(s, worked) PROVE CalendarInv'
  BY <1>2, <1>10 DEF O!updatePolicy, O!updateShift
<1>11. ASSUME NEW s, O!assignEmployeesToShift(s) \/ O!setOverride(s) PROVE CalendarInv'
  BY <1>2, <1>11 DEF O!assignEmployeesToShift, O!setOverride
<1>12. CASE O!removeEmployeeFromShift \/ O!deleteOverride
  BY <1>2, <1>12 DEF O!removeEmployeeFromShift, O!deleteOverride
<1>13. CASE O!AskReads
  <2>1. PICK q : q = [op |-> "ask"]
    OBVIOUS
  <2>2. O!Start("employee", q) /\ UNCHANGED mark /\ q.op = "ask"
    BY <1>13, <2>1 DEF O!AskReads
  <2> QED
    BY <2>2, StartEmployee
<1>14. CASE O!AskCommits
  <2>1. O!Finish("employee", "ask") /\ UNCHANGED mark
    BY <1>14 DEF O!AskCommits
  <2>2. PunchedOff'
    BY <2>1 DEF CalendarInv, PunchedOff
  <2> QED
    BY <2>1, <2>2, FinishAny DEF O!Actors
<1>15. ASSUME NEW status, O!ReviewReads(status) PROVE CalendarInv'
  BY <1>5, <1>15 DEF O!ReviewReads
<1> QED
  BY <1>3, <1>4, <1>7, <1>8, <1>9, <1>10, <1>11, <1>12, <1>13, <1>14, <1>15

LEMMA CalendarStepKeeps ==
  CalendarInv /\ [PunchStep \/ CalendarStep \/ CorrectionStep]_<<side, vars, offVars, correctionVars>>
    => CalendarInv'
<1> SUFFICES ASSUME CalendarInv,
                    [PunchStep \/ CalendarStep \/ CorrectionStep]_<<side, vars, offVars, correctionVars>>
             PROVE  CalendarInv'
  OBVIOUS
<1>1. CASE PunchStep \/ CorrectionStep \/ UNCHANGED <<side, vars, offVars, correctionVars>>
  BY <1>1, CalendarRests DEF PunchStep, CorrectionStep, offVars
<1>2. CASE O!Next
  <2>1. ASSUME NEW type, NEW status \in {"PRESENT", "LATE", "HALF_DAY"}, O!ingestPunch(type, status),
               type = "IN" => status # "HALF_DAY"
        PROVE  CalendarInv'
    BY <2>1, PunchSteps DEF O!ingestPunch
  <2> QED
    BY <1>2, <2>1, PunchSteps, MarkSteps, CalendarSteps DEF O!Next
<1> QED
  BY <1>1, <1>2 DEF CalendarStep

(* Of an employee with a shift and no override, every service says the same.  *)
LEMMA AllAgree == O!OneAnswer
<1>1. O!CanPunch = O!Admitted("employee")
  BY DEF O!CanPunch, O!Admitted
<1> SUFFICES ASSUME override = None, assigned # None
             PROVE  /\ O!Reminded = (~O!getDayOff /\ leave = "none")
                    /\ (O!BranchColumn = "off") = O!getDayOff
                    /\ O!VirtualAbsent = (O!BranchColumn = "absent")
                    /\ (O!SweepVerdict = "ABSENT") = O!VirtualAbsent
  BY <1>1 DEF O!OneAnswer
<1>2. PICK closedByHoliday : closedByHoliday = \E h \in holidays : ~h.optional /\ O!Covers(h)
  OBVIOUS
<1>3. PICK closedByLeave : closedByLeave = \E c \in companyLeaves : O!Covers(c)
  OBVIOUS
<1>4. O!getDayOff <=> closedByHoliday \/ closedByLeave \/ ~works[assigned]
  BY <1>2, <1>3 DEF O!getDayOff, O!Off, O!findDayOff, O!isWorkingDay, O!resolveShift
<1>5. /\ closedByHoliday <=> O!Closes(O!Binding)
      /\ closedByHoliday <=> \E h \in O!Binding : h.branch = None \/ h.branch = branch
  BY <1>2 DEF O!Closes, O!Binding, O!Covers
<1>6. /\ closedByLeave <=> O!Closes(companyLeaves)
      /\ closedByLeave <=> \E c \in companyLeaves : c.branch = None \/ c.branch = branch
  BY <1>3 DEF O!Closes, O!Covers
<1>7. O!Closes(O!Binding \cup companyLeaves) <=> O!Closes(O!Binding) \/ O!Closes(companyLeaves)
  BY DEF O!Closes
<1>8. O!WeeklyOff <=> ~works[assigned]
  BY DEF O!WeeklyOff
<1>9. O!Reminded <=> (~O!getDayOff /\ leave = "none")
  BY <1>4, <1>5, <1>6 DEF O!Reminded, O!isWorkingDay
<1>10. (O!BranchColumn = "off") <=> O!getDayOff
  BY <1>4, <1>5, <1>6, <1>7, <1>8 DEF O!BranchColumn
<1>11. O!VirtualAbsent <=> (O!BranchColumn = "absent")
  BY <1>7, <1>8 DEF O!BranchColumn, O!VirtualAbsent
<1>12. (O!SweepVerdict = "ABSENT") <=> O!VirtualAbsent
  BY <1>8 DEF O!SweepVerdict, O!VirtualAbsent
<1> QED
  BY <1>9, <1>10, <1>11, <1>12 DEF O!Reminded, O!getDayOff, O!Off, O!VirtualAbsent

LEMMA OffIsFree ==
  ASSUME CalendarInv PROVE O!NotCharged
<1> DEFINE r == O!PayRecord
           class == O!DayClass(r, FALSE)
<1> SUFFICES ASSUME O!getDayOff, \A c \in companyLeaves : O!Covers(c) => c.paid, override = None, assigned # None,
                    leave # "unpaid", O!PunchedIn => mark.off
             PROVE  class["unpaid"] = 0 /\ class["late"] = 0
  BY DEF O!NotCharged
<1>1. /\ r.holiday = (\E h \in holidays : O!Covers(h)) /\ r.works = works[assigned] /\ r.leave = leave
      /\ r.status = IF mark = None THEN None ELSE mark.status
      /\ r.company = {IF c.paid THEN "paid" ELSE "unpaid" : c \in {x \in companyLeaves : O!Covers(x)}}
  BY DEF O!PayRecord
<1>2. r.holiday \/ r.company # {} \/ ~r.works
  <2>1. O!findDayOff \/ ~works[assigned]
    BY DEF O!getDayOff, O!Off, O!isWorkingDay, O!resolveShift
  <2> QED
    BY <1>1, <2>1 DEF O!findDayOff
<1>3. "unpaid" \notin r.company
  BY <1>1
<1>4. r.leave # "unpaid"
  BY <1>1
<1>5. mark # None => mark.status \in {"PRESENT", "ABSENT", "WEEK_OFF", "ON_LEAVE"}
  BY DEF CalendarInv, PunchedOff, O!PunchedIn
<1>6. r.status \in {None, "PRESENT", "ABSENT", "WEEK_OFF", "ON_LEAVE"}
  BY <1>1, <1>5
<1> HIDE DEF r
<1>7. class \in {[O!Zero EXCEPT !.holiday = 2], [O!Zero EXCEPT !.weekOff = 2], [O!Zero EXCEPT !.present = 2], [O!Zero EXCEPT !.paid = 2]}
  BY <1>2, <1>3, <1>4, <1>6, NoStatusAssumption DEF O!DayClass, O!UnpaidLeave, O!CompanyPaid, O!Statuses
<1> HIDE DEF class
<1> QED
  BY <1>7 DEF O!Zero, O!Kinds

(* Punching, leave, the absent marker, the dashboards and payroll agree about   *)
(* a day off, which costs its employee nothing: for any branches and shifts,    *)
(* and whenever holidays, leaves, shifts and punches change around it.         *)
THEOREM DayOffIsAgreed == AttendanceSpec => []DayOffHolds
<1>1. AttendanceInit => CalendarInv
  <2> SUFFICES ASSUME AttendanceInit PROVE CalendarInv
    OBVIOUS
  <2>1. mark = None /\ calls = [a \in O!Actors |-> None]
    BY DEF AttendanceInit, O!Init
  <2> QED
    BY <2>1 DEF CalendarInv, PunchedOff, PunchWaits, MarkWaits, O!Actors
<1>2. CalendarInv => DayOffHolds
  BY AllAgree, OffIsFree DEF DayOffHolds, O!DayOffHolds
<1> QED
  BY <1>1, CalendarStepKeeps, <1>2, PTL DEF AttendanceSpec

-----------------------------------------------------------------------------
(* The corrections of what was recorded.                                    *)

LEMMA CorrectionConstants == MaxMarks \in Nat /\ None \notin K!Rows
BY CorrectionAssumption DEF K!CorrectionAssumption, K!NoRowAssumption

(* A review in flight is of a correction that exists; corrections are never  *)
(* removed.                                                                 *)
ReviewExists == \A s \in Slots : claims[s] # None /\ claims[s].op = "review" => claims[s].c \in DOMAIN corr

CorrectionInv == K!TypeOK /\ ReviewExists /\ K!ApprovedHasRow

(* An element is a request if it is not None: None is no record.            *)
LEMMA ClaimCases ==
    ASSUME K!TypeOK, NEW s \in Slots, claims[s] # None
    PROVE  /\ claims[s] \in K!Creates \cup K!Reviews
           /\ claims[s].op = "create" => claims[s] \in K!Creates
           /\ claims[s].op = "review" => claims[s] \in K!Reviews
BY DEF K!TypeOK, K!Creates, K!Reviews

(* Overwriting keeps rows typed, gives the day a row, and keeps its times.   *)
LEMMA OverwrittenKeeps ==
    ASSUME NEW d \in Dates, NEW in \in K!MaybeTime, NEW out \in K!MaybeTime,
           record \in [Dates -> K!Rows \cup {None}]
    PROVE  LET new == K!Overwrite(d, in, out)
           IN  /\ new \in [Dates -> K!Rows \cup {None}]
               /\ new[d] # None
               /\ \A e \in Dates : record[e] # None =>
                     /\ new[e] # None
                     /\ record[e].in # None => new[e].in # None
                     /\ record[e].out # None => new[e].out # None
<1> DEFINE r == IF record[d] = None THEN [in |-> in, out |-> out]
                ELSE [in |-> K!Given(in, record[d].in), out |-> K!Given(out, record[d].out)]
<1>1. K!Overwrite(d, in, out) = [record EXCEPT ![d] = r]
  BY DEF K!Overwrite
<1>2. r \in K!Rows
  <2>1. CASE record[d] = None
    BY <2>1 DEF K!Rows
  <2>2. CASE record[d] # None
    <3>1. record[d] \in K!Rows
      BY <2>2
    <3>2. K!Given(in, record[d].in) \in K!MaybeTime /\ K!Given(out, record[d].out) \in K!MaybeTime
      BY <3>1 DEF K!Given, K!Rows
    <3> QED  BY <2>2, <3>2 DEF K!Rows
  <2> QED  BY <2>1, <2>2
<1>3. record[d] # None => /\ record[d].in # None => r.in # None
                          /\ record[d].out # None => r.out # None
  BY DEF K!Given
<1> HIDE DEF r
<1> QED  BY <1>1, <1>2, <1>3, CorrectionConstants

(* What a step does to the corrections keeps the invariant, if the rows it    *)
(* leaves keep the old ones' existence.                                     *)
LEMMA AppendedKeeps ==
    ASSUME CorrectionInv, NEW k \in K!Corrections,
           corr' = Append(corr, k), record' \in [Dates -> K!Rows \cup {None}],
           \A e \in Dates : record[e] # None => record'[e] # None,
           k.status = "APPROVED" => record'[k.day] # None /\ k.linked
    PROVE  /\ corr' \in Seq(K!Corrections)
           /\ DOMAIN corr \subseteq DOMAIN corr'
           /\ K!ApprovedHasRow'
<1>1. corr \in Seq(K!Corrections) /\ K!ApprovedHasRow
  BY DEF CorrectionInv, K!TypeOK
<1>2. corr' \in Seq(K!Corrections) /\ DOMAIN corr \subseteq DOMAIN corr'
  BY <1>1
<1>3. ASSUME NEW c \in DOMAIN corr', corr'[c].status = "APPROVED"
      PROVE  record'[corr'[c].day] # None /\ corr'[c].linked
  <2>1. CASE c \in DOMAIN corr
    <3>1. corr'[c] = corr[c] /\ corr[c] \in K!Corrections
      BY <1>1, <2>1
    <3>2. corr[c].day \in Dates
      BY <3>1 DEF K!Corrections
    <3> QED  BY <1>1, <1>3, <2>1, <3>1, <3>2 DEF K!ApprovedHasRow
  <2>2. CASE c \notin DOMAIN corr
    <3>1. corr'[c] = k
      BY <1>1, <1>3, <2>2
    <3> QED  BY <1>3, <3>1
  <2> QED  BY <2>1, <2>2
<1> QED  BY <1>2, <1>3 DEF K!ApprovedHasRow

LEMMA UpdatedKeeps ==
    ASSUME CorrectionInv, NEW C \in SUBSET DOMAIN corr, NEW new \in [C -> K!Corrections],
           corr' = [c \in DOMAIN corr |-> IF c \in C THEN new[c] ELSE corr[c]],
           record' \in [Dates -> K!Rows \cup {None}],
           \A e \in Dates : record[e] # None => record'[e] # None,
           \A c \in C : new[c].status = "APPROVED" => record'[new[c].day] # None /\ new[c].linked
    PROVE  /\ corr' \in Seq(K!Corrections)
           /\ DOMAIN corr \subseteq DOMAIN corr'
           /\ K!ApprovedHasRow'
<1>1. corr \in Seq(K!Corrections) /\ K!ApprovedHasRow
  BY DEF CorrectionInv, K!TypeOK
<1>2. DOMAIN corr = 1 .. Len(corr) /\ Len(corr) \in Nat
  BY <1>1
<1>3. DOMAIN corr' = DOMAIN corr
  OBVIOUS
<1>4. \A c \in DOMAIN corr' : corr'[c] \in K!Corrections
  BY <1>1
<1>5. corr' \in Seq(K!Corrections)
  BY <1>2, <1>3, <1>4, SeqDef
<1>6. ASSUME NEW c \in DOMAIN corr', corr'[c].status = "APPROVED"
      PROVE  record'[corr'[c].day] # None /\ corr'[c].linked
  <2>1. CASE c \in C
    BY <1>3, <1>6, <2>1
  <2>2. CASE c \notin C
    <3>1. corr'[c] = corr[c] /\ corr[c] \in K!Corrections
      BY <1>1, <1>3, <2>2
    <3>2. corr[c].day \in Dates
      BY <3>1 DEF K!Corrections
    <3> QED  BY <1>1, <1>3, <1>6, <3>1, <3>2 DEF K!ApprovedHasRow
  <2> QED  BY <2>1, <2>2
<1> QED  BY <1>3, <1>5, <1>6 DEF K!ApprovedHasRow

(* A request leaves its slot.                                               *)
LEMMA DoneClaimKeeps ==
    ASSUME CorrectionInv, NEW s \in Slots, claims' = [claims EXCEPT ![s] = None],
           DOMAIN corr \subseteq DOMAIN corr'
    PROVE  claims' \in [Slots -> K!Creates \cup K!Reviews \cup {None}] /\ ReviewExists'
BY DEF CorrectionInv, K!TypeOK, ReviewExists

LEMMA CorrectionInit ==
    ASSUME K!Init PROVE CorrectionInv
<1>1. corr \in Seq(K!Corrections) /\ DOMAIN corr = {}
  BY DEF K!Init
<1>2. record \in [Dates -> K!Rows \cup {None}]
  BY DEF K!Init
<1>3. K!TypeOK
  <2>1. claims \in [Slots -> K!Creates \cup K!Reviews \cup {None}]
    BY DEF K!Init
  <2>2. marks \in 0 .. MaxMarks
    BY CorrectionConstants DEF K!Init
  <2>3. closed = FALSE
    BY DEF K!Init
  <2>4. closed \in BOOLEAN
    BY <2>3
  <2> QED  BY <1>1, <1>2, <2>1, <2>2, <2>4 DEF K!TypeOK
<1>4. ReviewExists /\ K!ApprovedHasRow
  BY <1>1 DEF K!Init, ReviewExists, K!ApprovedHasRow
<1> QED  BY <1>3, <1>4 DEF CorrectionInv

(* Every operation keeps the invariant, and no operation erases a punch.     *)
LEMMA CorrectionKeeps ==
    ASSUME CorrectionInv, [K!Next]_(K!vars)
    PROVE  /\ CorrectionInv'
           /\ \A d \in Dates : record[d] # None =>
                 /\ record'[d] # None
                 /\ record[d].in # None => record'[d].in # None
                 /\ record[d].out # None => record'[d].out # None
<1> USE DEF CorrectionInv
<1>0. /\ record \in [Dates -> K!Rows \cup {None}] /\ corr \in Seq(K!Corrections)
      /\ claims \in [Slots -> K!Creates \cup K!Reviews \cup {None}]
      /\ closed \in BOOLEAN /\ marks \in 0 .. MaxMarks
  BY DEF K!TypeOK
<1>1. ASSUME NEW s \in Slots, NEW d \in Dates, NEW in \in K!MaybeTime, NEW out \in K!MaybeTime,
             NEW linked \in BOOLEAN, K!CreateChecks(s, d, in, out, linked)
      PROVE  CorrectionInv' /\ record' = record
  <2> DEFINE r == [op |-> "create", day |-> d, in |-> in, out |-> out, linked |-> linked]
  <2>1. r \in K!Creates /\ r.op # "review"
    BY DEF K!Creates
  <2>2. claims' = [claims EXCEPT ![s] = r] /\ UNCHANGED <<record, corr, closed, marks>>
    BY <1>1 DEF K!CreateChecks
  <2> HIDE DEF r
  <2>3. claims' \in [Slots -> K!Creates \cup K!Reviews \cup {None}] /\ ReviewExists'
    BY <1>0, <2>1, <2>2 DEF ReviewExists
  <2> QED  BY <1>0, <2>2, <2>3 DEF K!TypeOK, K!ApprovedHasRow
<1>2. ASSUME NEW s \in Slots, K!CreateCommits(s)
      PROVE  CorrectionInv' /\ record' = record
  <2> DEFINE k == [day |-> claims[s].day, in |-> claims[s].in, out |-> claims[s].out,
                   status |-> "PENDING", linked |-> claims[s].linked]
  <2>1. /\ claims[s] # None /\ claims[s].op = "create" /\ corr' = Append(corr, k)
        /\ claims' = [claims EXCEPT ![s] = None] /\ UNCHANGED <<record, closed, marks>>
    BY <1>2 DEF K!CreateCommits
  <2>2. claims[s] \in K!Creates
    BY <2>1, ClaimCases
  <2>3. k \in K!Corrections /\ k.status # "APPROVED"
    BY <2>2 DEF K!Creates, K!Corrections, K!Statuses
  <2> HIDE DEF k
  <2>4. corr' \in Seq(K!Corrections) /\ DOMAIN corr \subseteq DOMAIN corr' /\ K!ApprovedHasRow'
    BY <1>0, <2>1, <2>3, AppendedKeeps
  <2>5. claims' \in [Slots -> K!Creates \cup K!Reviews \cup {None}] /\ ReviewExists'
    BY <2>1, <2>4, DoneClaimKeeps
  <2> QED  BY <1>0, <2>1, <2>4, <2>5 DEF K!TypeOK
<1>3. ASSUME NEW s \in Slots, NEW c \in DOMAIN corr, NEW status \in {"APPROVED", "REJECTED"},
             K!ReviewChecks(s, c, status)
      PROVE  CorrectionInv' /\ record' = record
  <2> DEFINE r == [op |-> "review", c |-> c, status |-> status]
  <2>1. r \in K!Reviews /\ r.c \in DOMAIN corr
    BY <1>0 DEF K!Reviews
  <2>2. claims' = [claims EXCEPT ![s] = r] /\ UNCHANGED <<record, corr, closed, marks>>
    BY <1>3 DEF K!ReviewChecks
  <2> HIDE DEF r
  <2>3. claims' \in [Slots -> K!Creates \cup K!Reviews \cup {None}] /\ ReviewExists'
    BY <1>0, <2>1, <2>2 DEF ReviewExists
  <2> QED  BY <1>0, <2>2, <2>3 DEF K!TypeOK, K!ApprovedHasRow
<1>4. ASSUME NEW s \in Slots, K!ReviewCommits(s)
      PROVE  /\ CorrectionInv'
             /\ \A d \in Dates : record[d] # None =>
                   /\ record'[d] # None
                   /\ record[d].in # None => record'[d].in # None
                   /\ record[d].out # None => record'[d].out # None
  <2> DEFINE c == claims[s].c
             new == [x \in {c} |-> IF claims[s].status = "APPROVED"
                                   THEN [corr[c] EXCEPT !.status = "APPROVED", !.linked = TRUE]
                                   ELSE [corr[c] EXCEPT !.status = "REJECTED"]]
             rest == [x \in DOMAIN corr |-> IF x \in {c} THEN new[x] ELSE corr[x]]
  <2>1. /\ claims[s] # None /\ claims[s].op = "review"
        /\ claims' = [claims EXCEPT ![s] = None] /\ UNCHANGED <<closed, marks>>
    BY <1>4 DEF K!ReviewCommits
  <2>2. c \in DOMAIN corr
    BY <2>1 DEF ReviewExists
  <2>3. corr[c] \in K!Corrections
    BY <1>0, <2>2
  <2>4. corr[c].day \in Dates /\ corr[c].in \in K!MaybeTime /\ corr[c].out \in K!MaybeTime
    BY <2>3 DEF K!Corrections
  <2>5. [corr[c] EXCEPT !.status = "APPROVED", !.linked = TRUE] \in K!Corrections
    BY <2>3 DEF K!Corrections, K!Statuses
  <2>6. [corr[c] EXCEPT !.status = "REJECTED"] \in K!Corrections
    BY <2>3 DEF K!Corrections, K!Statuses
  <2>7. new \in [{c} -> K!Corrections] /\ {c} \in SUBSET DOMAIN corr
    BY <2>2, <2>5, <2>6
  <2>8. corr' = rest
    BY <1>0, <1>4, <2>2 DEF K!ReviewCommits
  <2>9. record' = IF claims[s].status = "APPROVED" THEN K!Overwrite(corr[c].day, corr[c].in, corr[c].out) ELSE record
    BY <1>4 DEF K!ReviewCommits
  <2>10. /\ record' \in [Dates -> K!Rows \cup {None}]
         /\ \A e \in Dates : record[e] # None =>
               /\ record'[e] # None
               /\ record[e].in # None => record'[e].in # None
               /\ record[e].out # None => record'[e].out # None
         /\ claims[s].status = "APPROVED" => record'[corr[c].day] # None
    BY <1>0, <2>4, <2>9, OverwrittenKeeps
  <2>11. new[c].status = "APPROVED" => claims[s].status = "APPROVED" /\ new[c].linked /\ new[c].day = corr[c].day
    <3>1. [corr[c] EXCEPT !.status = "REJECTED"].status = "REJECTED"
      BY <2>3 DEF K!Corrections
    <3>2. /\ [corr[c] EXCEPT !.status = "APPROVED", !.linked = TRUE].linked
          /\ [corr[c] EXCEPT !.status = "APPROVED", !.linked = TRUE].day = corr[c].day
      BY <2>3 DEF K!Corrections
    <3> QED  BY <3>1, <3>2
  <2> HIDE DEF c, new
  <2>12. corr' \in Seq(K!Corrections) /\ DOMAIN corr \subseteq DOMAIN corr' /\ K!ApprovedHasRow'
    <3>1. \A x \in {c} : new[x].status = "APPROVED" => record'[new[x].day] # None /\ new[x].linked
      BY <2>10, <2>11
    <3>2. record' \in [Dates -> K!Rows \cup {None}] /\ \A e \in Dates : record[e] # None => record'[e] # None
      BY <2>10
    <3> QED
      BY <2>7, <2>8, <3>1, <3>2, UpdatedKeeps
  <2>13. claims' \in [Slots -> K!Creates \cup K!Reviews \cup {None}] /\ ReviewExists'
    BY <2>1, <2>12, DoneClaimKeeps
  <2> QED  BY <1>0, <2>1, <2>10, <2>12, <2>13 DEF K!TypeOK
<1>5. ASSUME NEW d \in Dates, NEW in \in K!MaybeTime, NEW out \in K!MaybeTime, NEW reason \in BOOLEAN,
             K!AdminMark(d, in, out, reason)
      PROVE  /\ CorrectionInv'
             /\ \A e \in Dates : record[e] # None =>
                   /\ record'[e] # None
                   /\ record[e].in # None => record'[e].in # None
                   /\ record[e].out # None => record'[e].out # None
  <2> DEFINE k == [day |-> d, in |-> in, out |-> out, status |-> "APPROVED", linked |-> TRUE]
             C == K!LatestLinked(d)
             new == [c \in C |-> [corr[c] EXCEPT !.status = "APPROVED"]]
  <2>1. /\ record' = K!Overwrite(d, in, out)
        /\ \/ corr' = corr
           \/ corr' = [c \in DOMAIN corr |-> IF c \in C THEN [corr[c] EXCEPT !.status = "APPROVED"] ELSE corr[c]]
           \/ corr' = Append(corr, k)
        /\ marks' = marks + 1 /\ marks < MaxMarks /\ UNCHANGED <<claims, closed>>
    BY <1>5 DEF K!AdminMark
  <2>2. /\ record' \in [Dates -> K!Rows \cup {None}]
        /\ record'[d] # None
        /\ \A e \in Dates : record[e] # None =>
              /\ record'[e] # None
              /\ record[e].in # None => record'[e].in # None
              /\ record[e].out # None => record'[e].out # None
    BY <1>0, <2>1, OverwrittenKeeps
  <2>3. corr' \in Seq(K!Corrections) /\ DOMAIN corr \subseteq DOMAIN corr' /\ K!ApprovedHasRow'
    <3>1. CASE corr' = corr
      <4>1. \A x \in DOMAIN corr : corr[x].day \in Dates
        <5>1. \A x \in DOMAIN corr : corr[x] \in K!Corrections
          BY <1>0
        <5> QED  BY <5>1 DEF K!Corrections
      <4> QED  BY <1>0, <2>2, <3>1, <4>1 DEF K!ApprovedHasRow
    <3>2. CASE corr' = [c \in DOMAIN corr |-> IF c \in C THEN [corr[c] EXCEPT !.status = "APPROVED"] ELSE corr[c]]
      <4>1. \A c \in C : c \in DOMAIN corr /\ corr[c].day = d /\ corr[c].linked
        BY DEF K!LatestLinked
      <4>2. \A c \in C : corr[c] \in K!Corrections
        BY <1>0, <4>1
      <4>3. ASSUME NEW c \in C
            PROVE  /\ [corr[c] EXCEPT !.status = "APPROVED"] \in K!Corrections
                   /\ [corr[c] EXCEPT !.status = "APPROVED"].day = d
                   /\ [corr[c] EXCEPT !.status = "APPROVED"].linked
        <5>1. corr[c] \in K!Corrections /\ corr[c].day = d /\ corr[c].linked
          BY <4>1, <4>2
        <5> QED  BY <5>1 DEF K!Corrections, K!Statuses
      <4>4. new \in [C -> K!Corrections] /\ \A c \in C : new[c].day = d /\ new[c].linked
        BY <4>3
      <4>5. corr' = [c \in DOMAIN corr |-> IF c \in C THEN new[c] ELSE corr[c]]
        BY <3>2
      <4>6. C \in SUBSET DOMAIN corr
        BY <4>1
      <4> HIDE DEF C, new
      <4> QED  BY <2>2, <4>4, <4>5, <4>6, UpdatedKeeps
    <3>3. CASE corr' = Append(corr, k)
      <4>1. k \in K!Corrections /\ k.day = d /\ k.linked
        BY DEF K!Corrections, K!Statuses
      <4> HIDE DEF k
      <4> QED  BY <2>2, <3>3, <4>1, AppendedKeeps
    <3> QED  BY <2>1, <3>1, <3>2, <3>3
  <2>4. marks' \in 0 .. MaxMarks
    BY <1>0, <2>1, CorrectionConstants
  <2>5. claims' \in [Slots -> K!Creates \cup K!Reviews \cup {None}] /\ ReviewExists'
    BY <1>0, <2>1, <2>3 DEF ReviewExists
  <2> QED  BY <1>0, <2>1, <2>2, <2>3, <2>4, <2>5 DEF K!TypeOK
<1>6. ASSUME K!LockMonth
      PROVE  CorrectionInv' /\ record' = record
  BY <1>0, <1>6 DEF K!LockMonth, K!TypeOK, ReviewExists, K!ApprovedHasRow
<1>7. ASSUME UNCHANGED K!vars
      PROVE  CorrectionInv' /\ record' = record
  BY <1>0, <1>7 DEF K!vars, K!TypeOK, ReviewExists, K!ApprovedHasRow
<1> QED  BY <1>1, <1>2, <1>3, <1>4, <1>5, <1>6, <1>7 DEF K!Next

(* A step of a working day is a step of the corrections, or leaves them alone. *)
LEMMA CorrectionsMove ==
    ASSUME [PunchStep \/ CalendarStep \/ CorrectionStep]_<<side, vars, offVars, correctionVars>>
    PROVE  [K!Next]_(K!vars)
BY DEF PunchStep, CalendarStep, CorrectionStep, correctionVars, K!vars

(* An approved correction has its attendance row and is linked to it, in every *)
(* order of requests, reviews and direct marks.                              *)
THEOREM ApprovedHaveRows == AttendanceSpec => []ApprovedHasRow
<1>1. AttendanceInit => CorrectionInv
  BY CorrectionInit DEF AttendanceInit
<1>2. CorrectionInv /\ [PunchStep \/ CalendarStep \/ CorrectionStep]_<<side, vars, offVars, correctionVars>>
        => CorrectionInv'
  BY CorrectionsMove, CorrectionKeeps
<1>3. CorrectionInv => ApprovedHasRow
  BY DEF CorrectionInv, ApprovedHasRow
<1> QED
  BY <1>1, <1>2, <1>3, PTL DEF AttendanceSpec

(* No correction and no direct mark erases a punch time that was recorded.    *)
THEOREM CorrectionsKeepPunches == AttendanceSpec => K!KeepsPunches
<1>1. AttendanceInit => CorrectionInv
  BY CorrectionInit DEF AttendanceInit
<1>2. CorrectionInv /\ [PunchStep \/ CalendarStep \/ CorrectionStep]_<<side, vars, offVars, correctionVars>>
        => CorrectionInv'
  BY CorrectionsMove, CorrectionKeeps
<1>3. CorrectionInv /\ [PunchStep \/ CalendarStep \/ CorrectionStep]_<<side, vars, offVars, correctionVars>>
        => [\A d \in Dates : record[d] # None =>
              /\ record'[d] # None
              /\ record[d].in # None => record'[d].in # None
              /\ record[d].out # None => record'[d].out # None]_(K!vars)
  BY CorrectionsMove, CorrectionKeeps
<1> QED
  BY <1>1, <1>2, <1>3, PTL DEF AttendanceSpec, K!KeepsPunches
=============================================================================
