----------------------------- MODULE PunchClock -----------------------------
(***************************************************************************)
(* The punches of one employee: checkIn, wfhCheckIn, checkOut, startPause   *)
(* and endPause of src/services/attendance.service.js, with the nightly     *)
(* absence sweep of notification.service.js.                                *)
(*                                                                         *)
(* Every handler first reads (its checks, the row, the events) and later    *)
(* commits in one transaction what it computed from that read; other        *)
(* requests of the same employee (a double tap, a second device, the sync   *)
(* of an offline queue) may commit in between.  A request is therefore two  *)
(* actions, "...Reads" and "...Commits"; a rejected request changes nothing *)
(* and is not an action.                                                    *)
(*                                                                         *)
(* Instants are clock units, DayLength of them to a day.  Location, device  *)
(* and shift-hour checks only reject and are left out; a day off is here a   *)
(* day on which the employee was allowed to work, others take no punch.     *)
(***************************************************************************)
EXTENDS Integers, SequencesExt

CONSTANTS
    Requests,      \* request slots: how many may be in flight at once
    ClientIds,     \* ids a device gives the punches of its offline queue
    NoId, None,    \* no client id; no instant, no row, no request
    OffDays,       \* days off on which the employee may work
    Overnight,     \* the shift crosses midnight
    Flexible,      \* the employee or the shift punches at any time
    DayLength,     \* clock units in a day
    Backdate,      \* how far back a punch may be dated (12 h)
    CarryOver,     \* how long an overnight session may last (20 h)
    HalfDay, FullDay,  \* work that earns half a day and a day off (4 h, 8 h)
    MaxDay,        \* bound: days 0 .. MaxDay
    MaxPunches     \* bound: requests accepted in one behaviour

Days == 0 .. MaxDay
Instants == 0 .. (MaxDay + 1) * DayLength - 1

ASSUME PunchConstants ==
    /\ DayLength \in Nat \ {0} /\ MaxDay \in Nat /\ MaxPunches \in Nat
    /\ Backdate \in Nat /\ CarryOver \in Nat
    /\ HalfDay \in Nat /\ FullDay \in Nat
    /\ OffDays \subseteq Days
    /\ Overnight \in BOOLEAN /\ Flexible \in BOOLEAN
    /\ NoId \notin ClientIds /\ None \notin Instants

VARIABLES
    now,        \* the server's clock
    row,        \* the Attendance row of each day, or None
    events,     \* the AttendanceEvent rows of each day, in insertion order
    req,        \* the requests in flight: what each is about to commit
    credited,   \* CompOffBalance.creditedDays, in half days
    ledger,     \* the CREDIT rows of CompOffTransaction
    otRequests, \* PENDING overtime requests raised for each day
    punches     \* requests accepted so far

vars == <<now, row, events, req, credited, ledger, otRequests, punches>>

Pauses == {"BREAK", "LUNCH"}
NoPause == "NONE"
DayOf(t) == t \div DayLength

StartType(kind) == IF kind = "BREAK" THEN "BREAK_START" ELSE "LUNCH_START"
EndType(kind)   == IF kind = "BREAK" THEN "BREAK_END"   ELSE "LUNCH_END"
EventTypes == {"CHECK_IN", "CHECK_OUT", "BREAK_START", "BREAK_END", "LUNCH_START", "LUNCH_END"}
PunchStatus == {"PRESENT", "WORK_FROM_HOME"}
SweptStatus == {"ABSENT", "WEEK_OFF"}     \* written by the nightly sweep
Ids == ClientIds \cup {NoId}

Rows == [in : Instants \cup {None}, out : Instants \cup {None},
         status : PunchStatus \cup SweptStatus, pause : [Pauses -> Nat], work : Nat]
EventRecords == [type : EventTypes, at : Instants, id : Ids]

(* A request in flight: what its read decided to write. *)
CheckIns  == [op : {"checkIn"}, day : Days, at : Instants, id : Ids, status : PunchStatus]
CheckOuts == [op : {"checkOut"}, day : Days, at : Instants, id : Ids, open : Pauses \cup {NoPause},
              pause : [Pauses -> Nat], work : Nat, status : PunchStatus]
Starts    == [op : {"startPause"}, day : Days, at : Instants, kind : Pauses]
Ends      == [op : {"endPause"}, day : Days, at : Instants, kind : Pauses, total : Nat]
InFlight  == CheckIns \cup CheckOuts \cup Starts \cup Ends

ASSUME NoneIsFresh == None \notin Rows /\ None \notin InFlight

TypeOK ==
    /\ now \in Instants
    /\ row \in [Days -> Rows \cup {None}]
    /\ events \in [Days -> Seq(EventRecords)]
    /\ req \in [Requests -> InFlight \cup {None}]
    /\ credited \in Nat
    /\ ledger \in Seq([ref : Days, days : {1, 2}])
    /\ otRequests \in [Days -> Nat]
    /\ punches \in 0 .. MaxPunches

Init ==
    /\ now = 0
    /\ row = [d \in Days |-> None]
    /\ events = [d \in Days |-> <<>>]
    /\ req = [r \in Requests |-> None]
    /\ credited = 0
    /\ ledger = <<>>
    /\ otRequests = [d \in Days |-> 0]
    /\ punches = 0

-----------------------------------------------------------------------------
(* Helpers *)

Monus(a, b) == IF a > b THEN a - b ELSE 0

(* assertPunchTimestamp: at most Backdate old and not in the future. *)
PunchTimes == {t \in Instants : t <= now /\ now - t <= Backdate}

PunchedIn(d) == row[d] # None /\ row[d].in # None
OpenRow(d) == PunchedIn(d) /\ row[d].out = None

(* The open session of one of the two days before d that the query orders    *)
(* first, as a set of at most one day.                                      *)
CarriedOver(d) ==
    LET open == {c \in Days : c < d /\ c >= d - 2 /\ OpenRow(c)}
    IN  {c \in open : \A e \in open : e <= c}

WithinCarryOver(c, t) == t > row[c].in /\ t - row[c].in <= CarryOver

(* The day whose row a punch-out at t closes (checkOut).  The row has no     *)
(* column workMode, so its clause for SHOOT sessions never applies.         *)
CheckOutDay(t) ==
    IF PunchedIn(DayOf(t)) THEN {DayOf(t)}
    ELSE {c \in CarriedOver(DayOf(t)) : Overnight /\ WithinCarryOver(c, t)}

(* The day whose row a pause at t belongs to (findOpenAttendance). *)
findOpenAttendance(t) ==
    IF PunchedIn(DayOf(t)) THEN {DayOf(t)}
    ELSE {c \in CarriedOver(DayOf(t)) : (Overnight \/ Flexible) /\ WithinCarryOver(c, t)}

(* Events ordered by timestamp, latest first: the possible first ones. *)
Latest(d, types) ==
    LET chosen == {i \in DOMAIN events[d] : events[d][i].type \in types}
    IN  {events[d][i] : i \in {j \in chosen : \A k \in chosen : events[d][k].at <= events[d][j].at}}

(* MUTANT: the client id is stored without its unique constraint. *)
IdUsed_Never(id) == FALSE

(* A client id is unique over all events. *)
IdUsed(id) == id # NoId /\ \E d \in Days : \E i \in DOMAIN events[d] : events[d][i].id = id

Event(type, t, id) == [type |-> type, at |-> t, id |-> id]

Accept(r, request) ==
    /\ punches < MaxPunches
    /\ punches' = punches + 1
    /\ req' = [req EXCEPT ![r] = request]
    /\ UNCHANGED <<now, row, events, credited, ledger, otRequests>>

(* A unique violation rolls the whole transaction back; the request ends.    *)
RollBack(r) ==
    /\ req' = [req EXCEPT ![r] = None]
    /\ UNCHANGED <<now, row, events, credited, ledger, otRequests, punches>>

-----------------------------------------------------------------------------
(* Punch in *)

CheckInReads(r, t, id) ==
    /\ req[r] = None
    /\ t \in PunchTimes
    /\ ~PunchedIn(DayOf(t))
    /\ Accept(r, [op |-> "checkIn", day |-> DayOf(t), at |-> t, id |-> id, status |-> "PRESENT"])

(* A punch-in from home stores no client id, not even that of an offline      *)
(* queue; its transaction is the same upsert and event.                      *)
WfhCheckInReads(r, t) ==
    /\ req[r] = None
    /\ t \in PunchTimes
    /\ ~PunchedIn(DayOf(t))
    /\ Accept(r, [op |-> "checkIn", day |-> DayOf(t), at |-> t, id |-> NoId, status |-> "WORK_FROM_HOME"])

FreshRow == [in |-> None, out |-> None, status |-> "PRESENT",
             pause |-> [k \in Pauses |-> 0], work |-> 0]

(* The upsert replaces punch-in and status whatever the row holds by now. *)
CheckInCommits(r) ==
    /\ req[r] # None /\ req[r].op = "checkIn"
    /\ LET q == req[r]
           base == IF row[q.day] = None THEN FreshRow ELSE row[q.day]
       IN  IF IdUsed(q.id) THEN RollBack(r)
           ELSE /\ row' = [row EXCEPT ![q.day] = [base EXCEPT !.in = q.at, !.status = q.status]]
                /\ events' = [events EXCEPT ![q.day] = Append(@, Event("CHECK_IN", q.at, q.id))]
                /\ req' = [req EXCEPT ![r] = None]
                /\ UNCHANGED <<now, credited, ledger, otRequests, punches>>

-----------------------------------------------------------------------------
(* Punch out *)

(* The pause the latest event leaves open, and how long it lasted at t. *)
PauseLeftOpen(e) ==
    CASE e.type = "BREAK_START" -> "BREAK"
      [] e.type = "LUNCH_START" -> "LUNCH"
      [] OTHER -> NoPause

CheckOutReads(r, t, id) ==
    /\ req[r] = None
    /\ t \in PunchTimes
    /\ \E d \in CheckOutDay(t) :
          /\ row[d].out = None
          /\ \E e \in Latest(d, EventTypes) :
                LET open == PauseLeftOpen(e)
                    pause == [k \in Pauses |-> row[d].pause[k] + IF k = open THEN Monus(t, e.at) ELSE 0]
                IN  Accept(r, [op |-> "checkOut", day |-> d, at |-> t, id |-> id,
                               open |-> open, pause |-> pause, status |-> row[d].status,
                               work |-> Monus(Monus(t, row[d].in), pause["BREAK"] + pause["LUNCH"])])

(* Half days of comp-off that working w on a day off earns. *)
Earned(w) == IF w >= FullDay THEN 2 ELSE 1

AlreadyCredited(d) == \E i \in DOMAIN ledger : ledger[i].ref = d

(* MUTANT: the check for an earlier credit of the same day is left out.      *)
CreditDay_Unchecked(d, w) ==
    IF d \in OffDays /\ w >= HalfDay
    THEN /\ credited' = credited + Earned(w)
         /\ ledger' = Append(ledger, [ref |-> d, days |-> Earned(w)])
    ELSE UNCHANGED <<credited, ledger>>

(* The balance is incremented first; a day credited before takes it back.    *)
CreditDay(d, w) ==
    IF d \in OffDays /\ w >= HalfDay /\ ~AlreadyCredited(d)
    THEN /\ credited' = credited + Earned(w)
         /\ ledger' = Append(ledger, [ref |-> d, days |-> Earned(w)])
    ELSE UNCHANGED <<credited, ledger>>

(* Work on a day off waits for approval (policy.requireOtApproval). *)
RaiseOvertime(d, w) ==
    otRequests' = IF d \in OffDays /\ w > 0 /\ otRequests[d] = 0
                  THEN [otRequests EXCEPT ![d] = 1] ELSE otRequests

(* One transaction.  Its update of the attendance row comes before the       *)
(* credit check, so the row lock orders the punch-outs of a day.            *)
CheckOutCommits(r) ==
    /\ req[r] # None /\ req[r].op = "checkOut"
    /\ LET q == req[r]
           closing == IF q.open = NoPause THEN <<>> ELSE <<Event(EndType(q.open), q.at, NoId)>>
       IN  IF IdUsed(q.id) THEN RollBack(r)
           ELSE /\ row' = [row EXCEPT ![q.day].out = q.at,
                                      ![q.day].pause = q.pause,
                                      ![q.day].work = q.work,
                                      ![q.day].status = q.status]
                /\ events' = [events EXCEPT ![q.day] = @ \o closing \o <<Event("CHECK_OUT", q.at, q.id)>>]
                /\ CreditDay(q.day, q.work)
                /\ RaiseOvertime(q.day, q.work)
                /\ req' = [req EXCEPT ![r] = None]
                /\ UNCHANGED <<now, punches>>

-----------------------------------------------------------------------------
(* Break and lunch *)

StartPauseReads(r, t, kind) ==
    /\ req[r] = None
    /\ t \in PunchTimes
    /\ \E d \in findOpenAttendance(t) :
          /\ row[d].out = None
          /\ \E e \in Latest(d, EventTypes) : PauseLeftOpen(e) = NoPause
          /\ Accept(r, [op |-> "startPause", day |-> d, at |-> t, kind |-> kind])

StartPauseCommits(r) ==
    /\ req[r] # None /\ req[r].op = "startPause"
    /\ events' = [events EXCEPT ![req[r].day] = Append(@, Event(StartType(req[r].kind), req[r].at, NoId))]
    /\ req' = [req EXCEPT ![r] = None]
    /\ UNCHANGED <<now, row, credited, ledger, otRequests, punches>>

(* The last start of this kind must not be followed by an end; the new total *)
(* is computed from the total read.  A punch-out is not looked at.           *)
EndPauseReads(r, t, kind) ==
    /\ req[r] = None
    /\ t \in PunchTimes
    /\ \E d \in findOpenAttendance(t) :
          /\ \E s \in Latest(d, {StartType(kind)}) :
                /\ \A e \in Latest(d, {EndType(kind)}) : e.at < s.at
                /\ Accept(r, [op |-> "endPause", day |-> d, at |-> t, kind |-> kind,
                              total |-> row[d].pause[kind] + Monus(t, s.at)])

EndPauseCommits(r) ==
    /\ req[r] # None /\ req[r].op = "endPause"
    /\ LET q == req[r]
       IN  /\ row' = [row EXCEPT ![q.day].pause[q.kind] = q.total]
           /\ events' = [events EXCEPT ![q.day] = Append(@, Event(EndType(q.kind), q.at, NoId))]
    /\ req' = [req EXCEPT ![r] = None]
    /\ UNCHANGED <<now, credited, ledger, otRequests, punches>>

-----------------------------------------------------------------------------
(* One punch of an offline queue: skipped when an event has its id, else      *)
(* given to its handler.  (The id is looked for before the handler reads; an *)
(* id that is stored in between makes the handler's transaction fail.)       *)
syncOfflinePunches(r, t, id) ==
    /\ ~IdUsed(id)
    /\ \/ CheckInReads(r, t, id)
       \/ CheckOutReads(r, t, id)
       \/ WfhCheckInReads(r, t)
       \/ \E kind \in Pauses : StartPauseReads(r, t, kind) \/ EndPauseReads(r, t, kind)

-----------------------------------------------------------------------------
SweptRow(d) == [FreshRow EXCEPT !.status = IF d \in OffDays THEN "WEEK_OFF" ELSE "ABSENT"]

(* MUTANT: the sweep upserts, so that it overwrites a punch it did not see.  *)
MarkAbsent_Overwrites(d) ==
    /\ d = DayOf(now) /\ now % DayLength = DayLength - 1
    /\ row' = [row EXCEPT ![d] = IF @ = None THEN SweptRow(d) ELSE [@ EXCEPT !.status = "ABSENT"]]
    /\ UNCHANGED <<now, events, req, credited, ledger, otRequests, punches>>

(* The sweep of a day in its last hour: createMany with skipDuplicates       *)
(* writes a row only where there is none, whatever its reads saw before.     *)
MarkAbsent(d) ==
    /\ d = DayOf(now) /\ now % DayLength = DayLength - 1
    /\ row[d] = None
    /\ row' = [row EXCEPT ![d] = SweptRow(d)]
    /\ UNCHANGED <<now, events, req, credited, ledger, otRequests, punches>>

Tick ==
    /\ now + 1 \in Instants
    /\ now' = now + 1
    /\ UNCHANGED <<row, events, req, credited, ledger, otRequests, punches>>

Commits(r) == CheckInCommits(r) \/ CheckOutCommits(r) \/ StartPauseCommits(r) \/ EndPauseCommits(r)

Next ==
    \/ Tick
    \/ \E d \in Days : MarkAbsent(d)
    \/ \E r \in Requests, t \in Instants :
          \/ CheckInReads(r, t, NoId) \/ WfhCheckInReads(r, t) \/ CheckOutReads(r, t, NoId)
          \/ \E id \in ClientIds : syncOfflinePunches(r, t, id)
          \/ \E kind \in Pauses : StartPauseReads(r, t, kind) \/ EndPauseReads(r, t, kind)
    \/ \E r \in Requests : Commits(r)

Spec == Init /\ [][Next]_vars

-----------------------------------------------------------------------------
(* However punch-outs race, a day off worked is credited once. *)
CreditedOnce == \A i, j \in DOMAIN ledger : ledger[i].ref = ledger[j].ref => i = j

(* A day never has two pending overtime requests raised by punch-outs. *)
OneOvertimeRequest == \A d \in Days : otRequests[d] <= 1

(* A punch of an offline queue is recorded at most once, however often and   *)
(* over however many connections the queue is sent.                         *)
PunchRecordedOnce ==
    \A c, d \in Days : \A i \in DOMAIN events[c], j \in DOMAIN events[d] :
        events[c][i].id = events[d][j].id /\ events[c][i].id # NoId => c = d /\ i = j

(* A day with a punch does not stay marked absent or weekly off, whichever of *)
(* the sweep, the punch-in and the punch-out commits first.                  *)
SweptMeansNoPunch == \A d \in Days : row[d] # None /\ row[d].status \in SweptStatus => row[d].in = None

=============================================================================
