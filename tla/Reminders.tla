----------------------------- MODULE Reminders -----------------------------
(***************************************************************************)
(* The pass the scheduler's leader runs: evaluateScheduledReminders of     *)
(* notification.service.js, composed with the lease of JobLease.  A pass   *)
(* removes old notifications, announces celebrations, and sends the        *)
(* holiday, check-in, check-out and billing reminders, one stage after the *)
(* other; each stage READS who has the message already and then WRITES the *)
(* missing rows, with nothing between the two but the lease.               *)
(*                                                                         *)
(* A day has four hours: 0 after local midnight, 1 the check-in window,    *)
(* 2 office hours (10:00 on), 3 the check-out window.  getLocalDateOnly    *)
(* gives the UTC midnight of the local date, which the code compares with  *)
(* createdAt: in hour Sunrise, not in hour 0.  The absence sweep and the   *)
(* webhook deliveries of the pass are in PunchClock and WebhookOutbox.     *)
(***************************************************************************)
EXTENDS JobLease

CONSTANTS
    Users,       \* employees with a login; all of them administrators too
    Desk,        \* the administrator who triggers reminders by hand
    Sunrise,     \* the hour of the local day in which UTC midnight falls
    Calendars,   \* what may fall due: records [workDays, feasts, holidays,
                 \* ending] with the instants [from, to] that are modelled (a bound)
    OnLeave,     \* pairs <<user, day>> of approved leave
    CameAt, LeftAt,  \* the instants at which they punch in and out
    NewMonth,    \* the instant a new month starts (UTC)
    MaxActs,     \* bound: deletions and manual triggers
    MaxOverruns, \* bound: passes that outlive their lease
    None

ASSUME DeskAssumption == Desk \notin Procs

ASSUME RemindersAssumption ==
    /\ Sunrise \in Int /\ None \notin Int
    /\ Calendars \subseteq [workDays : SUBSET Nat, feasts : SUBSET Nat, holidays : SUBSET Nat,
                            ending : Nat \cup {None}, from : Nat, to : Nat]

Kinds == {"checkIn", "checkOut", "holiday", "billing", "celebration"}

(* What a stage has read and will write: the messages of a day, or the         *)
(* announcement of its celebrations.                                       *)
Plans == [kind : Kinds \cup {"post"}, day : Int, users : SUBSET Users]

ASSUME NoPlanAssumption == None \notin Plans

VARIABLES
    calendar,   \* the working days, the days with a birthday or anniversary,
                \* the holidays, the instant the subscription's end is in sight
    now,        \* the instant: four per day
    inbox,      \* Notification rows
    posts,      \* Announcement rows of celebrations
    stage,      \* the stage of a pass, or of the manual trigger
    plan,       \* what a stage has read and will write, or None
    holidaySweep, billingSweep,  \* in-memory day keys of each process
    told,       \* history: <<user, kind, day>> ever written
    acts,       \* deletions and manual triggers so far
    overruns    \* passes that have outlived their lease so far

remVars == <<calendar, now, inbox, posts, stage, plan, holidaySweep, billingSweep, told, acts, overruns>>
allVars == <<vars, remVars>>

Actors == Procs \cup {Desk}
DayOf(t) == t \div 4
Hour(t) == t % 4
Today == DayOf(now)

(* getLocalDateOnly, as an instant. *)
DayStart(t) == 4 * DayOf(t) + Sunrise

(* now.toISOString().slice(0, 10): the UTC day. *)
UtcDay(t) == (t - Sunrise) \div 4

RemInit ==
    /\ Init
    /\ calendar \in Calendars
    /\ now = calendar.from
    /\ inbox = {}
    /\ posts = {}
    /\ stage = [a \in Actors |-> "none"]
    /\ plan = [a \in Actors |-> None]
    /\ holidaySweep = [p \in Procs |-> None]
    /\ billingSweep = [p \in Procs |-> None]
    /\ told = {}
    /\ acts = 0
    /\ overruns = 0

-----------------------------------------------------------------------------
(* The days and hours of a stage.  A sweep that has nothing to send, now or  *)
(* later, is left out with its day key.                                      *)
InTime(a, kind) ==
    CASE kind = "checkIn" -> Today \in calendar.workDays /\ Hour(now) = 1
      [] kind = "checkOut" -> Today \in calendar.workDays /\ Hour(now) = 3
      [] kind = "holiday" -> Hour(now) >= 2 /\ calendar.holidays # {} /\ holidaySweep[a] # Today
      [] kind = "billing" -> Hour(now) # Sunrise /\ calendar.ending # None /\ billingSweep[a] # UtcDay(now)
      [] kind = "celebration" -> Today \in calendar.feasts

Stages == <<"clean", "celebration", "holiday", "checkIn", "checkOut", "billing">>

(* The next stage that is due at this instant; the functions in between      *)
(* look at the clock first and return.  A manual trigger has one stage.      *)
Advance(a) ==
    LET Later == {i \in 1 .. 6 : /\ \E j \in 1 .. i - 1 : Stages[j] = stage[a]
                                 /\ InTime(a, Stages[i])}
    IN  stage' = [stage EXCEPT ![a] =
            IF a = Desk \/ Later = {} THEN "none"
            ELSE Stages[CHOOSE i \in Later : \A j \in Later : i <= j]]

PunchedIn == CameAt <= now /\ DayOf(CameAt) = Today

(* The days and windows are in InTime; here who is expected to punch. *)
Concerned(u, kind) ==
    CASE kind = "checkIn" -> ~PunchedIn /\ Today \notin calendar.holidays /\ <<u, Today>> \notin OnLeave
      [] kind = "checkOut" -> PunchedIn /\ now < LeftAt
      [] kind = "holiday" -> Today + 1 \in calendar.holidays
      [] kind = "billing" -> now >= calendar.ending

(* The day a message is about; the billing message only names its period. *)
About(kind) == IF kind = "billing" THEN 0 ELSE Today

(* MUTANT: only the rows of the last hour are looked at. *)
Received_LastHour(u, kind) ==
    \E n \in inbox : n.user = u /\ n.kind = kind /\ n.at >= now

(* The rows by which a stage knows that a message has been sent.  Attendance *)
(* titles are the same every day, a holiday's title names it, a billing       *)
(* message is looked for in the last 40 days.                                *)
Received(u, kind) ==
    \E n \in inbox :
        /\ n.user = u /\ n.kind = kind
        /\ kind = "billing" \/ n.at >= DayStart(now)
        /\ kind = "holiday" => n.day = Today

Missing(kind) == {u \in Users : Concerned(u, kind) /\ ~Received(u, kind)}

SetHoliday(a, kind, day) ==
    holidaySweep' = IF kind = "holiday" THEN [holidaySweep EXCEPT ![a] = day] ELSE holidaySweep

(* cleanupOldNotifications: this month is kept, older history removed. *)
CleanUp(a) ==
    /\ stage[a] = "clean"
    /\ inbox' = {n \in inbox : now >= NewMonth => n.at >= NewMonth}
    /\ Advance(a)
    /\ UNCHANGED <<calendar, now, posts, plan, holidaySweep, billingSweep, told, acts, overruns>>

(* sendDailyCelebrationAnnouncements: no live announcement has the title. *)
ReadCelebrations(a) ==
    /\ stage[a] = "celebration" /\ plan[a] = None
    /\ IF InTime(a, "celebration") /\ ~\E w \in posts : w.day = Today
       THEN plan' = [plan EXCEPT ![a] = [kind |-> "post", day |-> Today, users |-> {}]] /\ UNCHANGED stage
       ELSE Advance(a) /\ UNCHANGED plan
    /\ UNCHANGED <<calendar, now, inbox, posts, holidaySweep, billingSweep, told, acts, overruns>>

Late(a) == a = Desk \/ ~Covered(a)
Copy(rows) == CHOOSE n \in 1 .. Cardinality(rows) + 1 : ~\E r \in rows : r.no = n

(* The announcement is created, then everybody active is looked up. *)
PostAnnouncement(a) ==
    /\ plan[a] # None /\ plan[a].kind = "post"
    /\ posts' = posts \cup {[day |-> plan[a].day, late |-> Late(a), no |-> Copy(posts)]}
    /\ plan' = [plan EXCEPT ![a] = [kind |-> "celebration", day |-> @.day, users |-> Users]]
    /\ UNCHANGED <<calendar, now, inbox, stage, holidaySweep, billingSweep, told, acts, overruns>>

(* The read half of the four reminders.  The billing key is set before its   *)
(* sweep, the holiday key after it.                                          *)
ReadReminders(a, kind) ==
    /\ stage[a] = kind /\ plan[a] = None
    /\ IF InTime(a, kind) /\ Missing(kind) # {}
       THEN /\ plan' = [plan EXCEPT ![a] = [kind |-> kind, day |-> About(kind), users |-> Missing(kind)]]
            /\ UNCHANGED <<stage, holidaySweep>>
       ELSE /\ Advance(a)
            /\ IF InTime(a, kind) THEN SetHoliday(a, kind, Today) ELSE UNCHANGED holidaySweep
            /\ UNCHANGED plan
    /\ billingSweep' = IF kind = "billing" /\ InTime(a, kind)
                       THEN [billingSweep EXCEPT ![a] = UtcDay(now)] ELSE billingSweep
    /\ UNCHANGED <<calendar, now, inbox, posts, told, acts, overruns>>

HolidayReminders(a) == ReadReminders(a, "holiday")      \* sendUpcomingHolidayReminders
CheckInReminders(a) == ReadReminders(a, "checkIn")      \* sendMorningCheckInReminders
CheckOutReminders(a) == ReadReminders(a, "checkOut")    \* sendEveningCheckOutReminders
BillingReminders(a) == ReadReminders(a, "billing")      \* sendSubscriptionReminders

(* createMany: one statement writes the rows of all users that lacked one. *)
Deliver(a) ==
    /\ plan[a] # None /\ plan[a].kind # "post"
    /\ LET kind == plan[a].kind
           day == plan[a].day
           To(u) == [user |-> u, kind |-> kind, day |-> day, at |-> now, late |-> Late(a),
                     no |-> Copy({n \in inbox : n.user = u /\ n.kind = kind})]
       IN  /\ inbox' = inbox \cup {To(u) : u \in plan[a].users}
           /\ told' = told \cup {<<u, kind, day>> : u \in plan[a].users}
           /\ SetHoliday(a, kind, day)
    /\ plan' = [plan EXCEPT ![a] = None]
    /\ Advance(a)
    /\ UNCHANGED <<calendar, now, posts, billingSweep, acts, overruns>>

(* MUTANT: a billing sweep that failed keeps its day key. *)
FailStage_KeepsKey(a) ==
    /\ stage[a] # "none"
    /\ stage' = [stage EXCEPT ![a] = "none"]
    /\ plan' = [plan EXCEPT ![a] = None]
    /\ UNCHANGED <<calendar, now, inbox, posts, holidaySweep, billingSweep, told, acts, overruns>>

(* A statement fails.  A billing sweep is tried again at the next tick; any  *)
(* other failure ends the pass, which keeps what it has written.             *)
FailStage(a) ==
    /\ stage[a] # "none"
    /\ stage' = [stage EXCEPT ![a] = "none"]
    /\ plan' = [plan EXCEPT ![a] = None]
    /\ billingSweep' = IF stage[a] = "billing" THEN [billingSweep EXCEPT ![a] = None] ELSE billingSweep
    /\ UNCHANGED <<calendar, now, inbox, posts, holidaySweep, told, acts, overruns>>

StageStep(a) ==
    \/ CleanUp(a)
    \/ ReadCelebrations(a)
    \/ PostAnnouncement(a)
    \/ HolidayReminders(a) \/ CheckInReminders(a) \/ CheckOutReminders(a) \/ BillingReminders(a)
    \/ Deliver(a)

(* The route /trigger-reminders, for one kind; ALL is one after the other. *)
TriggerReminders ==
    /\ stage[Desk] = "none" /\ acts < MaxActs
    /\ \E kind \in {"checkIn", "checkOut"} :
        /\ Missing(kind) # {}
        /\ stage' = [stage EXCEPT ![Desk] = kind]
        /\ plan' = [plan EXCEPT ![Desk] = [kind |-> kind, day |-> Today, users |-> Missing(kind)]]
    /\ acts' = acts + 1
    /\ UNCHANGED <<calendar, now, inbox, posts, holidaySweep, billingSweep, told, overruns>>

(* A user deletes a notification of their own. *)
DeleteNotification ==
    /\ acts < MaxActs
    /\ \E n \in inbox : inbox' = inbox \ {n}
    /\ acts' = acts + 1
    /\ UNCHANGED <<calendar, now, posts, stage, plan, holidaySweep, billingSweep, told, overruns>>

(* An administrator removes an announcement. *)
RemoveAnnouncement ==
    /\ acts < MaxActs
    /\ \E w \in posts : posts' = posts \ {w}
    /\ acts' = acts + 1
    /\ UNCHANGED <<calendar, now, inbox, stage, plan, holidaySweep, billingSweep, told, overruns>>

-----------------------------------------------------------------------------
(* The composition: a pass starts when the lease is granted and ends when   *)
(* the last stage is over; a crash loses the pass and the in-memory keys.    *)
StartPass(p) ==
    /\ AcquireLease(p)
    /\ stage' = [stage EXCEPT ![p] = "clean"]
    /\ UNCHANGED <<calendar, now, inbox, posts, plan, holidaySweep, billingSweep, told, acts, overruns>>

FinishPass(p) ==
    /\ EndPass(p)
    /\ stage[p] = "none"
    /\ UNCHANGED remVars

FailPass(p) ==
    /\ faults < MaxFaults
    /\ faults' = faults + 1
    /\ FailStage(p)
    /\ UNCHANGED <<row, phase, ask, grant>>

CrashProcess(p) ==
    /\ Crash(p)
    /\ stage' = [stage EXCEPT ![p] = "none"]
    /\ plan' = [plan EXCEPT ![p] = None]
    /\ holidaySweep' = [holidaySweep EXCEPT ![p] = None]
    /\ billingSweep' = [billingSweep EXCEPT ![p] = None]
    /\ UNCHANGED <<calendar, now, inbox, posts, told, acts, overruns>>

(* The lease ages; an hour may be over, and with the last one the day, when  *)
(* the celebrations' announcements expire.                                   *)
Tick ==
    /\ Clock
    /\ overruns' = overruns + Cardinality({p \in Procs : Covered(p) /\ grant[p] = 0})
    /\ overruns' <= MaxOverruns
    /\ \E t \in {now, now + 1} :
        /\ t <= calendar.to
        /\ now' = t
        /\ posts' = {w \in posts : w.day >= DayOf(t)}
    /\ UNCHANGED <<calendar, inbox, stage, plan, holidaySweep, billingSweep, told, acts>>

Work(p) == StageStep(p) /\ UNCHANGED vars
Lead(p) == StartPass(p) \/ ((NotLeader(p) \/ AcquireError(p)) /\ UNCHANGED remVars)

RemNext ==
    \/ Tick
    \/ \E p \in Procs :
        \/ TimerFires(p) /\ UNCHANGED remVars
        \/ Lead(p) \/ Work(p) \/ FinishPass(p) \/ FailPass(p) \/ CrashProcess(p)
    \/ (Deliver(Desk) \/ TriggerReminders) /\ UNCHANGED vars
    \/ (DeleteNotification \/ RemoveAnnouncement) /\ UNCHANGED vars

(* JobLease's fairness, with every stage of a pass answered. *)
RemFairness ==
    /\ WF_allVars(Tick)
    /\ \A p \in Procs :
        /\ WF_allVars(TimerFires(p) /\ UNCHANGED remVars)
        /\ WF_allVars(Lead(p))
        /\ WF_allVars(Work(p))
        /\ WF_allVars(FinishPass(p))

RemSpec == RemInit /\ [][RemNext]_allVars /\ RemFairness

-----------------------------------------------------------------------------
(* A reminder is in a user's inbox once, and a celebration is announced      *)
(* once, unless one of the copies was written by a pass that had outlived    *)
(* its lease or by hand: crashes, failures, changes of leader, the cleanup   *)
(* and deletions do not double a message, although reading and writing are   *)
(* separate statements.                                                      *)
RemindedOnce ==
    /\ \A m, n \in inbox :
        (m # n /\ m.user = n.user /\ m.kind = n.kind /\ m.day = n.day /\ m.kind # "celebration")
            => m.late \/ n.late
    /\ \A v, w \in posts : (v # w /\ v.day = w.day) => v.late \/ w.late

(* The in-memory day key of a process never hides an unsent message: when it *)
(* is set, and its sweep is not going on, everybody concerned has been told. *)
SweptMeansTold ==
    \A p \in Procs, u \in Users :
        /\ (holidaySweep[p] # None /\ holidaySweep[p] + 1 \in calendar.holidays)
            => <<u, "holiday", holidaySweep[p]>> \in told
        /\ (billingSweep[p] # None /\ billingSweep[p] > UtcDay(calendar.ending) /\ plan[p] = None)
            => <<u, "billing", 0>> \in told
=============================================================================
