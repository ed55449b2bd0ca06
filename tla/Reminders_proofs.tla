--------------------------- MODULE Reminders_proofs --------------------------
(***************************************************************************)
(* Proofs about the leader lease for any set of processes, any time to     *)
(* live and any number of faults, and about the reminders sent under it for *)
(* any users and any calendar.                                              *)
(***************************************************************************)
EXTENDS Reminders, TLAPS

(* Every step of every process, of the clock and of a fault keeps the types. *)
LEMMA Typing == TypeOK /\ [Next]_vars => TypeOK'
<1> USE ProcsAssumption, TtlAssumption, FaultsAssumption DEF TypeOK, Left, Phases
<1> SUFFICES ASSUME TypeOK, [Next]_vars PROVE TypeOK'
  OBVIOUS
<1>1. CASE Clock
  BY <1>1 DEF Clock, Older
<1>2. ASSUME NEW p \in Procs, TimerFires(p) PROVE TypeOK'
  BY <1>2 DEF TimerFires
<1>3. ASSUME NEW p \in Procs, Step(p) PROVE TypeOK'
  <2>1. CASE AcquireLease(p)
    BY <2>1 DEF AcquireLease
  <2>2. CASE NotLeader(p)
    BY <2>2 DEF NotLeader
  <2>3. CASE AcquireError(p)
    <3>1. row' \in [holder : Procs \cup {Dead}, left : Left]
      BY <2>3 DEF AcquireError
    <3> QED
      BY <2>3, <3>1 DEF AcquireError
  <2> QED
    BY <1>3, <2>1, <2>2, <2>3 DEF Step
<1>4. ASSUME NEW p \in Procs, EndPass(p) PROVE TypeOK'
  BY <1>4 DEF EndPass
<1>5. ASSUME NEW p \in Procs, Crash(p) PROVE TypeOK'
  <2>1. row' \in [holder : Procs \cup {Dead}, left : Left]
    BY <1>5 DEF Crash
  <2> QED
    BY <1>5, <2>1 DEF Crash
<1>6. CASE UNCHANGED vars
  BY <1>6 DEF vars
<1> QED
  BY <1>1, <1>2, <1>3, <1>4, <1>5, <1>6 DEF Next

(* The row goes on naming the process that works under it: another process  *)
(* takes it only after it expired, and then the first is no longer covered.  *)
LEMMA RowBacksStep == LeaseInv /\ [Next]_vars => RowBacksLeader'
<1> USE ProcsAssumption, TtlAssumption DEF LeaseInv, TypeOK, Left, Phases, RowBacksLeader, Covered
<1> SUFFICES ASSUME LeaseInv, [Next]_vars,
                    NEW q \in Procs, Covered(q)'
             PROVE  row'.holder = q /\ row'.left = grant'[q]
  OBVIOUS
<1>1. CASE Clock
  BY <1>1 DEF Clock, Older
<1>2. ASSUME NEW p \in Procs, TimerFires(p)
      PROVE  row'.holder = q /\ row'.left = grant'[q]
  BY <1>2 DEF TimerFires
<1>3. ASSUME NEW p \in Procs, Step(p)
      PROVE  row'.holder = q /\ row'.left = grant'[q]
  <2>1. CASE AcquireLease(p)
    BY <2>1 DEF AcquireLease, MayTake
  <2>2. CASE NotLeader(p)
    BY <2>2 DEF NotLeader
  <2>3. CASE AcquireError(p)
    \* q # p, because p is idle afterwards: q was covered before, so the row
    \* was q's own and unexpired and p could not take it
    <3>1. Covered(q) /\ q # p
      BY <2>3 DEF AcquireError
    <3>2. ~MayTake(p)
      BY <3>1 DEF MayTake
    <3> QED
      BY <2>3, <3>1, <3>2 DEF AcquireError
  <2> QED
    BY <1>3, <2>1, <2>2, <2>3 DEF Step
<1>4. ASSUME NEW p \in Procs, EndPass(p)
      PROVE  row'.holder = q /\ row'.left = grant'[q]
  BY <1>4 DEF EndPass
<1>5. ASSUME NEW p \in Procs, Crash(p)
      PROVE  row'.holder = q /\ row'.left = grant'[q]
  <2>1. Covered(q) /\ q # p
    BY <1>5 DEF Crash
  <2>2. row' = row
    BY <1>5, <2>1 DEF Crash
  <2> QED
    BY <1>5, <2>1, <2>2 DEF Crash
<1>6. CASE UNCHANGED vars
  BY <1>6 DEF vars
<1> QED
  BY <1>1, <1>2, <1>3, <1>4, <1>5, <1>6 DEF Next

(* The types and the link between the row and the working process hold in   *)
(* every reachable state.                                                   *)
THEOREM LeaseInvariant == Spec => []LeaseInv
<1>1. Init => LeaseInv
  BY ProcsAssumption, TtlAssumption, FaultsAssumption
  DEF Init, LeaseInv, TypeOK, Left, Phases, RowBacksLeader, Covered
<1>2. LeaseInv /\ [Next]_vars => LeaseInv'
  BY Typing, RowBacksStep DEF LeaseInv
<1> QED
  BY <1>1, <1>2, PTL DEF Spec

(* jobLease.js: two processes never work at the same time under leases both  *)
(* of which are still valid.                                                *)
THEOREM LeaseExcludes == Spec => []OneCoveredLeader
<1>1. LeaseInv => OneCoveredLeader
  BY DEF LeaseInv, RowBacksLeader, OneCoveredLeader
<1> QED
  BY <1>1, LeaseInvariant, PTL

(* The upsert's WHERE clause: the row changes hands only once it expired.    *)
THEOREM LeaseNotStolen == Spec => NoTheft
<1>1. LeaseInv /\ [Next]_vars =>
        [row'.holder \in Procs /\ row'.holder # row.holder => row.left < 0]_vars
  <2> SUFFICES ASSUME LeaseInv, Next, row'.holder \in Procs, row'.holder # row.holder
               PROVE  row.left < 0
    BY DEF vars
  <2> USE ProcsAssumption DEF LeaseInv, TypeOK
  <2>1. CASE Clock
    BY <2>1 DEF Clock
  <2>2. ASSUME NEW p \in Procs, TimerFires(p) \/ Step(p) \/ EndPass(p) \/ Crash(p)
        PROVE  row.left < 0
    BY <2>2 DEF TimerFires, Step, AcquireLease, NotLeader, AcquireError, MayTake, EndPass, Crash
  <2> QED
    BY <2>1, <2>2 DEF Next
<1> QED
  BY <1>1, LeaseInvariant, PTL DEF Spec, NoTheft
-----------------------------------------------------------------------------
(* The pass under the lease *)

Daily == {"checkIn", "checkOut", "holiday"}
StageNames == {"none", "clean"} \cup Kinds
StageOf(kind) == IF kind = "post" THEN "celebration" ELSE kind

RemTypes ==
    /\ calendar \in Calendars /\ now \in Nat
    /\ stage \in [Actors -> StageNames]
    /\ plan \in [Actors -> Plans \cup {None}]
    /\ holidaySweep \in [Procs -> Int \cup {None}]
    /\ billingSweep \in [Procs -> Int \cup {None}]
    /\ \A n \in inbox : n.user \in Users /\ n.kind \in Kinds /\ n.day \in Int /\ n.at \in Int
    /\ phase \in [Procs -> Phases]

(* A process is in a stage only during a pass, and what it has read belongs to  *)
(* the stage it is in.                                                      *)
PassRuns ==
    /\ \A p \in Procs : stage[p] # "none" => phase[p] = "pass"
    /\ \A a \in Actors : plan[a] # None => stage[a] = StageOf(plan[a].kind)

(* What a daily reminder's row and plan have in common: they were written after *)
(* the instant from which Received looks for rows of their day.               *)
Dated ==
    /\ \A n \in inbox : ~n.late /\ n.kind \in Daily => n.at >= 4 * n.day + Sunrise
    /\ \A p \in Procs : plan[p] # None /\ plan[p].kind \in Daily => now >= 4 * plan[p].day + Sunrise

(* While the lease lasts under which a process read, nobody else has sent under *)
(* a lease what it is about to send.                                        *)
StillMissing ==
    \A p \in Procs : plan[p] # None /\ Covered(p) =>
        /\ plan[p].kind = "post" => \A w \in posts : w.day = plan[p].day => w.late
        /\ plan[p].kind \in Kinds \ {"celebration"} =>
              \A n \in inbox : n.user \in plan[p].users /\ n.kind = plan[p].kind /\ n.day = plan[p].day => n.late

(* Who is not among the users of a plan has been told, if it concerns them. *)
OthersTold ==
    /\ \A n \in inbox : <<n.user, n.kind, n.day>> \in told /\ (n.kind = "billing" => n.day = 0)
    /\ \A p \in Procs : plan[p] # None /\ plan[p].kind = "holiday" /\ plan[p].day + 1 \in calendar.holidays =>
          \A u \in Users \ plan[p].users : <<u, "holiday", plan[p].day>> \in told
    /\ \A a \in Actors : plan[a] # None /\ plan[a].kind = "billing" => plan[a].day = 0

(* The day keys: set when their sweep is over, or, for the billing message, as   *)
(* soon as it is known who lacks it.                                        *)
KeysHold ==
    \A p \in Procs, u \in Users :
        /\ (holidaySweep[p] # None /\ holidaySweep[p] + 1 \in calendar.holidays)
            => <<u, "holiday", holidaySweep[p]>> \in told
        /\ billingSweep[p] # None =>
            /\ calendar.ending # None
            /\ billingSweep[p] > UtcDay(calendar.ending) =>
                  \/ <<u, "billing", 0>> \in told
                  \/ plan[p] # None /\ plan[p].kind = "billing" /\ u \in plan[p].users

PassInv == RemTypes /\ PassRuns

ToldInv == PassInv /\ OthersTold /\ KeysHold

OnceInv == LeaseInv /\ PassInv /\ Dated /\ StillMissing /\ RemindedOnce

(* UTC midnight has passed when the first reminders of a day are due.         *)
EarlySunrise == Sunrise <= 1

-----------------------------------------------------------------------------
(* The steps of JobLease are steps of its own specification, but for the error  *)
(* that ends a pass, which the lease does not notice.                        *)
LEMMA LeaseStep == ASSUME [RemNext]_allVars PROVE [Next]_vars \/ \E p \in Procs : FailPass(p)
<1>1. CASE Tick
  BY <1>1 DEF Tick, Next
<1>2. ASSUME NEW p \in Procs,
             \/ TimerFires(p) /\ UNCHANGED remVars
             \/ Lead(p) \/ Work(p) \/ FinishPass(p) \/ CrashProcess(p)
      PROVE  [Next]_vars
  <2>1. CASE TimerFires(p)
    BY <2>1 DEF Next
  <2>2. CASE Lead(p)
    BY <2>2 DEF Lead, StartPass, Step, Next
  <2>3. CASE Work(p)
    BY <2>3 DEF Work
  <2>4. CASE FinishPass(p)
    BY <2>4 DEF FinishPass, Next
  <2>5. CASE CrashProcess(p)
    BY <2>5 DEF CrashProcess, Next
  <2> QED
    BY <1>2, <2>1, <2>2, <2>3, <2>4, <2>5
<1>3. CASE UNCHANGED vars
  BY <1>3
<1> QED
  BY <1>1, <1>2, <1>3 DEF RemNext, allVars

LEMMA LeaseKept == LeaseInv /\ [RemNext]_allVars => LeaseInv'
<1> SUFFICES ASSUME LeaseInv, [RemNext]_allVars PROVE LeaseInv'
  OBVIOUS
<1>1. CASE [Next]_vars
  BY <1>1, Typing, RowBacksStep DEF LeaseInv
<1>2. ASSUME NEW p \in Procs, FailPass(p) PROVE LeaseInv'
  BY <1>2, FaultsAssumption DEF FailPass, LeaseInv, TypeOK, RowBacksLeader, Covered
<1> QED
  BY <1>1, <1>2, LeaseStep

LEMMA LeaseInit == Init => LeaseInv
BY ProcsAssumption, TtlAssumption, FaultsAssumption
DEF Init, LeaseInv, TypeOK, Left, Phases, RowBacksLeader, Covered

(* The scheduler with its pass keeps the lease's promise.                     *)
LEMMA LeaseAlways == RemSpec => []LeaseInv
<1>1. RemInit => LeaseInv
  BY LeaseInit DEF RemInit
<1> QED
  BY <1>1, LeaseKept, PTL DEF RemSpec

(* The lease excludes, whatever the passes do under it. *)
THEOREM PassesExclude == RemSpec => []OneCoveredLeader
<1>1. LeaseInv => OneCoveredLeader
  BY DEF LeaseInv, RowBacksLeader, OneCoveredLeader
<1> QED
  BY <1>1, LeaseAlways, PTL

-----------------------------------------------------------------------------
(* Stages and plans *)

(* The next stage is one of the stages, or none. *)
LEMMA AdvanceTyped ==
  ASSUME NEW a \in Actors, stage \in [Actors -> StageNames], Advance(a)
  PROVE  \E s \in StageNames : stage' = [stage EXCEPT ![a] = s]
<1> DEFINE Later == {i \in 1 .. 6 : (\E j \in 1 .. i - 1 : Stages[j] = stage[a]) /\ InTime(a, Stages[i])}
           first == CHOOSE i \in Later : \A j \in Later : i <= j
<1>1. stage' = [stage EXCEPT ![a] = IF a = Desk \/ Later = {} THEN "none" ELSE Stages[first]]
  BY DEF Advance
<1>2. ASSUME Later # {} PROVE Stages[first] \in StageNames
  <2>1. \E i \in Later : \A j \in Later : i <= j
    <3> HIDE DEF Later
    <3>1. \A i \in Later : i \in {1, 2, 3, 4, 5, 6}
      BY DEF Later
    <3> QED
      BY <1>2, <3>1
  <2>2. first \in Later
    <3> HIDE DEF Later
    <3> QED
      BY <2>1
  <2>3. first \in {1, 2, 3, 4, 5, 6}
    BY <2>2
  <2> HIDE DEF first
  <2> QED
    BY <2>3 DEF Stages, StageNames, Kinds
<1> HIDE DEF Later, first
<1> QED
  BY <1>1, <1>2 DEF StageNames

(* A stage that is being left has no plan, and one with a plan has that stage.  *)
LEMMA PlanStage ==
  ASSUME PassInv, NEW a \in Actors, plan[a] # None
  PROVE  plan[a] \in Plans /\ stage[a] = StageOf(plan[a].kind) /\ stage[a] \notin {"none", "clean"}
<1>1. plan[a] \in Plans /\ stage[a] = StageOf(plan[a].kind)
  BY DEF PassInv, RemTypes, PassRuns
<1> QED
  BY <1>1 DEF Plans, Kinds, StageOf

(* PassInv is kept by a step that moves one actor from a stage to another and    *)
(* drops or keeps its plan, or gives it one of the stage.                     *)
LEMMA StageMoves ==
  ASSUME PassInv, NEW a \in Actors, NEW s \in StageNames, NEW q \in Plans \cup {None},
         stage' = [stage EXCEPT ![a] = s], plan' = [plan EXCEPT ![a] = q],
         q # None => s = StageOf(q.kind),
         a \in Procs /\ s # "none" => phase'[a] = "pass",
         \A p \in Procs \ {a} : phase'[p] = phase[p],
         phase' \in [Procs -> Phases], calendar' \in Calendars, now' \in Nat,
         holidaySweep' \in [Procs -> Int \cup {None}],
         billingSweep' \in [Procs -> Int \cup {None}],
         \A n \in inbox' : n.user \in Users /\ n.kind \in Kinds /\ n.day \in Int /\ n.at \in Int
  PROVE  PassInv'
<1>1. stage' \in [Actors -> StageNames] /\ plan' \in [Actors -> Plans \cup {None}]
  BY DEF PassInv, RemTypes
<1>2. RemTypes'
  BY <1>1 DEF RemTypes
<1>3. \A p \in Procs : stage'[p] # "none" => phase'[p] = "pass"
  BY DEF PassInv, RemTypes, PassRuns, Actors
<1>4. \A b \in Actors : plan'[b] # None => stage'[b] = StageOf(plan'[b].kind)
  BY DEF PassInv, RemTypes, PassRuns
<1> QED
  BY <1>2, <1>3, <1>4 DEF PassInv, PassRuns

(* The instant as a number of hours. *)
LEMMA Hours == ASSUME NEW t \in Int PROVE t = 4 * DayOf(t) + Hour(t) /\ DayOf(t) \in Int /\ Hour(t) \in 0 .. 3
BY DEF DayOf, Hour

LEMMA UtcDayTyped == \A t \in Int : UtcDay(t) \in Int
BY RemindersAssumption DEF UtcDay

LEMMA UtcDayGrows == ASSUME NEW s \in Int, NEW t \in Int, UtcDay(t) > UtcDay(s) PROVE t > s
BY RemindersAssumption DEF UtcDay

(* What Deliver adds to the inboxes. *)
LEMMA Delivered ==
  ASSUME NEW a \in Actors, Deliver(a), NEW n \in inbox', n \notin inbox
  PROVE  \E u \in plan[a].users : /\ n.user = u /\ n.kind = plan[a].kind /\ n.day = plan[a].day
                                  /\ n.at = now /\ n.late = Late(a)
<1> DEFINE To(u) == [user |-> u, kind |-> plan[a].kind, day |-> plan[a].day, at |-> now, late |-> Late(a),
                     no |-> Copy({m \in inbox : m.user = u /\ m.kind = plan[a].kind})]
<1>1. inbox' = inbox \cup {To(u) : u \in plan[a].users}
  BY DEF Deliver
<1>2. PICK u \in plan[a].users : n = To(u)
  <2> HIDE DEF To
  <2> QED
    BY <1>1
<1> QED
  BY <1>2

LEMMA DeliveredEach ==
  ASSUME NEW a \in Actors, Deliver(a), NEW m \in inbox' \ inbox, NEW n \in inbox' \ inbox, m.user = n.user
  PROVE  m = n
<1> DEFINE To(u) == [user |-> u, kind |-> plan[a].kind, day |-> plan[a].day, at |-> now, late |-> Late(a),
                     no |-> Copy({r \in inbox : r.user = u /\ r.kind = plan[a].kind})]
<1>1. inbox' = inbox \cup {To(u) : u \in plan[a].users}
  BY DEF Deliver
<1>2. \A u \in plan[a].users : To(u).user = u
  OBVIOUS
<1> HIDE DEF To
<1> QED
  BY <1>1, <1>2

(* One stage of a pass, or of the manual trigger. *)
LEMMA StageKeeps ==
  ASSUME PassInv, NEW a \in Actors, StageStep(a), UNCHANGED phase
  PROVE  PassInv'
<1> USE DEF PassInv
<1>0. stage \in [Actors -> StageNames] /\ (a \in Procs => (stage[a] # "none" => phase[a] = "pass"))
  BY DEF RemTypes, PassRuns
<1>1. CASE CleanUp(a)
  <2>1. plan[a] = None /\ plan' = [plan EXCEPT ![a] = None]
    <3>1. plan[a] = None
      BY <1>1, PlanStage DEF CleanUp
    <3> QED
      BY <1>1, <3>1 DEF CleanUp, RemTypes
  <2>2. PICK s \in StageNames : stage' = [stage EXCEPT ![a] = s]
    BY <1>0, <1>1, AdvanceTyped DEF CleanUp
  <2> QED
    BY <1>0, <1>1, <2>1, <2>2, StageMoves DEF CleanUp, RemTypes
<1>2. CASE ReadCelebrations(a)
  <2>1. stage[a] = "celebration" /\ plan[a] = None
    BY <1>2 DEF ReadCelebrations
  <2>2. UNCHANGED <<calendar, now, inbox, holidaySweep, billingSweep>>
    BY <1>2 DEF ReadCelebrations
  <2>3. CASE InTime(a, "celebration") /\ ~\E w \in posts : w.day = Today
    <3> DEFINE q == [kind |-> "post", day |-> Today, users |-> {}]
    <3>1. plan' = [plan EXCEPT ![a] = q] /\ stage' = stage
      BY <1>2, <2>3 DEF ReadCelebrations
    <3>2. q \in Plans /\ q.kind = "post"
      BY Hours DEF Plans, Today, RemTypes
    <3> HIDE DEF q
    <3>3. stage' = [stage EXCEPT ![a] = "celebration"] /\ "celebration" \in StageNames
      BY <1>0, <2>1, <3>1 DEF StageNames, Kinds
    <3> QED
      BY <1>0, <2>1, <2>2, <3>1, <3>2, <3>3, StageMoves DEF RemTypes, StageOf
  <2>4. CASE ~(InTime(a, "celebration") /\ ~\E w \in posts : w.day = Today)
    <3>1. Advance(a) /\ plan' = plan
      BY <1>2, <2>4 DEF ReadCelebrations
    <3>2. PICK s \in StageNames : stage' = [stage EXCEPT ![a] = s]
      BY <1>0, <3>1, AdvanceTyped
    <3>3. plan' = [plan EXCEPT ![a] = None]
      BY <2>1, <3>1 DEF RemTypes
    <3> QED
      BY <1>0, <2>1, <2>2, <3>2, <3>3, StageMoves DEF RemTypes
  <2> QED
    BY <2>3, <2>4
<1>3. CASE PostAnnouncement(a)
  <2> DEFINE q == [kind |-> "celebration", day |-> plan[a].day, users |-> Users]
  <2>1. plan[a] # None /\ plan[a].kind = "post" /\ UNCHANGED <<calendar, now, inbox, stage, holidaySweep, billingSweep>>
    BY <1>3 DEF PostAnnouncement
  <2>2. plan[a] \in Plans /\ stage[a] = "celebration"
    BY <2>1, PlanStage DEF StageOf
  <2>3. plan' = [plan EXCEPT ![a] = q]
    BY <1>3 DEF PostAnnouncement, RemTypes
  <2>4. q \in Plans /\ q.kind = "celebration"
    BY <2>2 DEF Plans, Kinds
  <2> HIDE DEF q
  <2>5. stage' = [stage EXCEPT ![a] = "celebration"] /\ "celebration" \in StageNames
    BY <1>0, <2>1, <2>2 DEF StageNames, Kinds
  <2> QED
    BY <1>0, <2>1, <2>2, <2>3, <2>4, <2>5, StageMoves DEF RemTypes, StageOf
<1>4. ASSUME NEW kind \in Kinds \ {"celebration"}, ReadReminders(a, kind) PROVE PassInv'
  <2>1. stage[a] = kind /\ plan[a] = None /\ UNCHANGED <<calendar, now, inbox>>
    BY <1>4 DEF ReadReminders
  <2>2. Today \in Int /\ UtcDay(now) \in Int
    BY Hours, UtcDayTyped DEF Today, RemTypes
  <2>3. holidaySweep' \in [Procs -> Int \cup {None}]
    BY <1>4, <2>2 DEF ReadReminders, SetHoliday, RemTypes
  <2>4. billingSweep' \in [Procs -> Int \cup {None}]
    BY <1>4, <2>2 DEF ReadReminders, RemTypes
  <2>5. CASE InTime(a, kind) /\ Missing(kind) # {}
    <3> DEFINE q == [kind |-> kind, day |-> About(kind), users |-> Missing(kind)]
    <3>1. plan' = [plan EXCEPT ![a] = q] /\ stage' = stage
      BY <1>4, <2>5 DEF ReadReminders
    <3>2. Missing(kind) \subseteq Users /\ About(kind) \in Int
      BY <2>2 DEF Missing, About
    <3>3. q \in Plans /\ q.kind = kind
      BY <3>2 DEF Plans
    <3> HIDE DEF q
    <3>4. stage' = [stage EXCEPT ![a] = kind] /\ kind \in StageNames /\ StageOf(kind) = kind
      BY <1>0, <2>1, <3>1 DEF StageNames, StageOf, Kinds
    <3>5. kind # "none"
      BY DEF Kinds
    <3> QED
      BY <1>0, <2>1, <2>3, <2>4, <3>1, <3>3, <3>4, <3>5, StageMoves DEF RemTypes
  <2>6. CASE ~(InTime(a, kind) /\ Missing(kind) # {})
    <3>1. Advance(a) /\ plan' = plan
      BY <1>4, <2>6 DEF ReadReminders
    <3>2. PICK s \in StageNames : stage' = [stage EXCEPT ![a] = s]
      BY <1>0, <3>1, AdvanceTyped
    <3>3. plan' = [plan EXCEPT ![a] = None]
      BY <2>1, <3>1 DEF RemTypes
    <3>4. kind # "none"
      BY DEF Kinds
    <3> QED
      BY <1>0, <2>1, <2>3, <2>4, <3>2, <3>3, <3>4, StageMoves DEF RemTypes
  <2> QED
    BY <2>5, <2>6
<1>5. CASE Deliver(a)
  <2>1. plan[a] # None /\ plan[a].kind # "post" /\ UNCHANGED <<calendar, now, billingSweep>>
    BY <1>5 DEF Deliver
  <2>2. plan[a] \in Plans /\ stage[a] # "none"
    BY <2>1, PlanStage
  <2>3. plan[a].kind \in Kinds /\ plan[a].day \in Int /\ plan[a].users \subseteq Users
    BY <2>1, <2>2 DEF Plans
  <2>4. holidaySweep' \in [Procs -> Int \cup {None}]
    BY <1>5, <2>3 DEF Deliver, SetHoliday, RemTypes
  <2>5. \A n \in inbox' : n.user \in Users /\ n.kind \in Kinds /\ n.day \in Int /\ n.at \in Int
    <3> SUFFICES ASSUME NEW n \in inbox', n \notin inbox
                 PROVE  n.user \in Users /\ n.kind \in Kinds /\ n.day \in Int /\ n.at \in Int
      BY DEF RemTypes
    <3>1. PICK u \in plan[a].users : n.user = u /\ n.kind = plan[a].kind /\ n.day = plan[a].day /\ n.at = now
      BY <1>5, Delivered
    <3> QED
      BY <2>3, <3>1 DEF RemTypes
  <2>6. plan' = [plan EXCEPT ![a] = None] /\ Advance(a)
    BY <1>5 DEF Deliver
  <2>7. PICK s \in StageNames : stage' = [stage EXCEPT ![a] = s]
    BY <1>0, <2>6, AdvanceTyped
  <2> QED
    BY <1>0, <2>1, <2>2, <2>4, <2>5, <2>6, <2>7, StageMoves DEF RemTypes
<1>6. {"holiday", "checkIn", "checkOut", "billing"} \subseteq Kinds \ {"celebration"}
  BY DEF Kinds
<1> QED
  BY <1>1, <1>2, <1>3, <1>4, <1>5, <1>6
     DEF StageStep, HolidayReminders, CheckInReminders, CheckOutReminders, BillingReminders

(* A failure leaves the stage without a plan. *)
LEMMA FailKeeps ==
  ASSUME PassInv, NEW a \in Procs, UNCHANGED phase, FailStage(a)
  PROVE  PassInv'
<1> USE DEF PassInv
<1>1. a \in Actors /\ "none" \in StageNames
  BY DEF Actors, StageNames
<1>2. billingSweep' \in [Procs -> Int \cup {None}]
  BY DEF FailStage, RemTypes
<1> QED
  BY <1>1, <1>2, StageMoves DEF FailStage, RemTypes

(* Every step of the scheduler and of its users keeps types and stages.        *)
LEMMA PassKept ==
  ASSUME PassInv, [RemNext]_allVars
  PROVE  PassInv'
<1> USE DEF PassInv
<1>1. CASE Tick
  BY <1>1 DEF Tick, Clock, RemTypes, PassRuns
<1>2. ASSUME NEW p \in Procs, TimerFires(p), UNCHANGED remVars PROVE PassInv'
  BY <1>2 DEF TimerFires, remVars, RemTypes, PassRuns, Phases
<1>3. ASSUME NEW p \in Procs, Lead(p) PROVE PassInv'
  <2>1. CASE StartPass(p)
    <3>1. phase[p] = "asking" /\ phase' = [phase EXCEPT ![p] = "pass"]
      BY <2>1 DEF StartPass, AcquireLease
    <3>2. p \in Actors /\ stage[p] = "none"
      BY <3>1 DEF PassRuns, Actors
    <3>3. plan[p] = None
      BY <3>2, PlanStage
    <3>4. stage' = [stage EXCEPT ![p] = "clean"] /\ plan' = [plan EXCEPT ![p] = None] /\ "clean" \in StageNames
      BY <2>1, <3>2, <3>3 DEF StartPass, RemTypes, StageNames
    <3>5. phase' \in [Procs -> Phases]
      BY <3>1 DEF RemTypes, Phases
    <3>6. UNCHANGED <<calendar, now, inbox, holidaySweep, billingSweep>>
      BY <2>1 DEF StartPass
    <3> QED
      BY <3>1, <3>2, <3>4, <3>5, <3>6, StageMoves DEF RemTypes
  <2>2. CASE (NotLeader(p) \/ AcquireError(p)) /\ UNCHANGED remVars
    <3>1. phase[p] = "asking" /\ phase' = [phase EXCEPT ![p] = "idle"]
      BY <2>2 DEF NotLeader, AcquireError
    <3> QED
      BY <2>2, <3>1 DEF remVars, RemTypes, PassRuns, Phases
  <2> QED
    BY <1>3, <2>1, <2>2 DEF Lead
<1>4. ASSUME NEW p \in Procs, Work(p) PROVE PassInv'
  BY <1>4, StageKeeps DEF Work, vars, Actors
<1>5. ASSUME NEW p \in Procs, FinishPass(p) PROVE PassInv'
  <2>1. stage[p] = "none" /\ phase' = [phase EXCEPT ![p] = "idle"] /\ UNCHANGED remVars
    BY <1>5 DEF FinishPass, EndPass
  <2> QED
    BY <2>1 DEF remVars, RemTypes, PassRuns, Phases
<1>6. ASSUME NEW p \in Procs, FailPass(p) PROVE PassInv'
  BY <1>6, FailKeeps DEF FailPass
<1>7. ASSUME NEW p \in Procs, CrashProcess(p) PROVE PassInv'
  <2>1. /\ p \in Actors /\ "none" \in StageNames
        /\ stage' = [stage EXCEPT ![p] = "none"] /\ plan' = [plan EXCEPT ![p] = None]
        /\ phase' = [phase EXCEPT ![p] = "idle"]
    BY <1>7 DEF CrashProcess, Crash, Actors, StageNames
  <2>2. /\ holidaySweep' \in [Procs -> Int \cup {None}]
        /\ billingSweep' \in [Procs -> Int \cup {None}]
        /\ phase' \in [Procs -> Phases]
    BY <1>7, <2>1 DEF CrashProcess, RemTypes, Phases
  <2>3. UNCHANGED <<calendar, now, inbox>>
    BY <1>7 DEF CrashProcess
  <2> QED
    BY <2>1, <2>2, <2>3, StageMoves DEF RemTypes
<1>8. CASE TriggerReminders /\ UNCHANGED vars
  <2>1. PICK kind \in {"checkIn", "checkOut"} :
           /\ stage' = [stage EXCEPT ![Desk] = kind]
           /\ plan' = [plan EXCEPT ![Desk] = [kind |-> kind, day |-> Today, users |-> Missing(kind)]]
    BY <1>8 DEF TriggerReminders
  <2> DEFINE q == [kind |-> kind, day |-> Today, users |-> Missing(kind)]
  <2>2. q \in Plans /\ StageOf(q.kind) = kind
    BY Hours DEF Plans, Kinds, StageOf, Today, RemTypes, Missing
  <2>3. kind \in StageNames /\ Desk \in Actors /\ Desk \notin Procs
    BY DeskAssumption DEF StageNames, Kinds, Actors
  <2>4. UNCHANGED <<calendar, now, inbox, holidaySweep, billingSweep, phase>>
    BY <1>8 DEF TriggerReminders, vars
  <2> HIDE DEF q
  <2>5. plan' = [plan EXCEPT ![Desk] = q]
    BY <2>1 DEF q
  <2> QED
    BY <2>1, <2>2, <2>3, <2>4, <2>5, StageMoves DEF RemTypes
<1>9. CASE Deliver(Desk) /\ UNCHANGED vars
  BY <1>9, StageKeeps DEF StageStep, vars, Actors
<1>10. CASE (DeleteNotification \/ RemoveAnnouncement) /\ UNCHANGED vars
  BY <1>10 DEF DeleteNotification, RemoveAnnouncement, vars, RemTypes, PassRuns
<1>11. CASE UNCHANGED allVars
  BY <1>11 DEF allVars, vars, remVars, RemTypes, PassRuns
<1> QED
  BY <1>1, <1>2, <1>3, <1>4, <1>5, <1>6, <1>7, <1>8, <1>9, <1>10, <1>11 DEF RemNext

LEMMA PassInit == RemInit => PassInv
<1> SUFFICES ASSUME RemInit PROVE PassInv
  OBVIOUS
<1>1. calendar \in Calendars /\ now \in Nat
  BY RemindersAssumption DEF RemInit
<1>2. stage \in [Actors -> StageNames] /\ plan \in [Actors -> Plans \cup {None}]
  BY DEF RemInit, StageNames
<1>3. holidaySweep \in [Procs -> Int \cup {None}] /\ billingSweep \in [Procs -> Int \cup {None}]
  BY DEF RemInit
<1>4. inbox = {} /\ phase \in [Procs -> Phases]
  BY DEF RemInit, Init, Phases
<1>5. PassRuns
  BY DEF RemInit, PassRuns, Actors
<1> QED
  BY <1>1, <1>2, <1>3, <1>4, <1>5 DEF PassInv, RemTypes

-----------------------------------------------------------------------------
(* Who has been told *)

(* A process is an actor, and changing one actor's plan leaves the others'.     *)
LEMMA PlanAt ==
  ASSUME PassInv, NEW a \in Actors, NEW q, plan' = [plan EXCEPT ![a] = q]
  PROVE  plan'[a] = q /\ (\A p \in Actors \ {a} : plan'[p] = plan[p]) /\ Procs \subseteq Actors
BY DEF PassInv, RemTypes, Actors

(* What has been told stays told, and a day key that is set stays true, in a     *)
(* step that neither sends nor looks for holiday and billing messages.         *)
LEMMA ToldMoves ==
  ASSUME ToldInv, calendar' = calendar, told' = told, inbox' \subseteq inbox,
         \A a \in Actors :
            \/ plan'[a] = None \/ plan'[a] = plan[a]
            \/ plan'[a].kind \notin {"holiday", "billing"},
         \A p \in Procs :
            /\ holidaySweep'[p] = None \/ holidaySweep'[p] = holidaySweep[p]
            /\ \/ billingSweep'[p] = None
               \/ /\ billingSweep'[p] = billingSweep[p]
                  /\ plan'[p] = plan[p] \/ plan[p] = None \/ plan[p].kind # "billing"
  PROVE  OthersTold' /\ KeysHold'
<1>0. Procs \subseteq Actors
  BY DEF Actors
<1>1. OthersTold'
  BY <1>0 DEF ToldInv, OthersTold
<1>2. ASSUME NEW p \in Procs, NEW u \in Users,
             holidaySweep'[p] # None, holidaySweep'[p] + 1 \in calendar'.holidays
      PROVE  <<u, "holiday", holidaySweep'[p]>> \in told'
  BY <1>2 DEF ToldInv, KeysHold
<1>3. ASSUME NEW p \in Procs, NEW u \in Users, billingSweep'[p] # None
      PROVE  /\ calendar'.ending # None
             /\ billingSweep'[p] > UtcDay(calendar'.ending) =>
                  \/ <<u, "billing", 0>> \in told'
                  \/ plan'[p] # None /\ plan'[p].kind = "billing" /\ u \in plan'[p].users
  BY <1>0, <1>3 DEF ToldInv, KeysHold
<1>4. UtcDay(calendar.ending)' = UtcDay(calendar'.ending)
  BY DEF UtcDay
<1> QED
  BY <1>1, <1>2, <1>3, <1>4 DEF KeysHold

(* Whoever is left out of a reminder that is due has been told, or it does not  *)
(* concern them.                                                            *)
LEMMA LeftOut ==
  ASSUME ToldInv, NEW u \in Users
  PROVE  /\ u \notin Missing("holiday") /\ Today + 1 \in calendar.holidays => <<u, "holiday", Today>> \in told
         /\ u \notin Missing("billing") /\ now >= calendar.ending => <<u, "billing", 0>> \in told
BY DEF ToldInv, OthersTold, Missing, Concerned, Received

(* Reading who lacks a message. *)
LEMMA ReadTold ==
  ASSUME ToldInv, NEW a \in Actors, NEW kind \in Kinds \ {"celebration"}, ReadReminders(a, kind)
  PROVE  OthersTold' /\ KeysHold'
<1>1. /\ plan[a] = None /\ UNCHANGED <<calendar, now, inbox, told>> /\ PassInv
      /\ holidaySweep \in [Procs -> Int \cup {None}] /\ billingSweep \in [Procs -> Int \cup {None}]
  BY DEF ReadReminders, ToldInv, PassInv, RemTypes
<1>2. plan' = [plan EXCEPT ![a] = plan'[a]]
      /\ (plan'[a] = None \/ plan'[a] = [kind |-> kind, day |-> About(kind), users |-> Missing(kind)])
  BY <1>1 DEF ReadReminders, PassInv, RemTypes
<1>0. (\A p \in Actors \ {a} : plan'[p] = plan[p]) /\ Procs \subseteq Actors
  BY <1>1, <1>2, PlanAt
<1>3. CASE kind \in {"checkIn", "checkOut"}
  <2>1. UNCHANGED <<holidaySweep, billingSweep>>
    BY <1>3 DEF ReadReminders, SetHoliday
  <2>2. plan'[a] = None \/ plan'[a].kind \notin {"holiday", "billing"}
    BY <1>2, <1>3
  <2> QED
    BY <1>0, <1>1, <2>1, <2>2, ToldMoves
<1>4. CASE kind = "holiday"
  <2>1. billingSweep' = billingSweep
    BY <1>4 DEF ReadReminders
  <2>2. /\ plan'[a] = None \/ plan'[a] = [kind |-> "holiday", day |-> Today, users |-> Missing("holiday")]
        /\ \A p \in Procs : p # a => holidaySweep'[p] = holidaySweep[p]
        /\ a \in Procs => \/ holidaySweep'[a] = holidaySweep[a]
                          \/ holidaySweep'[a] = Today /\ Missing("holiday") = {}
    BY <1>1, <1>2, <1>4 DEF ReadReminders, SetHoliday, About
  <2>3. OthersTold'
    <3>1. \A u \in Users \ Missing("holiday") :
              Today + 1 \in calendar.holidays => <<u, "holiday", Today>> \in told
      BY LeftOut
    <3>2. ASSUME NEW p \in Actors, plan'[p] # None
          PROVE  /\ p \in Procs /\ plan'[p].kind = "holiday" /\ plan'[p].day + 1 \in calendar.holidays =>
                       \A u \in Users \ plan'[p].users : <<u, "holiday", plan'[p].day>> \in told
                 /\ plan'[p].kind = "billing" => plan'[p].day = 0
      <4>1. CASE plan'[p] = plan[p]
        BY <3>2, <4>1 DEF ToldInv, OthersTold
      <4>2. CASE p = a /\ plan'[a] = [kind |-> "holiday", day |-> Today, users |-> Missing("holiday")]
        <5> HIDE DEF Today
        <5> QED
          BY <3>1, <4>2
      <4> QED
        BY <1>0, <2>2, <3>2, <4>1, <4>2
    <3> QED
      BY <1>0, <1>1, <3>2 DEF ToldInv, OthersTold
  <2>4. ASSUME NEW p \in Procs, NEW u \in Users,
               holidaySweep'[p] # None, holidaySweep'[p] + 1 \in calendar.holidays
        PROVE  <<u, "holiday", holidaySweep'[p]>> \in told
    <3>1. CASE holidaySweep'[p] = holidaySweep[p]
      BY <2>4, <3>1 DEF ToldInv, KeysHold
    <3>2. CASE holidaySweep'[p] = Today /\ Missing("holiday") = {}
      BY <2>4, <3>2, LeftOut
    <3> QED
      BY <2>2, <3>1, <3>2
  <2>5. \A p \in Procs : plan[p] # None => plan'[p] = plan[p]
    BY <1>0, <1>1
  <2> QED
    BY <1>1, <2>1, <2>3, <2>4, <2>5 DEF ToldInv, KeysHold, UtcDay
<1>5. CASE kind = "billing"
  <2>1. holidaySweep' = holidaySweep
    BY <1>5 DEF ReadReminders, SetHoliday
  <2>2. /\ plan'[a] = None \/ plan'[a] = [kind |-> "billing", day |-> 0, users |-> Missing("billing")]
        /\ \A p \in Procs : p # a => billingSweep'[p] = billingSweep[p]
        /\ a \in Procs => \/ billingSweep'[a] = billingSweep[a]
                          \/ /\ billingSweep'[a] = UtcDay(now) /\ calendar.ending # None
                             /\ plan'[a] = None => Missing("billing") = {}
    <3>1. InTime(a, "billing") => calendar.ending # None
      BY DEF InTime
    <3>2. [kind |-> "billing", day |-> 0, users |-> Missing("billing")] # None
      BY <1>1, NoPlanAssumption DEF Plans, Kinds, Missing
    <3>3. plan'[a] = None \/ plan'[a] = [kind |-> "billing", day |-> 0, users |-> Missing("billing")]
      BY <1>2, <1>5 DEF About
    <3>4. billingSweep' = IF InTime(a, "billing") THEN [billingSweep EXCEPT ![a] = UtcDay(now)] ELSE billingSweep
      BY <1>5 DEF ReadReminders
    <3>5. InTime(a, "billing") /\ plan'[a] = None => Missing("billing") = {}
      <4>1. InTime(a, "billing") /\ Missing("billing") # {} =>
               plan' = [plan EXCEPT ![a] = [kind |-> "billing", day |-> 0, users |-> Missing("billing")]]
        BY <1>5 DEF ReadReminders, About
      <4> QED
        BY <1>1, <3>2, <4>1, PlanAt
    <3> QED
      BY <1>1, <3>1, <3>3, <3>4, <3>5
  <2>3. OthersTold'
    <3>1. ASSUME NEW p \in Actors, plan'[p] # None
          PROVE  /\ p \in Procs /\ plan'[p].kind = "holiday" /\ plan'[p].day + 1 \in calendar.holidays =>
                       \A u \in Users \ plan'[p].users : <<u, "holiday", plan'[p].day>> \in told
                 /\ plan'[p].kind = "billing" => plan'[p].day = 0
      <4>1. CASE plan'[p] = plan[p]
        BY <3>1, <4>1 DEF ToldInv, OthersTold
      <4>2. CASE p = a /\ plan'[a] = [kind |-> "billing", day |-> 0, users |-> Missing("billing")]
        BY <4>2
      <4> QED
        BY <1>0, <2>2, <3>1, <4>1, <4>2
    <3> QED
      BY <1>0, <1>1, <3>1 DEF ToldInv, OthersTold
  <2>4. ASSUME NEW p \in Procs, NEW u \in Users, billingSweep'[p] # None
        PROVE  /\ calendar.ending # None
               /\ billingSweep'[p] > UtcDay(calendar.ending) =>
                    \/ <<u, "billing", 0>> \in told
                    \/ plan'[p] # None /\ plan'[p].kind = "billing" /\ u \in plan'[p].users
    <3>1. CASE billingSweep'[p] = billingSweep[p] /\ (p = a \/ plan'[p] = plan[p])
      BY <1>1, <2>4, <3>1 DEF ToldInv, KeysHold
    <3>2. CASE /\ p = a /\ billingSweep'[a] = UtcDay(now) /\ calendar.ending # None
               /\ plan'[a] = None => Missing("billing") = {}
      <4>1. ASSUME UtcDay(now) > UtcDay(calendar.ending), u \notin Missing("billing")
            PROVE  <<u, "billing", 0>> \in told
        <5>1. now \in Int /\ calendar.ending \in Int
          BY <3>2, RemindersAssumption DEF ToldInv, PassInv, RemTypes
        <5>2. now >= calendar.ending
          BY <4>1, <5>1, UtcDayGrows
        <5> QED
          BY <4>1, <5>2, LeftOut
      <4>2. u \in Missing("billing") => plan'[a] # None /\ plan'[a].kind = "billing" /\ u \in plan'[a].users
        BY <2>2, <2>4, <3>2
      <4> QED
        BY <3>2, <4>1, <4>2
    <3> QED
      BY <1>0, <2>2, <3>1, <3>2
  <2> QED
    BY <1>1, <2>1, <2>3, <2>4 DEF ToldInv, KeysHold, UtcDay
<1> QED
  BY <1>3, <1>4, <1>5 DEF Kinds

(* Sending the message that was read about. *)
LEMMA DeliverTold ==
  ASSUME ToldInv, NEW a \in Actors, Deliver(a)
  PROVE  OthersTold' /\ KeysHold'
<1>1. PassInv /\ plan[a] # None /\ UNCHANGED <<calendar, now, billingSweep>> /\ plan' = [plan EXCEPT ![a] = None]
  BY DEF Deliver, ToldInv
<1>2. /\ told \subseteq told'
      /\ \A u \in plan[a].users : <<u, plan[a].kind, plan[a].day>> \in told'
  BY DEF Deliver
<1>3. plan'[a] = None /\ (\A p \in Actors \ {a} : plan'[p] = plan[p]) /\ Procs \subseteq Actors
  BY <1>1, PlanAt
<1>4. OthersTold'
  <2>1. ASSUME NEW n \in inbox', n \notin inbox
        PROVE  <<n.user, n.kind, n.day>> \in told' /\ (n.kind = "billing" => n.day = 0)
    BY <1>1, <1>2, <2>1, Delivered DEF ToldInv, OthersTold
  <2>2. ASSUME NEW n \in inbox' PROVE <<n.user, n.kind, n.day>> \in told' /\ (n.kind = "billing" => n.day = 0)
    BY <1>2, <2>1 DEF ToldInv, OthersTold
  <2> QED
    BY <1>1, <1>2, <1>3, <2>2 DEF ToldInv, OthersTold
<1>5. ASSUME NEW p \in Procs, NEW u \in Users,
             holidaySweep'[p] # None, holidaySweep'[p] + 1 \in calendar.holidays
      PROVE  <<u, "holiday", holidaySweep'[p]>> \in told'
  <2>1. CASE holidaySweep'[p] = holidaySweep[p]
    BY <1>2, <1>5, <2>1 DEF ToldInv, KeysHold
  <2>2. CASE p = a /\ plan[a].kind = "holiday" /\ holidaySweep'[p] = plan[a].day
    BY <1>1, <1>2, <1>5, <2>2 DEF ToldInv, OthersTold
  <2>3. holidaySweep \in [Procs -> Int \cup {None}]
    BY <1>1 DEF PassInv, RemTypes
  <2> QED
    BY <2>1, <2>2, <2>3 DEF Deliver, SetHoliday
<1>6. ASSUME NEW p \in Procs, NEW u \in Users, billingSweep[p] # None
      PROVE  /\ calendar.ending # None
             /\ billingSweep[p] > UtcDay(calendar.ending) =>
                  \/ <<u, "billing", 0>> \in told'
                  \/ plan'[p] # None /\ plan'[p].kind = "billing" /\ u \in plan'[p].users
  BY <1>1, <1>2, <1>3, <1>6 DEF ToldInv, KeysHold, OthersTold
<1> QED
  BY <1>1, <1>4, <1>5, <1>6 DEF KeysHold, UtcDay

(* A failed statement, and a crash: a billing sweep that is cut short loses its  *)
(* day key with its plan.                                                   *)
LEMMA FailTold ==
  ASSUME ToldInv, NEW p \in Procs, FailStage(p)
  PROVE  OthersTold' /\ KeysHold'
<1>1. PassInv /\ p \in Actors /\ UNCHANGED <<calendar, told, inbox, holidaySweep>>
  BY DEF FailStage, ToldInv, Actors
<1>2. plan'[p] = None /\ (\A a \in Actors \ {p} : plan'[a] = plan[a]) /\ Procs \subseteq Actors
  BY <1>1, PlanAt DEF FailStage
<1>3. billingSweep \in [Procs -> Int \cup {None}]
  BY <1>1 DEF PassInv, RemTypes
<1>4. CASE stage[p] = "billing"
  BY <1>1, <1>2, <1>3, <1>4, ToldMoves DEF FailStage
<1>5. CASE stage[p] # "billing"
  <2>1. plan[p] = None \/ plan[p].kind # "billing"
    BY <1>1, <1>5, PlanStage DEF StageOf
  <2> QED
    BY <1>1, <1>2, <1>5, <2>1, ToldMoves DEF FailStage
<1> QED
  BY <1>4, <1>5

LEMMA CrashTold ==
  ASSUME ToldInv, NEW p \in Procs, CrashProcess(p)
  PROVE  OthersTold' /\ KeysHold'
<1>1. PassInv /\ p \in Actors /\ UNCHANGED <<calendar, told, inbox>>
  BY DEF CrashProcess, ToldInv, Actors
<1>2. plan'[p] = None /\ (\A a \in Actors \ {p} : plan'[a] = plan[a]) /\ Procs \subseteq Actors
  BY <1>1, PlanAt DEF CrashProcess
<1>3. /\ holidaySweep'[p] = None /\ billingSweep'[p] = None
      /\ \A q \in Procs \ {p} : holidaySweep'[q] = holidaySweep[q] /\ billingSweep'[q] = billingSweep[q]
  BY <1>1 DEF CrashProcess, PassInv, RemTypes
<1> QED
  BY <1>1, <1>2, <1>3, ToldMoves

(* The stages that have to do with celebrations.                             *)
LEMMA CelebrateTold ==
  ASSUME ToldInv, NEW a \in Actors, ReadCelebrations(a) \/ PostAnnouncement(a)
  PROVE  OthersTold' /\ KeysHold'
<1>1. PassInv /\ UNCHANGED <<calendar, told, inbox, holidaySweep, billingSweep>>
  BY DEF ReadCelebrations, PostAnnouncement, ToldInv
<1>2. CASE ReadCelebrations(a)
  <2> DEFINE q == [kind |-> "post", day |-> Today, users |-> {}]
  <2>1. plan[a] = None /\ (plan' = plan \/ plan' = [plan EXCEPT ![a] = q]) /\ q.kind = "post"
    BY <1>2 DEF ReadCelebrations
  <2> HIDE DEF q
  <2>2. CASE plan' = plan
    BY <1>1, <2>2, ToldMoves
  <2>3. CASE plan' = [plan EXCEPT ![a] = q]
    BY <1>1, <2>1, <2>3, PlanAt, ToldMoves
  <2> QED
    BY <2>1, <2>2, <2>3
<1>3. CASE PostAnnouncement(a)
  <2> DEFINE q == [kind |-> "celebration", day |-> plan[a].day, users |-> Users]
  <2>1. plan[a].kind = "post" /\ plan' = [plan EXCEPT ![a] = q] /\ q.kind = "celebration"
    BY <1>1, <1>3 DEF PostAnnouncement, PassInv, RemTypes
  <2> HIDE DEF q
  <2> QED
    BY <1>1, <2>1, PlanAt, ToldMoves
<1> QED
  BY <1>2, <1>3

LEMMA ToldKept ==
  ASSUME ToldInv, [RemNext]_allVars
  PROVE  ToldInv'
<1>1. PassInv' /\ PassInv
  BY PassKept DEF ToldInv
<1>2. {"holiday", "checkIn", "checkOut", "billing"} \subseteq Kinds \ {"celebration"}
  BY DEF Kinds
<1>3. CASE UNCHANGED <<calendar, told, plan, holidaySweep, billingSweep>> /\ inbox' \subseteq inbox
  BY <1>1, <1>3, ToldMoves DEF ToldInv
<1>4. ASSUME NEW a \in Actors, StageStep(a) PROVE ToldInv'
  <2>1. CASE CleanUp(a)
    BY <1>3, <2>1 DEF CleanUp
  <2> QED
    BY <1>1, <1>2, <1>4, <2>1, ReadTold, DeliverTold, CelebrateTold
       DEF StageStep, HolidayReminders, CheckInReminders, CheckOutReminders, BillingReminders, ToldInv
<1>5. ASSUME NEW p \in Procs, FailPass(p) \/ CrashProcess(p) PROVE ToldInv'
  BY <1>1, <1>5, FailTold, CrashTold DEF FailPass, ToldInv
<1>6. CASE TriggerReminders /\ UNCHANGED vars
  <2>1. PICK kind \in {"checkIn", "checkOut"} :
           plan' = [plan EXCEPT ![Desk] = [kind |-> kind, day |-> Today, users |-> Missing(kind)]]
    BY <1>6 DEF TriggerReminders
  <2> DEFINE q == [kind |-> kind, day |-> Today, users |-> Missing(kind)]
  <2>2. q.kind = kind /\ Desk \in Actors /\ Desk \notin Procs /\ plan' = [plan EXCEPT ![Desk] = q]
    BY <2>1, DeskAssumption DEF Actors
  <2> HIDE DEF q
  <2>3. UNCHANGED <<calendar, told, inbox, holidaySweep, billingSweep>>
    BY <1>6 DEF TriggerReminders
  <2>4. plan'[Desk] = q /\ (\A a \in Actors \ {Desk} : plan'[a] = plan[a]) /\ Procs \subseteq Actors
    BY <1>1, <2>2, PlanAt
  <2> QED
    BY <1>1, <2>2, <2>3, <2>4, ToldMoves DEF ToldInv
<1>7. CASE Deliver(Desk)
  BY <1>1, <1>7, DeliverTold DEF Actors, ToldInv
<1>8. ASSUME NEW p \in Procs,
             \/ TimerFires(p) /\ UNCHANGED remVars
             \/ Lead(p) \/ Work(p) \/ FinishPass(p) \/ FailPass(p) \/ CrashProcess(p)
      PROVE  ToldInv'
  <2>1. CASE UNCHANGED remVars
    BY <1>3, <2>1 DEF remVars
  <2>2. CASE StartPass(p)
    BY <1>3, <2>2 DEF StartPass
  <2>3. CASE Work(p)
    BY <1>4, <2>3 DEF Work, Actors
  <2> QED
    BY <1>5, <1>8, <2>1, <2>2, <2>3 DEF Lead, FinishPass
<1>9. CASE Tick
  BY <1>3, <1>9 DEF Tick
<1>10. CASE DeleteNotification \/ RemoveAnnouncement
  BY <1>3, <1>10 DEF DeleteNotification, RemoveAnnouncement
<1>11. CASE UNCHANGED allVars
  BY <1>3, <1>11 DEF allVars, remVars
<1> QED
  BY <1>6, <1>7, <1>8, <1>9, <1>10, <1>11 DEF RemNext

LEMMA ToldInit == RemInit => ToldInv
<1> SUFFICES ASSUME RemInit PROVE ToldInv
  OBVIOUS
<1>1. inbox = {} /\ \A a \in Actors : plan[a] = None
  BY DEF RemInit
<1>2. \A p \in Procs : p \in Actors /\ holidaySweep[p] = None /\ billingSweep[p] = None
  BY DEF RemInit, Actors
<1> QED
  BY <1>1, <1>2, PassInit DEF ToldInv, OthersTold, KeysHold

(* notification.service.js, the day keys of the holiday and billing sweeps: a    *)
(* set key hides no message that somebody should have had, whatever fails.     *)
THEOREM KeysHideNothing == RemSpec => []SweptMeansTold
<1>1. RemInit => ToldInv
  BY ToldInit
<1>2. ToldInv => SweptMeansTold
  BY DEF ToldInv, KeysHold, SweptMeansTold
<1> QED
  BY <1>1, <1>2, ToldKept, PTL DEF RemSpec
-----------------------------------------------------------------------------
(* No message twice *)

(* A step that sends nothing under a lease, and reads nothing that is sent      *)
(* later, keeps what makes a message unique.                                 *)
LEMMA OnceMoves ==
  ASSUME OnceInv, inbox' \subseteq inbox, posts' \subseteq posts, now' >= now, now' \in Nat,
         \A p \in Procs :
            /\ plan'[p] = None \/ plan'[p] = plan[p] \/ plan'[p].kind = "celebration"
            /\ plan'[p] # None /\ Covered(p)' => Covered(p)
  PROVE  Dated' /\ StillMissing' /\ RemindedOnce'
<1>1. now \in Nat /\ \A p \in Procs : p \in Actors /\ (plan[p] # None => plan[p].day \in Int)
  BY DEF OnceInv, PassInv, RemTypes, Plans, Actors
<1>2. Dated'
  <2>1. \A n \in inbox' : ~n.late /\ n.kind \in Daily => n.at >= 4 * n.day + Sunrise
    BY DEF OnceInv, Dated
  <2>2. ASSUME NEW p \in Procs, plan'[p] # None, plan'[p].kind \in Daily
        PROVE  now' >= 4 * plan'[p].day + Sunrise
    <3>1. plan'[p] = plan[p]
      BY <2>2 DEF Daily
    <3>2. now >= 4 * plan[p].day + Sunrise /\ plan[p].day \in Int
      BY <1>1, <2>2, <3>1 DEF OnceInv, Dated
    <3> QED
      BY <1>1, <3>1, <3>2, RemindersAssumption
  <2> QED
    BY <2>1, <2>2 DEF Dated
<1>3. StillMissing'
  BY DEF OnceInv, StillMissing
<1>4. RemindedOnce'
  BY DEF OnceInv, RemindedOnce
<1> QED
  BY <1>2, <1>3, <1>4

(* Only one process works under its lease. *)
LEMMA OneAtATime == ASSUME OnceInv, NEW p \in Procs, NEW q \in Procs, Covered(p), Covered(q) PROVE p = q
BY DEF OnceInv, LeaseInv, RowBacksLeader

(* A daily reminder is looked for from UTC midnight on, which is behind it.     *)
LEMMA DueLate ==
  ASSUME EarlySunrise, now \in Nat, NEW a \in Actors, NEW kind \in Daily, InTime(a, kind)
  PROVE  now >= 4 * Today + Sunrise /\ Today \in Int
<1>1. Hour(now) >= 1
  <2>0. Hour(now) \in 0 .. 3
    BY Hours
  <2>1. CASE kind = "checkIn"
    BY <2>1 DEF InTime
  <2>2. CASE kind = "checkOut"
    BY <2>2 DEF InTime
  <2>3. CASE kind = "holiday"
    BY <2>0, <2>3 DEF InTime
  <2> QED
    BY <2>1, <2>2, <2>3 DEF Daily
<1>2. now = 4 * DayOf(now) + Hour(now) /\ DayOf(now) \in Int /\ Hour(now) \in 0 .. 3
  BY Hours
<1> QED
  BY <1>1, <1>2, RemindersAssumption DEF EarlySunrise, Today

(* Reading finds every message that was sent under a lease. *)
LEMMA ReadOnce ==
  ASSUME EarlySunrise, OnceInv, ToldInv, NEW a \in Procs, NEW kind \in Kinds \ {"celebration"},
         ReadReminders(a, kind), UNCHANGED vars
  PROVE  Dated' /\ StillMissing' /\ RemindedOnce'
<1>1. /\ plan[a] = None /\ UNCHANGED <<calendar, now, inbox, posts>> /\ PassInv /\ a \in Actors
      /\ now \in Nat /\ \A p \in Procs : Covered(p)' = Covered(p)
  BY DEF ReadReminders, ToldInv, PassInv, RemTypes, Actors, vars, Covered
<1>2. CASE plan' = plan
  BY <1>1, <1>2, OnceMoves
<1>3. CASE InTime(a, kind) /\ plan' = [plan EXCEPT ![a] = [kind |-> kind, day |-> About(kind), users |-> Missing(kind)]]
  <2> DEFINE q == [kind |-> kind, day |-> About(kind), users |-> Missing(kind)]
  <2>1. q.kind = kind /\ q.day = About(kind) /\ q.users = Missing(kind)
    OBVIOUS
  <2> HIDE DEF q
  <2>2. plan'[a] = q /\ (\A p \in Procs \ {a} : plan'[p] = plan[p])
    BY <1>1, <1>3, PlanAt DEF q, Actors
  <2>3. Dated'
    <3>1. kind \in Daily => now >= 4 * About(kind) + Sunrise
      BY <1>1, <1>3, DueLate DEF About, Daily
    <3> QED
      BY <1>1, <2>1, <2>2, <3>1 DEF OnceInv, Dated
  <2>4. ASSUME NEW n \in inbox, n.user \in Missing(kind), n.kind = kind, n.day = About(kind)
        PROVE  n.late
    <3>1. kind = "billing" => Received(n.user, kind)
      BY <2>4 DEF Received
    <3>2. kind # "billing" => ~(n.at >= DayStart(now))
      BY <2>4 DEF Missing, Received, About
    <3>3. kind # "billing" => kind \in Daily /\ DayStart(now) = 4 * n.day + Sunrise
      BY <2>4 DEF About, DayStart, Today, Kinds, Daily
    <3> QED
      BY <2>4, <3>1, <3>2, <3>3 DEF OnceInv, Dated, Missing
  <2>5. StillMissing'
    <3>1. ASSUME NEW p \in Procs, p # a, plan'[p] # None, Covered(p)'
          PROVE  /\ plan'[p].kind = "post" => \A w \in posts : w.day = plan'[p].day => w.late
                 /\ plan'[p].kind \in Kinds \ {"celebration"} =>
                       \A n \in inbox : n.user \in plan'[p].users /\ n.kind = plan'[p].kind /\ n.day = plan'[p].day => n.late
      BY <1>1, <2>2, <3>1 DEF OnceInv, StillMissing
    <3>2. plan'[a].kind # "post"
      BY <2>1, <2>2 DEF Kinds
    <3> QED
      BY <1>1, <2>1, <2>2, <2>4, <3>1, <3>2 DEF StillMissing
  <2>6. RemindedOnce'
    BY <1>1 DEF OnceInv, RemindedOnce
  <2> QED
    BY <2>3, <2>5, <2>6
<1> QED
  BY <1>2, <1>3 DEF ReadReminders

LEMMA CelebrateOnce ==
  ASSUME OnceInv, NEW a \in Procs, ReadCelebrations(a), UNCHANGED vars
  PROVE  Dated' /\ StillMissing' /\ RemindedOnce'
<1>1. /\ plan[a] = None /\ UNCHANGED <<calendar, now, inbox, posts>> /\ PassInv /\ a \in Actors
      /\ now \in Nat /\ \A p \in Procs : Covered(p)' = Covered(p)
  BY DEF ReadCelebrations, OnceInv, PassInv, RemTypes, Actors, vars, Covered
<1>2. CASE plan' = plan
  BY <1>1, <1>2, OnceMoves
<1>3. CASE /\ ~\E w \in posts : w.day = Today
           /\ plan' = [plan EXCEPT ![a] = [kind |-> "post", day |-> Today, users |-> {}]]
  <2> DEFINE q == [kind |-> "post", day |-> Today, users |-> {}]
  <2>1. q.kind = "post" /\ q.day = Today
    OBVIOUS
  <2> HIDE DEF q
  <2>2. plan'[a] = q /\ (\A p \in Procs \ {a} : plan'[p] = plan[p])
    BY <1>1, <1>3, PlanAt DEF q, Actors
  <2>3. Dated'
    BY <1>1, <2>1, <2>2 DEF OnceInv, Dated, Daily
  <2>4. StillMissing'
    <3>1. ASSUME NEW p \in Procs, p # a, plan'[p] # None, Covered(p)'
          PROVE  /\ plan'[p].kind = "post" => \A w \in posts : w.day = plan'[p].day => w.late
                 /\ plan'[p].kind \in Kinds \ {"celebration"} =>
                       \A n \in inbox : n.user \in plan'[p].users /\ n.kind = plan'[p].kind /\ n.day = plan'[p].day => n.late
      BY <1>1, <2>2, <3>1 DEF OnceInv, StillMissing
    <3>2. plan'[a].kind \notin Kinds
      BY <2>1, <2>2 DEF Kinds
    <3> QED
      BY <1>1, <1>3, <2>1, <2>2, <3>1, <3>2 DEF StillMissing
  <2>5. RemindedOnce'
    BY <1>1 DEF OnceInv, RemindedOnce
  <2> QED
    BY <2>3, <2>4, <2>5
<1> QED
  BY <1>2, <1>3 DEF ReadCelebrations

(* The announcement of a pass under its lease is the first of its day. *)
LEMMA PostOnce ==
  ASSUME OnceInv, NEW a \in Procs, PostAnnouncement(a), UNCHANGED vars
  PROVE  Dated' /\ StillMissing' /\ RemindedOnce'
<1>1. /\ plan[a] # None /\ plan[a].kind = "post" /\ UNCHANGED <<calendar, now, inbox>> /\ PassInv /\ a \in Actors
      /\ now \in Nat /\ \A p \in Procs : Covered(p)' = Covered(p)
  BY DEF PostAnnouncement, OnceInv, PassInv, RemTypes, Actors, vars, Covered
<1> DEFINE q == [kind |-> "celebration", day |-> plan[a].day, users |-> Users]
<1>2. q.kind = "celebration" /\ plan' = [plan EXCEPT ![a] = q]
  BY <1>1 DEF PostAnnouncement, PassInv, RemTypes
<1> HIDE DEF q
<1>3. plan'[a] = q /\ (\A p \in Procs \ {a} : plan'[p] = plan[p])
  BY <1>1, <1>2, PlanAt DEF Actors
<1> DEFINE new == [day |-> plan[a].day, late |-> Late(a), no |-> Copy(posts)]
<1>4. posts' = posts \cup {new}
  BY DEF PostAnnouncement
<1>5. new.day = plan[a].day /\ new.late = Late(a)
  OBVIOUS
<1> HIDE DEF new
<1>6. Covered(a) => \A w \in posts : w.day = new.day => w.late
  BY <1>1, <1>5 DEF OnceInv, StillMissing
<1>7. new.late \/ Covered(a)
  BY <1>5 DEF Late
<1>8. Dated'
  BY <1>1, <1>2, <1>3 DEF OnceInv, Dated, Daily
<1>9. StillMissing'
  <2>1. \A p \in Procs \ {a} : Covered(p) => new.late
    BY <1>7, OneAtATime
  <2>2. ASSUME NEW p \in Procs, p # a, plan'[p] # None, Covered(p)'
        PROVE  /\ plan'[p].kind = "post" => \A w \in posts' : w.day = plan'[p].day => w.late
               /\ plan'[p].kind \in Kinds \ {"celebration"} =>
                     \A n \in inbox : n.user \in plan'[p].users /\ n.kind = plan'[p].kind /\ n.day = plan'[p].day => n.late
    BY <1>1, <1>3, <1>4, <2>1, <2>2 DEF OnceInv, StillMissing
  <2>3. plan'[a].kind = "celebration"
    BY <1>2, <1>3
  <2> QED
    BY <1>1, <2>2, <2>3 DEF StillMissing
<1>10. RemindedOnce'
  <2>1. ASSUME NEW v \in posts', NEW w \in posts', v # w, v.day = w.day PROVE v.late \/ w.late
    BY <1>4, <1>6, <1>7, <2>1 DEF OnceInv, RemindedOnce
  <2> QED
    BY <1>1, <2>1 DEF OnceInv, RemindedOnce
<1> QED
  BY <1>8, <1>9, <1>10

(* A message that is sent under a lease was not there, and is there once.       *)
LEMMA DeliverOnce ==
  ASSUME OnceInv, NEW a \in Actors, Deliver(a), UNCHANGED vars
  PROVE  Dated' /\ StillMissing' /\ RemindedOnce'
<1>1. /\ plan[a] # None /\ plan[a].kind # "post" /\ UNCHANGED <<calendar, now, posts>> /\ PassInv
      /\ now \in Nat /\ \A p \in Procs : Covered(p)' = Covered(p)
  BY DEF Deliver, OnceInv, PassInv, RemTypes, vars, Covered
<1>2. plan'[a] = None /\ (\A p \in Actors \ {a} : plan'[p] = plan[p]) /\ Procs \subseteq Actors
  BY <1>1, PlanAt DEF Deliver
<1>3. \A n \in inbox' \ inbox : /\ n.user \in plan[a].users /\ n.kind = plan[a].kind /\ n.day = plan[a].day
                                /\ n.at = now /\ n.late = Late(a)
  BY Delivered
<1>4. \A m, n \in inbox' \ inbox : m.user = n.user => m = n
  BY DeliveredEach
<1>5. Late(a) \/ (a \in Procs /\ Covered(a))
  BY DEF Late, Actors
<1>6. Dated'
  BY <1>1, <1>2, <1>3, <1>5 DEF OnceInv, Dated
<1>7. StillMissing'
  <2>1. ASSUME NEW p \in Procs, p # a, Covered(p) PROVE Late(a)
    BY <1>5, <2>1, OneAtATime
  <2>2. ASSUME NEW p \in Procs, plan'[p] # None, Covered(p)'
        PROVE  /\ plan'[p].kind = "post" => \A w \in posts : w.day = plan'[p].day => w.late
               /\ plan'[p].kind \in Kinds \ {"celebration"} =>
                     \A n \in inbox' : n.user \in plan'[p].users /\ n.kind = plan'[p].kind /\ n.day = plan'[p].day => n.late
    <3>1. p # a /\ plan'[p] = plan[p] /\ Covered(p) /\ Late(a)
      BY <1>1, <1>2, <2>1, <2>2
    <3> QED
      BY <1>1, <1>3, <2>2, <3>1 DEF OnceInv, StillMissing
  <2> QED
    BY <1>1, <2>2 DEF StillMissing
<1>8. RemindedOnce'
  <2>1. ASSUME NEW m \in inbox, NEW n \in inbox' \ inbox,
               m.user = n.user /\ m.kind = n.kind /\ m.day = n.day /\ m.kind # "celebration"
        PROVE  m.late \/ n.late
    <3>1. plan[a].kind \in Kinds \ {"celebration"}
      BY <1>1, <1>3, <2>1, PlanStage DEF Plans
    <3> QED
      BY <1>1, <1>3, <1>5, <2>1, <3>1 DEF OnceInv, StillMissing
  <2>2. ASSUME NEW m \in inbox', NEW n \in inbox', m # n,
               m.user = n.user /\ m.kind = n.kind /\ m.day = n.day /\ m.kind # "celebration"
        PROVE  m.late \/ n.late
    BY <1>4, <2>1, <2>2 DEF OnceInv, RemindedOnce
  <2> QED
    BY <1>1, <2>2 DEF OnceInv, RemindedOnce
<1> QED
  BY <1>6, <1>7, <1>8

LEMMA OnceKept ==
  ASSUME EarlySunrise, OnceInv, ToldInv, [RemNext]_allVars
  PROVE  Dated' /\ StillMissing' /\ RemindedOnce'
<1>1. /\ PassInv /\ now \in Nat /\ Procs \subseteq Actors
      /\ {"holiday", "checkIn", "checkOut", "billing"} \subseteq Kinds \ {"celebration"}
  BY DEF OnceInv, PassInv, RemTypes, Actors, Kinds
<1>2. ASSUME inbox' \subseteq inbox, posts' \subseteq posts, now' = now,
             \A p \in Procs : plan'[p] = plan[p] \/ plan'[p] = None,
             \A p \in Procs : plan'[p] # None /\ Covered(p)' => Covered(p)
      PROVE  Dated' /\ StillMissing' /\ RemindedOnce'
  BY <1>1, <1>2, OnceMoves
<1>3. ASSUME NEW p \in Procs, UNCHANGED remVars, phase[p] # "pass" \/ phase'[p] # "pass",
             \A q \in Procs \ {p} : phase'[q] = phase[q], grant' = grant
      PROVE  Dated' /\ StillMissing' /\ RemindedOnce'
  <2>1. ASSUME NEW q \in Procs, plan'[q] # None, Covered(q)' PROVE Covered(q)
    <3>1. plan[q] # None
      BY <1>3, <2>1 DEF remVars
    <3>2. stage[q] # "none"
      BY <1>1, <3>1, PlanStage
    <3>3. phase[q] = "pass"
      BY <1>1, <3>2 DEF PassInv, PassRuns
    <3> QED
      BY <1>3, <2>1, <3>3 DEF Covered
  <2> QED
    BY <1>2, <1>3, <2>1 DEF remVars
<1>4. ASSUME NEW p \in Procs, StartPass(p) PROVE Dated' /\ StillMissing' /\ RemindedOnce'
  <2>1. phase[p] = "asking" /\ (\A q \in Procs \ {p} : phase'[q] = phase[q] /\ grant'[q] = grant[q])
    BY <1>4 DEF StartPass, AcquireLease, OnceInv, LeaseInv, TypeOK
  <2>2. plan[p] = None
    BY <1>1, <2>1, PlanStage DEF PassInv, PassRuns
  <2>3. UNCHANGED <<inbox, posts, now, plan>>
    BY <1>4 DEF StartPass
  <2> QED
    BY <1>2, <2>1, <2>2, <2>3 DEF Covered
<1>5. ASSUME NEW p \in Procs, Work(p) PROVE Dated' /\ StillMissing' /\ RemindedOnce'
  <2>1. CASE CleanUp(p)
    <3>1. inbox' \subseteq inbox /\ UNCHANGED <<posts, now, plan>>
      BY <2>1 DEF CleanUp
    <3>2. \A q \in Procs : Covered(q)' = Covered(q)
      BY <1>5 DEF Work, vars, Covered
    <3> QED
      BY <1>2, <3>1, <3>2
  <2> QED
    BY <1>1, <1>5, <2>1, ReadOnce, CelebrateOnce, PostOnce, DeliverOnce
       DEF Work, StageStep, HolidayReminders, CheckInReminders, CheckOutReminders, BillingReminders
<1>6. ASSUME NEW p \in Procs, FailPass(p) \/ CrashProcess(p) PROVE Dated' /\ StillMissing' /\ RemindedOnce'
  <2>1. UNCHANGED <<inbox, posts, now>> /\ plan' = [plan EXCEPT ![p] = None]
    BY <1>6 DEF FailPass, FailStage, CrashProcess
  <2>2. \A q \in Procs \ {p} : Covered(q)' = Covered(q)
    BY <1>6 DEF FailPass, CrashProcess, Crash, Covered, OnceInv, LeaseInv, TypeOK
  <2>3. plan'[p] = None /\ \A q \in Procs \ {p} : plan'[q] = plan[q]
    BY <1>1, <2>1, PlanAt
  <2> QED
    BY <1>2, <2>1, <2>2, <2>3
<1>7. CASE Tick
  <2>1. inbox' = inbox /\ posts' \subseteq posts /\ now' >= now /\ now' \in Nat /\ plan' = plan
    BY <1>1, <1>7 DEF Tick
  <2>2. ASSUME NEW p \in Procs, Covered(p)' PROVE Covered(p)
    BY <1>7, <2>2, TtlAssumption DEF Tick, Clock, Covered, Older, OnceInv, LeaseInv, TypeOK, Left
  <2> QED
    BY <2>1, <2>2, OnceMoves
<1>8. CASE TriggerReminders /\ UNCHANGED vars
  <2>1. PICK q : plan' = [plan EXCEPT ![Desk] = q]
    BY <1>8 DEF TriggerReminders
  <2>2. Desk \in Actors /\ Desk \notin Procs
    BY DeskAssumption DEF Actors
  <2>3. \A p \in Procs : plan'[p] = plan[p]
    BY <1>1, <2>1, <2>2, PlanAt
  <2>4. \A p \in Procs : Covered(p)' = Covered(p)
    BY <1>8 DEF vars, Covered
  <2> QED
    BY <1>2, <1>8, <2>3, <2>4 DEF TriggerReminders
<1>9. CASE Deliver(Desk) /\ UNCHANGED vars
  BY <1>9, DeliverOnce DEF Actors
<1>10. CASE (DeleteNotification \/ RemoveAnnouncement) /\ UNCHANGED vars
  <2>1. inbox' \subseteq inbox /\ posts' \subseteq posts /\ UNCHANGED <<now, plan>>
    BY <1>10 DEF DeleteNotification, RemoveAnnouncement
  <2>2. \A p \in Procs : Covered(p)' = Covered(p)
    BY <1>10 DEF vars, Covered
  <2> QED
    BY <1>2, <2>1, <2>2
<1>11. CASE UNCHANGED allVars
  BY <1>2, <1>11 DEF allVars, vars, remVars, Covered
<1>12. ASSUME NEW p \in Procs,
              \/ (TimerFires(p) \/ NotLeader(p) \/ AcquireError(p)) /\ UNCHANGED remVars
              \/ FinishPass(p)
       PROVE  Dated' /\ StillMissing' /\ RemindedOnce'
  BY <1>3, <1>12 DEF TimerFires, NotLeader, AcquireError, FinishPass, EndPass, OnceInv, LeaseInv, TypeOK
<1> QED
  BY <1>4, <1>5, <1>6, <1>7, <1>8, <1>9, <1>10, <1>11, <1>12 DEF RemNext, Lead

(* The reads of notification.service.js and the writes that follow them: when    *)
(* the first reminders of a day come after UTC midnight, a reminder and an     *)
(* announcement are there once, but for a copy from a pass that outlived its    *)
(* lease or from the manual trigger.                                         *)
THEOREM MessagesOnce == ASSUME EarlySunrise PROVE RemSpec => []RemindedOnce
<1>1. RemInit => OnceInv
  <2> SUFFICES ASSUME RemInit PROVE OnceInv
    OBVIOUS
  <2>1. inbox = {} /\ posts = {} /\ \A p \in Procs : plan[p] = None
    BY DEF RemInit, Actors
  <2> QED
    BY <2>1, PassInit, LeaseInit DEF RemInit, OnceInv, Dated, StillMissing, RemindedOnce
<1>2. RemInit => ToldInv
  BY ToldInit
<1>3. OnceInv /\ ToldInv /\ [RemNext]_allVars => OnceInv' /\ ToldInv'
  BY LeaseKept, PassKept, OnceKept, ToldKept DEF OnceInv
<1>4. OnceInv => RemindedOnce
  BY DEF OnceInv
<1> QED
  BY <1>1, <1>2, <1>3, <1>4, PTL DEF RemSpec
=============================================================================
