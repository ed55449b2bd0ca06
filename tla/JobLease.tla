------------------------------ MODULE JobLease ------------------------------
(***************************************************************************)
(* The scheduler's leader lease: src/utils/jobLease.js and the 60 second   *)
(* timer of notification.service.js (startScheduler).  Every API process   *)
(* runs the timer; one row of the table JobLease says whose turn it is.    *)
(*                                                                         *)
(* Time is relative: instead of an absolute expiresAt the row keeps the    *)
(* time LEFT until it, which every clock step lowers to a floor of -1.     *)
(* "expiresAt < NOW()" is then left < 0.  HOLDER is unique per process     *)
(* boot, so when a process crashes its row belongs to nobody that is still *)
(* running: the holder becomes Dead.                                       *)
(***************************************************************************)
EXTENDS Integers, FiniteSets

CONSTANTS
    Procs,      \* the API processes
    Dead,       \* the holder left in the row by a boot that has crashed
    Ttl,        \* the lease's time to live (90 s), in clock steps
    MaxFaults   \* bound: crashes and database errors in one behaviour

ASSUME ProcsAssumption == Dead \notin Procs
ASSUME TtlAssumption == Ttl \in Nat
ASSUME FaultsAssumption == MaxFaults \in Nat

VARIABLES
    row,      \* the JobLease row: [holder, left]
    phase,    \* where each process is in a tick (the in-memory flag "running"
              \* is true in every phase but "idle")
    ask,      \* time left to the expiresAt a process computed for its upsert
    grant,    \* time left in the lease under which a process runs its pass
    faults    \* crashes and errors so far

vars == <<row, phase, ask, grant, faults>>

Left == -1 .. Ttl
Phases == {"idle", "asking", "pass"}

TypeOK ==
    /\ row \in [holder : Procs \cup {Dead}, left : Left]
    /\ phase \in [Procs -> Phases]
    /\ ask \in [Procs -> Left]
    /\ grant \in [Procs -> Left]
    /\ faults \in 0 .. MaxFaults

(* Before the first upsert there is no row; an expired one behaves alike. *)
Init ==
    /\ row = [holder |-> Dead, left |-> -1]
    /\ phase = [p \in Procs |-> "idle"]
    /\ ask = [p \in Procs |-> -1]
    /\ grant = [p \in Procs |-> -1]
    /\ faults = 0

-----------------------------------------------------------------------------
(* MUTANT: the WHERE clause lets a lease be taken at the instant it expires. *)
MayTake_AtExpiry(p) == row.left <= 0 \/ row.holder = p

(* WHERE clause of the upsert's ON CONFLICT branch. *)
MayTake(p) == row.left < 0 \/ row.holder = p

(* The timer fires.  A tick that finds the previous one running returns at  *)
(* once; otherwise the deadline is computed from the process's clock, before *)
(* the statement is sent.                                                   *)
TimerFires(p) ==
    /\ phase[p] = "idle"
    /\ phase' = [phase EXCEPT ![p] = "asking"]
    /\ ask' = [ask EXCEPT ![p] = Ttl]
    /\ UNCHANGED <<row, grant, faults>>

(* MUTANT: only a row this process already holds is taken, expired or not.  *)
AcquireLease_NoTakeover(p) ==
    /\ phase[p] = "asking"
    /\ row.holder = p
    /\ row' = [holder |-> p, left |-> ask[p]]
    /\ phase' = [phase EXCEPT ![p] = "pass"]
    /\ grant' = [grant EXCEPT ![p] = ask[p]]
    /\ UNCHANGED <<ask, faults>>

(* The upsert returns a row with this holder: the pass starts. *)
AcquireLease(p) ==
    /\ phase[p] = "asking"
    /\ MayTake(p)
    /\ row' = [holder |-> p, left |-> ask[p]]
    /\ phase' = [phase EXCEPT ![p] = "pass"]
    /\ grant' = [grant EXCEPT ![p] = ask[p]]
    /\ UNCHANGED <<ask, faults>>

(* The upsert returns no row: another process leads. *)
NotLeader(p) ==
    /\ phase[p] = "asking"
    /\ ~MayTake(p)
    /\ phase' = [phase EXCEPT ![p] = "idle"]
    /\ UNCHANGED <<row, ask, grant, faults>>

(* Taking the lease fails: the tick is skipped.  The error may hide a       *)
(* statement that was carried out and whose answer was lost.                *)
AcquireError(p) ==
    /\ phase[p] = "asking"
    /\ faults < MaxFaults
    /\ \/ row' = row
       \/ MayTake(p) /\ row' = [holder |-> p, left |-> ask[p]]
    /\ phase' = [phase EXCEPT ![p] = "idle"]
    /\ faults' = faults + 1
    /\ UNCHANGED <<ask, grant>>

(* evaluateScheduledReminders returns or throws; "finally" clears running.   *)
(* The lease is neither renewed during the pass nor given back after it.     *)
EndPass(p) ==
    /\ phase[p] = "pass"
    /\ phase' = [phase EXCEPT ![p] = "idle"]
    /\ UNCHANGED <<row, ask, grant, faults>>

(* The process dies and a new boot, with a new HOLDER, takes its place. *)
Crash(p) ==
    /\ faults < MaxFaults
    /\ row' = IF row.holder = p THEN [row EXCEPT !.holder = Dead] ELSE row
    /\ phase' = [phase EXCEPT ![p] = "idle"]
    /\ ask' = [ask EXCEPT ![p] = -1]
    /\ grant' = [grant EXCEPT ![p] = -1]
    /\ faults' = faults + 1

Older(left) == IF left < 0 THEN left ELSE left - 1

(* One step of the clock. *)
Clock ==
    /\ row' = [row EXCEPT !.left = Older(@)]
    /\ ask' = [p \in Procs |-> Older(ask[p])]
    /\ grant' = [p \in Procs |-> Older(grant[p])]
    /\ UNCHANGED <<phase, faults>>

Step(p) == AcquireLease(p) \/ NotLeader(p) \/ AcquireError(p)

Next ==
    \/ Clock
    \/ \E p \in Procs :
        TimerFires(p) \/ Step(p) \/ EndPass(p) \/ Crash(p)

(* The timer keeps firing, the database answers, a pass ends (each awaited  *)
(* call has a timeout or fails), and time passes.  Faults are not fair.     *)
Fairness ==
    /\ WF_vars(Clock)
    /\ \A p \in Procs : WF_vars(TimerFires(p)) /\ WF_vars(Step(p)) /\ WF_vars(EndPass(p))

Spec == Init /\ [][Next]_vars /\ Fairness

-----------------------------------------------------------------------------
(* A process is covered while its pass runs inside the lease it was granted. *)
Covered(p) == phase[p] = "pass" /\ grant[p] >= 0

(* No two processes run a pass under a lease each believes to be valid,     *)
(* whatever the delays between computing a deadline, taking the lease and   *)
(* working, and whatever crashes and lost answers happen in between.         *)
OneCoveredLeader == \A p, q \in Procs : Covered(p) /\ Covered(q) => p = q

(* What makes OneCoveredLeader inductive: the row names the covered process  *)
(* and expires no earlier than that process's own idea of its lease.        *)
RowBacksLeader ==
    \A p \in Procs : Covered(p) => row.holder = p /\ row.left = grant[p]

LeaseInv == TypeOK /\ RowBacksLeader

(* A live lease is only ever replaced by its own holder: a step that gives   *)
(* the row to another process finds it expired.                             *)
NoTheft ==
    [][row'.holder \in Procs /\ row'.holder # row.holder => row.left < 0]_vars

(* A dead leader is replaced: whatever crashes and errors occurred, some     *)
(* process eventually runs a pass again.                                    *)
LeaderReturns == []<>(\E p \in Procs : phase[p] = "pass")
=============================================================================
