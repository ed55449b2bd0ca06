----------------------------- MODULE Verifier -----------------------------
(***************************************************************************)
(* The password verifier (utils/passwordVerifier.js): a pool of worker     *)
(* threads that compare passwords, a bounded queue in front of it, and     *)
(* load shedding.  The main thread runs one callback at a time; callbacks  *)
(* are the calls of verifyPassword and the workers' message, error and     *)
(* exit events, in any order.  A worker that fails reports error and then  *)
(* exit, and each of the two runs onDeath.                                 *)
(***************************************************************************)
EXTENDS Integers, Sequences, FiniteSets

CONSTANTS
    Jobs,       \* sign-ins that have a password compared
    Workers,    \* names for worker threads; one is used again when it is gone
    Size,       \* LOGIN_HASH_WORKERS
    MaxQueue,   \* LOGIN_HASH_MAX_QUEUE
    MaxFaults,  \* bound: threads that cannot be started
    None

VerifierAssumption ==
    /\ Size \in Nat \ {0} /\ {MaxQueue, MaxFaults} \subseteq Nat /\ None \notin Jobs
    /\ IsFiniteSet(Workers) /\ Cardinality(Workers) >= Size

VARIABLES
    slots,      \* workers in the pool
    life,       \* "none", "live", "failed" (its exit is still to come)
    job,        \* the job of each worker's slot, or None
    queue,      \* waiting jobs, first in first out
    overdue,    \* jobs that have waited longer than the queue timeout
    result,     \* of each job: "new", "open", "answered", "failed" or "busy"
    faults

vars == <<slots, life, job, queue, overdue, result, faults>>

Init ==
    /\ slots = {}
    /\ life = [w \in Workers |-> "none"]
    /\ job = [w \in Workers |-> None]
    /\ queue = <<>>
    /\ overdue = {}
    /\ result = [j \in Jobs |-> "new"]
    /\ faults = 0

-----------------------------------------------------------------------------
(* What a callback changed before it looks at the queue, as one record.      *)
State == [slots |-> slots, life |-> life, job |-> job, queue |-> queue, result |-> result]

Becomes(st) ==
    /\ slots' = st.slots
    /\ life' = st.life
    /\ job' = st.job
    /\ queue' = st.queue
    /\ result' = st.result

Idle(st) == {w \in st.slots : st.job[w] = None}

(* pump: while there is a free slot, the head of the queue is shed when it   *)
(* has waited too long, and given to the slot otherwise.  So the first n jobs *)
(* leave the queue, a slot was free for the last of them, and no slot is when *)
(* some are left.                                                           *)
Pump(st) ==
    \E n \in 0 .. Len(st.queue) :
      LET taken == {st.queue[i] : i \in 1 .. n}
      IN \E given \in [Idle(st) -> (taken \ overdue) \cup {None}] :
            /\ \A j \in taken \ overdue : \E w \in Idle(st) : \A v \in Idle(st) : given[v] = j <=> v = w
            /\ n > 0 => \E w \in Idle(st) : given[w] \in {None, st.queue[n]}
            /\ n < Len(st.queue) => \A w \in Idle(st) : given[w] # None
            /\ Becomes([st EXCEPT
                  !.job = [w \in Workers |-> IF w \in Idle(st) THEN given[w] ELSE st.job[w]],
                  !.queue = SubSeq(st.queue, n + 1, Len(st.queue)),
                  !.result = [j \in Jobs |-> IF j \in taken \cap overdue THEN "busy" ELSE st.result[j]]])

Unused(st) == {w \in Workers : st.life[w] = "none"}

(* n more workers; which of the unused names they get makes no difference.    *)
Spawn(st, n) ==
    LET W == CHOOSE W \in SUBSET Unused(st) : Cardinality(W) = n
    IN  [st EXCEPT !.slots = @ \cup W, !.life = [w \in Workers |-> IF w \in W THEN "live" ELSE @[w]]]

(* verifyPassword.  A pool that cannot be filled leaves the comparison to    *)
(* the main thread, which answers it.                                        *)
VerifyPassword(j) ==
    /\ result[j] = "new"
    /\ \/ /\ LET full == Spawn(State, Size - Cardinality(slots))   \* ensurePool
             IN  IF Len(queue) >= MaxQueue
                 THEN Becomes([full EXCEPT !.result[j] = "busy"])
                 ELSE Pump([full EXCEPT !.queue = Append(@, j), !.result[j] = "open"])
          /\ UNCHANGED faults
       \/ \E n \in 0 .. Size - Cardinality(slots) - 1 :
          /\ faults < MaxFaults
          /\ faults' = faults + 1
          /\ Becomes([Spawn(State, n) EXCEPT !.result[j] = "answered"])
    /\ UNCHANGED overdue

(* A worker's answer: the slot is free again. *)
Message(w) ==
    /\ life[w] = "live" /\ w \in slots /\ job[w] # None
    /\ Pump([State EXCEPT !.job[w] = None, !.result[job[w]] = "answered"])
    /\ UNCHANGED <<overdue, faults>>

(* The slot leaves the pool, and its job is rejected. *)
Buried(w) ==
    LET st == [State EXCEPT !.slots = @ \ {w}, !.job[w] = None]
    IN  IF job[w] = None THEN st ELSE [st EXCEPT !.result[job[w]] = "failed"]

(* MUTANT: the second report of one death spawns a replacement again. *)
Replaced_Always(st) == Spawn(st, 1)

(* A replacement, unless the pool is full. *)
Replaced(st) == IF Cardinality(st.slots) < Size THEN Spawn(st, 1) ELSE st

(* onDeath: a replacement is started, or cannot be (spawn throws) and the    *)
(* pool goes on with the workers it has.                                     *)
OnDeath(w, after) ==
    LET st == [Buried(w) EXCEPT !.life[w] = after] IN
    /\ \/ Pump(Replaced(st)) /\ UNCHANGED faults
       \/ /\ Cardinality(st.slots) < Size
          /\ faults < MaxFaults
          /\ faults' = faults + 1
          /\ Pump(st)
    /\ UNCHANGED overdue

(* A thread fails while it has a job.  (A bound: the next starts must find    *)
(* a name.)                                                                  *)
WorkerError(w) ==
    /\ life[w] = "live" /\ job[w] # None
    /\ Cardinality(Unused(State)) >= Size
    /\ OnDeath(w, "failed")

(* The exit that follows the error. *)
WorkerExit(w) ==
    /\ life[w] = "failed"
    /\ OnDeath(w, "none")

(* A job in the queue has waited longer than LOGIN_HASH_QUEUE_TIMEOUT_MS. *)
TimePasses ==
    /\ queue # <<>> /\ Head(queue) \notin overdue
    /\ overdue' = overdue \cup {Head(queue)}
    /\ UNCHANGED <<slots, life, job, queue, result, faults>>

Next ==
    \/ \E j \in Jobs : VerifyPassword(j)
    \/ \E w \in Workers : Message(w) \/ WorkerError(w) \/ WorkerExit(w)
    \/ TimePasses

Spec == Init /\ [][Next]_vars
-----------------------------------------------------------------------------
(* The pool never outgrows its size, no sign-in that waits for its answer is *)
(* lost to both the queue and the pool, and while one waits in the queue some *)
(* worker has a job whose end will look at the queue, however deaths, their  *)
(* second reports, failed starts and sign-ins follow each other.  (When as   *)
(* many starts failed as the pool has workers, it may be empty.)             *)
PoolAtWork ==
    /\ Cardinality(slots) <= Size
    /\ \A j \in Jobs : result[j] = "open" =>
          (\E i \in DOMAIN queue : queue[i] = j) \/ \E w \in slots : job[w] = j
    /\ queue # <<>> => (\E w \in slots : job[w] # None) \/ faults >= Size
=============================================================================
