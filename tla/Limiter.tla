------------------------------- MODULE Limiter -------------------------------
(***************************************************************************)
(* The limit on failed sign-ins: createRateLimiter of                        *)
(* src/middleware/rateLimiter.middleware.js with failuresOnly.  A request is   *)
(* counted when it comes; when it succeeds its hit is refunded, however late   *)
(* that is.  Counters are kept in Redis if it is configured and answers, else  *)
(* in the memory of the process.                                            *)
(***************************************************************************)
EXTENDS Integers, FiniteSets

CONSTANTS
    Keys,        \* address and mail pairs
    Requests,    \* requests under way at once
    Max,         \* failures allowed in a window
    Window,      \* its length
    MaxLocal,    \* keys kept in memory (MAX_LOCAL_KEYS)
    MaxNow,      \* bound: time
    MaxCount,    \* bound: a counter
    MaxOutages,  \* bound: outages of Redis and restarts of the process
    None

VARIABLES
    now,
    configured, \* REDIS_URL is set
    answers,    \* Redis can be reached
    local,      \* rateStore
    remote,     \* counters in Redis; one without an expiry stays
    hit,        \* requests that were admitted and not answered
    failures,   \* auxiliary: failures admitted in the present window of a key
    disturbed,  \* auxiliary: keys whose counter was lost, doubled or refunded late
    outages

vars == <<now, configured, answers, local, remote, hit, failures, disturbed, outages>>

InRedis == configured /\ answers
Free == {s \in Requests : hit[s] = None}

TypeOK ==
    /\ now \in 0 .. MaxNow /\ {configured, answers} \subseteq BOOLEAN
    /\ local \in [Keys -> [count : Nat, till : Nat] \cup {None}]
    /\ remote \in [Keys -> [count : Int, till : Nat \cup {None}] \cup {None}]
    /\ hit \in [Requests -> [key : Keys, stale : BOOLEAN] \cup {None}]
    /\ failures \in [Keys -> Nat] /\ disturbed \subseteq Keys
    /\ outages \in 0 .. MaxOutages

Init ==
    /\ now = 0 /\ configured \in BOOLEAN /\ answers = TRUE
    /\ local = [k \in Keys |-> None] /\ remote = [k \in Keys |-> None]
    /\ hit = [s \in Requests |-> None]
    /\ failures = [k \in Keys |-> 0] /\ disturbed = {}
    /\ outages = 0

-----------------------------------------------------------------------------
(* A window of the keys ends: what was admitted in it is no longer counted.    *)
Renew(ks, h) ==
    /\ hit' = [s \in Requests |-> IF h[s] # None /\ h[s].key \in ks THEN [h[s] EXCEPT !.stale = TRUE] ELSE h[s]]
    /\ failures' = [k \in Keys |-> IF k \in ks THEN 0 ELSE failures[k]]

(* Redis drops a counter whose time is up. *)
Tick ==
    /\ now < MaxNow
    /\ now' = now + 1
    /\ LET gone == {k \in Keys : remote[k] # None /\ remote[k].till # None /\ remote[k].till <= now'}
       IN /\ remote' = [k \in Keys |-> IF k \in gone THEN None ELSE remote[k]]
          /\ Renew(gone, hit)
    /\ UNCHANGED <<configured, answers, local, disturbed, outages>>

-----------------------------------------------------------------------------
(* A request comes *)

Over(k) == local[k] = None \/ now > local[k].till

(* makeRoomInStore: counters that are over, and if that is not enough others.   *)
Kept(k) ==
    LET stored == {j \in Keys : local[j] # None}
        live == {j \in stored : now <= local[j].till}
    IN IF local[k] # None \/ Cardinality(stored) < MaxLocal THEN {stored}
       ELSE IF Cardinality(live) < MaxLocal THEN {live}
       ELSE {live \ {j} : j \in live}

(* Who is over the limit is refused, and counted all the same. *)
Admit(s, k, count, h) == IF count <= Max THEN [h EXCEPT ![s] = [key |-> k, stale |-> FALSE]] ELSE h

enforceLocal(s, k) ==
    /\ ~InRedis /\ (local[k] # None => local[k].count < MaxCount)
    /\ \E kept \in Kept(k) :
         LET n == IF Over(k) THEN 1 ELSE local[k].count + 1
             till == IF Over(k) THEN now + Window ELSE local[k].till
             gone == {j \in Keys \ {k} : local[j] # None /\ j \notin kept}
             ended == {j \in gone : now > local[j].till} \cup (IF Over(k) THEN {k} ELSE {})
             aged == [q \in Requests |-> IF hit[q] # None /\ hit[q].key \in ended
                                         THEN [hit[q] EXCEPT !.stale = TRUE] ELSE hit[q]]
         IN /\ local' = [j \in Keys |-> IF j = k THEN [count |-> n, till |-> till]
                                        ELSE IF j \in gone THEN None ELSE local[j]]
            /\ hit' = Admit(s, k, n, aged)
            /\ failures' = [j \in Keys |-> IF j \in ended THEN 0 ELSE failures[j]]
            /\ disturbed' = disturbed \cup (gone \ ended)
    /\ UNCHANGED <<now, configured, answers, remote, outages>>

(* MUTANT: the expiry is set when the counter is made, which a refund does too. *)
Counted_Made(k) ==
    IF remote[k] = None THEN [count |-> 1, till |-> now + Window] ELSE [remote[k] EXCEPT !.count = @ + 1]

(* The script: INCR, and PEXPIRE if that made it one. *)
Counted(k) ==
    LET n == IF remote[k] = None THEN 1 ELSE remote[k].count + 1
    IN [count |-> n, till |-> IF n = 1 THEN now + Window ELSE remote[k].till]

enforceRedis(s, k) ==
    /\ InRedis /\ (remote[k] # None => remote[k].count < MaxCount)
    /\ remote' = [remote EXCEPT ![k] = Counted(k)]
    /\ hit' = Admit(s, k, Counted(k).count, hit)
    /\ UNCHANGED <<now, configured, answers, local, failures, disturbed, outages>>

-----------------------------------------------------------------------------
(* It is answered *)

Fail(s) ==
    /\ hit[s] # None
    /\ failures' = [failures EXCEPT ![hit[s].key] = @ + (IF hit[s].stale THEN 0 ELSE 1)]
    /\ hit' = [hit EXCEPT ![s] = None]
    /\ UNCHANGED <<now, configured, answers, local, remote, disturbed, outages>>

(* DECR makes a counter of an absent key, without an expiry. *)
Decremented(k) == IF remote[k] = None THEN [count |-> -1, till |-> None] ELSE [remote[k] EXCEPT !.count = @ - 1]

(* Both stores are refunded, whichever counted. *)
Succeed(s) ==
    /\ hit[s] # None
    /\ LET k == hit[s].key IN
       /\ local' = IF local[k] # None /\ local[k].count > 0 THEN [local EXCEPT ![k].count = @ - 1] ELSE local
       /\ remote' = IF InRedis THEN [remote EXCEPT ![k] = Decremented(k)] ELSE remote
       /\ disturbed' = IF hit[s].stale THEN disturbed \cup {k} ELSE disturbed
    /\ hit' = [hit EXCEPT ![s] = None]
    /\ UNCHANGED <<now, configured, answers, failures, outages>>

-----------------------------------------------------------------------------
(* cleanupTimer *)
Sweep ==
    LET over == {k \in Keys : local[k] # None /\ now > local[k].till} IN
    /\ over # {}
    /\ local' = [k \in Keys |-> IF k \in over THEN None ELSE local[k]]
    /\ Renew(over, hit)
    /\ UNCHANGED <<now, configured, answers, remote, disturbed, outages>>

(* Redis comes and goes: from then on every key has two counters. *)
Outage ==
    /\ configured /\ outages < MaxOutages
    /\ answers' = ~answers /\ outages' = outages + 1
    /\ disturbed' = Keys
    /\ UNCHANGED <<now, configured, local, remote, hit, failures>>

(* The process restarts: its memory and its requests are gone. *)
Restart ==
    /\ outages < MaxOutages
    /\ local' = [k \in Keys |-> None] /\ hit' = [s \in Requests |-> None]
    /\ outages' = outages + 1
    /\ disturbed' = IF configured THEN disturbed ELSE Keys
    /\ UNCHANGED <<now, configured, answers, remote, failures>>

Next ==
    \/ Tick \/ Sweep \/ Outage \/ Restart
    \/ \E s \in Requests : Fail(s) \/ Succeed(s)
    \/ \E s \in Free, k \in Keys : enforceLocal(s, k) \/ enforceRedis(s, k)

Spec == Init /\ [][Next]_vars

-----------------------------------------------------------------------------
(* Whoever is limited is let in again one window later: a counter that reached   *)
(* the limit expires, although a refund that comes late makes one that does not.  *)
(* And no more than the limit fail in a window, whatever succeeds meanwhile, but   *)
(* for keys refunded after their window or whose counter was lost.               *)
LimitEnds ==
    \A k \in Keys :
       /\ remote[k] # None /\ remote[k].count > 0 => remote[k].till # None /\ remote[k].till <= now + Window
       /\ k \notin disturbed => failures[k] <= Max
=============================================================================
