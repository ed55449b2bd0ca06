----------------------------- MODULE MCSession -----------------------------
(***************************************************************************)
(* Signing in for TLC, from three sides that share no state: the limit on     *)
(* failed attempts (Limiter), the pool that compares passwords (Verifier),    *)
(* and the sessions of an account (Session).  Init picks the side that moves. *)
(***************************************************************************)
EXTENDS Session, FiniteSets

CONSTANTS
    Keys, Attempts, Max, Window, MaxLocal, MaxClock, MaxCount, MaxOutages,   \* of the limiter
    Jobs, Workers, Size, MaxQueue, MaxFaults                                 \* of the verifier

(* Attempts under way are finitely many; None is no counter and no attempt.       *)
ASSUME LimiterAssumption ==
    /\ Max \in Nat /\ Window \in Nat /\ IsFiniteSet(Attempts)
    /\ None \notin [count : Int, till : Int \cup {None}] /\ None \notin [key : Keys, stale : BOOLEAN]
    /\ None \notin Int

VARIABLES
    side,
    clock, configured, answers, local, remote, hit, failures, disturbed, outages,
    slots, life, job, queue, overdue, result, faults

L == INSTANCE Limiter WITH now <- clock, Requests <- Attempts, MaxNow <- MaxClock
V == INSTANCE Verifier

ASSUME VerifierAssumption == V!VerifierAssumption

limiterVars == <<clock, configured, answers, local, remote, hit, failures, disturbed, outages>>

verifierVars == <<slots, life, job, queue, overdue, result, faults>>
signInVars == <<side, vars, limiterVars, verifierVars>>

SignInInit ==
    /\ side \in {"session", "limiter", "verifier"}
    /\ Init /\ L!Init /\ V!Init
    /\ side # "session" => acct.must
    /\ side # "limiter" => ~configured

SessionStep == side = "session" /\ Next /\ UNCHANGED <<side, limiterVars, verifierVars>>
LimiterStep == side = "limiter" /\ L!Next /\ UNCHANGED <<side, vars, verifierVars>>
VerifierStep == side = "verifier" /\ V!Next /\ UNCHANGED <<side, vars, limiterVars>>

SignInSpec == SignInInit /\ [][SessionStep \/ LimiterStep \/ VerifierStep]_signInVars
-----------------------------------------------------------------------------
(* Whoever is limited is let in again one window later, and no more than the     *)
(* limit fail in a window but for refunds that come late.                        *)
LimitEnds == L!LimitEnds

(* The pool keeps to its size, no comparison is lost, and while a sign-in waits   *)
(* some worker has a job whose end will look at the queue.                        *)
PoolAtWork == V!PoolAtWork
=============================================================================
