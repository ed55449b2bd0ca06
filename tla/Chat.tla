------------------------------- MODULE Chat -------------------------------
(***************************************************************************)
(* The chat: its threads (chat.service.js) and the WebSocket gateway of    *)
(* every API process (realtime/chatWs.js).  A connection is admitted and a *)
(* subscription accepted after database reads that the socket's other      *)
(* events do not wait for; a heartbeat looks again at every connection.    *)
(*                                                                         *)
(* A socket is off, checking (assertLiveUser is awaited), admitted (it     *)
(* answered), open (in its process's pool, with its handlers), closing, or *)
(* it was lost by its client before the handlers were bound and stays in   *)
(* the pool as a ghost.  One organization; published events reach every    *)
(* process at once (Redis, or the process itself without it).              *)
(***************************************************************************)
EXTENDS Integers, FiniteSets

CONSTANTS
    Nodes,      \* API processes
    Users,
    Sockets,
    UserOf,     \* the user whose token a socket presents
    Threads,    \* thread ids, never used twice
    MaxAdmin,   \* bound: deactivations, reactivations, thread operations
    None

VARIABLES
    conn,       \* state of each socket
    node,       \* the process it is connected to
    fresh,      \* whether its token has not expired
    present,    \* whether the client is still there to answer a ping
    isAlive,    \* ws.isAlive
    subscribedThreads,
    asking,     \* the thread of a subscribe frame that passed its checks, or None
    isActive,   \* User.isActive
    threads,    \* ChatThread rows: their kind ("none" before, "deleted" after
                \* their life) and members
    opening,    \* a direct conversation looked for and not found: {u, v}, or None
    online,     \* users last published as online
    admin       \* administrative steps so far

socketVars == <<conn, node, fresh, present, isAlive, subscribedThreads, asking>>
threadVars == <<threads, opening>>
vars == <<socketVars, threadVars, isActive, online, admin>>

Init ==
    /\ conn = [s \in Sockets |-> "off"]
    /\ node = [s \in Sockets |-> None]
    /\ fresh = [s \in Sockets |-> FALSE]
    /\ present = [s \in Sockets |-> FALSE]
    /\ isAlive = [s \in Sockets |-> FALSE]
    /\ subscribedThreads = [s \in Sockets |-> {}]
    /\ asking = [s \in Sockets |-> None]
    /\ isActive = [u \in Users |-> TRUE]
    /\ threads = [t \in Threads |-> [kind |-> "none", members |-> {}]]
    /\ opening = None
    /\ online = {}
    /\ admin = 0

CanJoinThread(u, t) == u \in threads[t].members

(* The sockets of a user's pool in one process; those ready to send. *)
Pool(u, n) == {s \in Sockets : UserOf[s] = u /\ node[s] = n /\ conn[s] \in {"open", "closing", "ghost"}}
Ready(u, n) == {s \in Pool(u, n) : conn[s] = "open"}

-----------------------------------------------------------------------------
(* upgrade: the token verifies, assertLiveUser is asked. *)
Upgrade(s, n) ==
    /\ conn[s] = "off"
    /\ conn' = [conn EXCEPT ![s] = "checking"]
    /\ node' = [node EXCEPT ![s] = n]
    /\ fresh' = [fresh EXCEPT ![s] = TRUE]
    /\ present' = [present EXCEPT ![s] = TRUE]
    /\ UNCHANGED <<isAlive, subscribedThreads, asking, threadVars, isActive, online, admin>>

(* assertLiveUser reads the user. *)
Admit(s) ==
    /\ conn[s] = "checking"
    /\ conn' = [conn EXCEPT ![s] = IF isActive[UserOf[s]] THEN "admitted" ELSE "off"]
    /\ UNCHANGED <<node, fresh, present, isAlive, subscribedThreads, asking, threadVars, isActive, online, admin>>

(* The client goes away before anybody listens for the close. *)
LeaveEarly(s) ==
    /\ conn[s] \in {"checking", "admitted"} /\ present[s]
    /\ present' = [present EXCEPT ![s] = FALSE]
    /\ UNCHANGED <<conn, node, fresh, isAlive, subscribedThreads, asking, threadVars, isActive, online, admin>>

(* The continuation: the socket joins its user's pool and gets its handlers.  *)
(* A user without a ready socket in this process is published as online.     *)
BindClient(s) ==
    LET u == UserOf[s] IN
    /\ conn[s] = "admitted"
    /\ conn' = [conn EXCEPT ![s] = IF present[s] THEN "open" ELSE "ghost"]
    /\ isAlive' = [isAlive EXCEPT ![s] = TRUE]
    /\ subscribedThreads' = [subscribedThreads EXCEPT ![s] = {}]
    /\ online' = IF Ready(u, node[s]) = {} THEN online \cup {u} ELSE online
    /\ UNCHANGED <<node, fresh, present, asking, threadVars, isActive, admin>>

Closing(s) == conn' = [conn EXCEPT ![s] = "closing"]

(* A subscribe frame: the token, the user and the membership are checked.    *)
AskSubscribe(s, t) ==
    /\ conn[s] = "open" /\ present[s] /\ asking[s] = None
    /\ IF fresh[s] /\ isActive[UserOf[s]]
       THEN /\ CanJoinThread(UserOf[s], t)
            /\ asking' = [asking EXCEPT ![s] = t]
            /\ UNCHANGED conn
       ELSE Closing(s) /\ UNCHANGED asking
    /\ UNCHANGED <<node, fresh, present, isAlive, subscribedThreads, threadVars, isActive, online, admin>>

(* The continuation of the last check, whatever happened since. *)
Subscribe(s) ==
    /\ asking[s] # None
    /\ subscribedThreads' = [subscribedThreads EXCEPT ![s] = @ \cup {asking[s]}]
    /\ asking' = [asking EXCEPT ![s] = None]
    /\ UNCHANGED <<conn, node, fresh, present, isAlive, threadVars, isActive, online, admin>>

(* An unsubscribe frame overtakes a subscribe frame that is being checked. *)
Unsubscribe(s, t) ==
    /\ conn[s] = "open" /\ present[s] /\ fresh[s] /\ isActive[UserOf[s]]
    /\ t \in subscribedThreads[s]
    /\ subscribedThreads' = [subscribedThreads EXCEPT ![s] = @ \ {t}]
    /\ UNCHANGED <<conn, node, fresh, present, isAlive, asking, threadVars, isActive, online, admin>>

Pong(s) ==
    /\ conn[s] = "open" /\ present[s] /\ ~isAlive[s]
    /\ isAlive' = [isAlive EXCEPT ![s] = TRUE]
    /\ UNCHANGED <<conn, node, fresh, present, subscribedThreads, asking, threadVars, isActive, online, admin>>

(* The client closes, or its network is gone without a word. *)
Disconnect(s) ==
    /\ conn[s] = "open" /\ present[s]
    /\ present' = [present EXCEPT ![s] = FALSE]
    /\ conn' = conn \/ Closing(s)
    /\ UNCHANGED <<node, fresh, isAlive, subscribedThreads, asking, threadVars, isActive, online, admin>>

(* MUTANT: the pool is found empty before the socket is taken out of it. *)
Close_SizeFirst(s) ==
    /\ conn[s] = "closing" /\ asking[s] = None
    /\ conn' = [conn EXCEPT ![s] = "off"]
    /\ online' = IF Pool(UserOf[s], node[s]) = {} THEN online \ {UserOf[s]} ELSE online
    /\ UNCHANGED <<node, fresh, present, isAlive, subscribedThreads, asking, threadVars, isActive, admin>>

(* The close handler: the last socket of the pool takes the user offline.    *)
(* (A subscription still being checked ends on the dead socket first: it has *)
(* no effect there, and the model uses the socket's name again.)             *)
Close(s) ==
    /\ conn[s] = "closing" /\ asking[s] = None
    /\ conn' = [conn EXCEPT ![s] = "off"]
    /\ online' = IF Pool(UserOf[s], node[s]) = {s} THEN online \ {UserOf[s]} ELSE online
    /\ UNCHANGED <<node, fresh, present, isAlive, subscribedThreads, asking, threadVars, isActive, admin>>

(* MUTANT: the heartbeat does not look at the user again. *)
Heartbeat_TrustsToken(s) ==
    /\ conn[s] = "open"
    /\ IF ~isAlive[s] \/ ~fresh[s]
       THEN Closing(s) /\ UNCHANGED <<subscribedThreads, isAlive>>
       ELSE /\ subscribedThreads' = [subscribedThreads EXCEPT ![s] = {t \in @ : CanJoinThread(UserOf[s], t)}]
            /\ isAlive' = [isAlive EXCEPT ![s] = FALSE]
            /\ UNCHANGED conn
    /\ UNCHANGED <<node, fresh, present, asking, threadVars, isActive, online, admin>>

(* The 30 second heartbeat: a silent, expired or deactivated connection is   *)
(* terminated, subscriptions are checked again, and a ping is sent.  It does *)
(* nothing to a ghost, whose close event is over.                            *)
Heartbeat(s) ==
    /\ conn[s] = "open"
    /\ IF ~isAlive[s] \/ ~fresh[s] \/ ~isActive[UserOf[s]]
       THEN Closing(s) /\ UNCHANGED <<subscribedThreads, isAlive>>
       ELSE /\ subscribedThreads' = [subscribedThreads EXCEPT ![s] = {t \in @ : CanJoinThread(UserOf[s], t)}]
            /\ isAlive' = [isAlive EXCEPT ![s] = FALSE]
            /\ UNCHANGED conn
    /\ UNCHANGED <<node, fresh, present, asking, threadVars, isActive, online, admin>>

(* The access token runs out while the connection lasts. *)
TokenExpires(s) ==
    /\ conn[s] = "open" /\ fresh[s]
    /\ fresh' = [fresh EXCEPT ![s] = FALSE]
    /\ UNCHANGED <<conn, node, present, isAlive, subscribedThreads, asking, threadVars, isActive, online, admin>>

-----------------------------------------------------------------------------
Administrative == admin < MaxAdmin /\ admin' = admin + 1
NewThread(row) == \E t \in Threads : threads[t].kind = "none" /\ threads' = [threads EXCEPT ![t] = row]

(* An account is deactivated or reactivated; no socket is told. *)
SetActive(u) ==
    /\ Administrative
    /\ isActive' = [isActive EXCEPT ![u] = ~@]
    /\ UNCHANGED <<socketVars, threadVars, online>>

(* openDirect looks for the pair's conversation, and creates it later. *)
FindDirect(u, v) ==
    /\ Administrative /\ opening = None
    /\ u # v /\ isActive[v]
    /\ ~\E t \in Threads : threads[t].kind = "direct" /\ threads[t].members = {u, v}
    /\ opening' = {u, v}
    /\ UNCHANGED <<socketVars, threads, isActive, online>>

OpenDirect ==
    /\ opening # None
    /\ NewThread([kind |-> "direct", members |-> opening])
    /\ opening' = None
    /\ UNCHANGED <<socketVars, isActive, online, admin>>

(* A group of active people; an existing one of that title, seen by one of   *)
(* its members, gets those it lacks.                                         *)
CreateGroup(u, others) ==
    LET members == {v \in {u} \cup others : isActive[v]} IN
    /\ Administrative
    /\ Cardinality(members) >= 2
    /\ IF \E t \in Threads : CanJoinThread(u, t) /\ threads[t].kind = "group"
       THEN \E t \in Threads : /\ CanJoinThread(u, t) /\ threads[t].kind = "group"
                               /\ threads' = [threads EXCEPT ![t].members = @ \cup members]
       ELSE NewThread([kind |-> "group", members |-> members])
    /\ UNCHANGED <<socketVars, opening, isActive, online>>

(* deleteGroup: only a group; its members go with it, its sockets stay. *)
DeleteGroup(t) ==
    /\ Administrative
    /\ threads[t].kind = "group"
    /\ threads' = [threads EXCEPT ![t] = [kind |-> "deleted", members |-> {}]]
    /\ UNCHANGED <<socketVars, opening, isActive, online>>

Gateway(s) ==
    \/ \E n \in Nodes : Upgrade(s, n)
    \/ Admit(s) \/ LeaveEarly(s) \/ BindClient(s)
    \/ \E t \in Threads : AskSubscribe(s, t) \/ Unsubscribe(s, t)
    \/ Subscribe(s) \/ Pong(s) \/ Disconnect(s) \/ Close(s) \/ Heartbeat(s) \/ TokenExpires(s)

Next ==
    \/ \E s \in Sockets : Gateway(s)
    \/ \E u \in Users : SetActive(u)
    \/ \E u, v \in Users : FindDirect(u, v)
    \/ OpenDirect
    \/ \E u \in Users : \E others \in SUBSET Users : CreateGroup(u, others)
    \/ \E t \in Threads : DeleteGroup(t)

(* The heartbeat timer runs, the database answers, closed sockets report     *)
(* their close.  Clients and administrators owe nothing.                     *)
Fairness ==
    \A s \in Sockets :
        /\ WF_vars(Heartbeat(s)) /\ WF_vars(Close(s))
        /\ WF_vars(Admit(s)) /\ WF_vars(BindClient(s)) /\ WF_vars(Subscribe(s))

Spec == Init /\ [][Next]_vars /\ Fairness

-----------------------------------------------------------------------------
(* broadcastLocalToThread: who a message of the thread is sent to. *)
Hears(t) == {s \in Sockets : conn[s] = "open" /\ t \in subscribedThreads[s]}

Entitled(s, t) == fresh[s] /\ isActive[UserOf[s]] /\ CanJoinThread(UserOf[s], t)

(* Whoever loses the right to a thread (account deactivated, token expired,  *)
(* thread deleted) stops hearing it, although nobody tells the sockets and   *)
(* admissions and subscriptions are completed on answers that have become    *)
(* stale.                                                                    *)
RevokedGoesSilent ==
    \A s \in Sockets, t \in Threads : <>[]~Entitled(s, t) => <>[](s \notin Hears(t))

(* A user whose clients have all gone for good ends up offline to everybody, *)
(* in whatever order and in whichever processes the sockets opened, closed   *)
(* or fell silent, unless one was lost while it was being admitted.          *)
PresenceSettles ==
    \A u \in Users :
        <>[](\A s \in Sockets : UserOf[s] = u => ~present[s] \/ conn[s] \in {"off", "closing"})
            => <>[](u \notin online \/ \E s \in Sockets : UserOf[s] = u /\ conn[s] = "ghost")
=============================================================================
