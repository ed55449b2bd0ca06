------------------------------- MODULE Session -------------------------------
(***************************************************************************)
(* Sign-in and sessions of one account: src/services/auth.service.js and     *)
(* sso.service.js, with the check of every request in auth.middleware.js.    *)
(*                                                                         *)
(* A session is what one sign-in opened; a refresh token is its session and  *)
(* how often it was rotated.  Passwords are left out: a right one is given.  *)
(* Handlers read first and write in a later step, so that they interleave.   *)
(***************************************************************************)
EXTENDS Integers, TLC

CONSTANTS
    Clients,    \* browser tabs and phones; those of a browser share its cookie
    Sessions,   \* identities of sessions (bound: sign-ins)
    Codes,      \* SSO login codes (bound: callbacks)
    MaxAge,     \* a session's absolute age limit (sessionPolicy: 30 days)
    AccessLife, \* life of an access token (15 minutes)
    CodeLife,   \* life of a verification code, a challenge or an SSO code
    MaxNow,     \* bound: time
    MaxTurns,   \* bound: rotations of a token
    MaxAdmin,   \* bound: password, two-step and account changes
    None

ASSUME SessionAssumption ==
    /\ {MaxAge, AccessLife, CodeLife, MaxNow, MaxTurns, MaxAdmin} \subseteq Nat
    /\ MaxAge > 0 /\ None \notin Nat \cup Sessions

Symmetry == Permutations(Clients)
Times == 0 .. MaxNow
Tokens == [session : Sessions, turn : 0 .. MaxTurns]
AccessTokens == [session : Sessions, till : Nat]
Accounts == [active : BOOLEAN, verified : BOOLEAN, second : {"off", "setup", "on"},
             step : Times \cup {None}, code : Nat \cup {None},
             must : BOOLEAN]
SsoLoginCode == [till : Nat, used : BOOLEAN]

VARIABLES
    now,
    acct,     \* the User row; must is mustChangePassword
    link,     \* till when the last reset link made for the present password is good
    stored,   \* the RefreshToken table
    started,  \* when each session was opened (sessionStartedAt in its tokens)
    cookie,   \* the refresh token the browser holds
    access,   \* the access token of each client: its session and its expiry
    req,      \* the request each client has under way, and what it has read
    sso,      \* the SsoLoginCode table
    opened,   \* auxiliary: sessions opened by each SSO code
    admin     \* changes so far

vars == <<now, acct, link, stored, started, cookie, access, req, sso, opened, admin>>

Used == {s \in Sessions : started[s] # None}
Fresh == IF Used = Sessions THEN {} ELSE {CHOOSE s \in Sessions \ Used : TRUE}
NoReq == [op |-> "none"]
Requests == [op : {"none"}] \cup [op : {"issue"}] \cup [op : {"challenge"}, till : Nat] \cup
            [op : {"second"}, step : Times] \cup [op : {"refresh"}, token : Tokens, till : Nat] \cup
            [op : {"reset", "revoke", "invite"}] \cup
            [op : {"exchange"}, code : Codes, second : {"off", "setup", "on"}]

TypeOK ==
    /\ now \in Times
    /\ acct \in Accounts /\ link \in Nat \cup {None}
    /\ stored \subseteq Tokens
    /\ started \in [Sessions -> Times \cup {None}]
    /\ cookie \in Tokens \cup {None}
    /\ access \in [Clients -> AccessTokens \cup {None}]
    /\ req \in [Clients -> Requests]
    /\ sso \in [Codes -> SsoLoginCode \cup {None}]
    /\ opened \in [Codes -> Nat]
    /\ admin \in 0 .. MaxAdmin

(* register leaves an account that cannot sign in before its code is entered;   *)
(* an invited employee's is verified and has a password to be changed.          *)
Init ==
    /\ now = 0
    /\ \E invited \in BOOLEAN :
          acct = [active |-> TRUE, verified |-> invited, second |-> "off", step |-> None,
                  code |-> IF invited THEN None ELSE CodeLife, must |-> invited]
    /\ link = None
    /\ stored = {} /\ started = [s \in Sessions |-> None]
    /\ cookie = None /\ access = [c \in Clients |-> None]
    /\ req = [c \in Clients |-> NoReq]
    /\ sso = [k \in Codes |-> None] /\ opened = [k \in Codes |-> 0]
    /\ admin = 0

Tick ==
    /\ now < MaxNow
    /\ now' = now + 1
    /\ UNCHANGED <<acct, link, stored, started, cookie, access, req, sso, opened, admin>>

Idle(c) == req[c].op = "none"
Becomes(c, r) == req' = [req EXCEPT ![c] = r]

-----------------------------------------------------------------------------
(* Opening a session *)

(* issueRefreshToken with an access token: a session of its own. *)
issueRefreshToken(c, s) ==
    /\ started' = [started EXCEPT ![s] = now]
    /\ stored' = stored \cup {[session |-> s, turn |-> 0]}
    /\ cookie' = [session |-> s, turn |-> 0]
    /\ access' = [access EXCEPT ![c] = [session |-> s, till |-> now + AccessLife]]

Issue(c) ==
    /\ req[c].op = "issue"
    /\ \E s \in Fresh : issueRefreshToken(c, s)
    /\ Becomes(c, NoReq)
    /\ UNCHANGED <<now, acct, link, sso, opened, admin>>

verifyEmail(c) ==
    /\ Idle(c) /\ acct.active
    /\ acct.code # None /\ now <= acct.code
    /\ acct' = [acct EXCEPT !.verified = TRUE, !.code = None]
    /\ Becomes(c, [op |-> "issue"])
    /\ UNCHANGED <<now, link, stored, started, cookie, access, sso, opened, admin>>

resendVerificationCode ==
    /\ acct.active /\ ~acct.verified
    /\ acct' = [acct EXCEPT !.code = now + CodeLife]
    /\ UNCHANGED <<now, link, stored, started, cookie, access, req, sso, opened, admin>>

(* A challenge carries no more than the account and its expiry. *)
NextFactor(second) == IF second = "on" THEN [op |-> "challenge", till |-> now + CodeLife] ELSE [op |-> "issue"]

login(c) ==
    /\ Idle(c) /\ acct.active /\ acct.verified
    /\ Becomes(c, NextFactor(acct.second))
    /\ UNCHANGED <<now, acct, link, stored, started, cookie, access, sso, opened, admin>>

(* Google has proved the address: it verifies the account, and asks for no     *)
(* second step.                                                              *)
loginWithGoogle(c) ==
    /\ Idle(c) /\ acct.active
    /\ acct' = [acct EXCEPT !.verified = TRUE]
    /\ Becomes(c, [op |-> "issue"])
    /\ UNCHANGED <<now, link, stored, started, cookie, access, sso, opened, admin>>

(* The authenticator shows one code per unit of time; a code is good if it is  *)
(* later than the last one accepted.                                         *)
TwoFactorReads(c) ==
    /\ req[c].op = "challenge" /\ now <= req[c].till
    /\ acct.second = "on" /\ acct.step \in {None} \cup 0 .. now - 1
    /\ Becomes(c, [op |-> "second", step |-> now])
    /\ UNCHANGED <<now, acct, link, stored, started, cookie, access, sso, opened, admin>>

TwoFactorWrites(c) ==
    /\ req[c].op = "second"
    /\ acct' = [acct EXCEPT !.step = req[c].step]
    /\ Becomes(c, [op |-> "issue"])
    /\ UNCHANGED <<now, link, stored, started, cookie, access, sso, opened, admin>>

-----------------------------------------------------------------------------
(* Single sign-on *)

finishCallback(k) ==
    /\ acct.active /\ sso[k] = None
    /\ \A j \in Codes : opened[j] > 0 => j # k
    /\ sso' = [j \in Codes |-> IF j = k THEN [till |-> now + CodeLife, used |-> FALSE] ELSE None]
    /\ UNCHANGED <<now, acct, link, stored, started, cookie, access, req, opened, admin>>

ExchangeReads(c, k) ==
    /\ Idle(c) /\ sso[k] # None
    /\ ~sso[k].used /\ sso[k].till > now
    /\ Becomes(c, [op |-> "exchange", code |-> k, second |-> acct.second])
    /\ UNCHANGED <<now, acct, link, stored, started, cookie, access, sso, opened, admin>>

(* MUTANT: the claim does not look at usedAt again. *)
Claimable_Used(k) == sso[k] # None /\ sso[k].till > now

Claimable(k) == sso[k] # None /\ ~sso[k].used /\ sso[k].till > now

(* The code is claimed by the update that marks it used. *)
ExchangeClaims(c) ==
    /\ req[c].op = "exchange"
    /\ LET k == req[c].code IN
          IF Claimable(k)
          THEN /\ sso' = [sso EXCEPT ![k].used = TRUE]
               /\ opened' = [opened EXCEPT ![k] = @ + 1]
               /\ acct' = [acct EXCEPT !.verified = (@ \/ req[c].second # "on")]
               /\ Becomes(c, NextFactor(req[c].second))
          ELSE Becomes(c, NoReq) /\ UNCHANGED <<acct, sso, opened>>
    /\ UNCHANGED <<now, link, stored, started, cookie, access, admin>>

-----------------------------------------------------------------------------
(* Keeping a session *)

(* MUTANT: rotation forgets when the session began. *)
TooOld_SinceRotation(token) == FALSE

TooOld(token) == now - started[token.session] >= MaxAge

(* The new tokens are signed where the age and the account were checked.      *)
RefreshReads(c) ==
    /\ Idle(c) /\ cookie # None /\ cookie \in stored
    /\ IF TooOld(cookie)
       THEN stored' = stored \ {cookie} /\ UNCHANGED req
       ELSE /\ acct.active /\ cookie.turn < MaxTurns
            /\ Becomes(c, [op |-> "refresh", token |-> cookie, till |-> now + AccessLife])
            /\ UNCHANGED stored
    /\ UNCHANGED <<now, acct, link, started, cookie, access, sso, opened, admin>>

(* MUTANT: the old token is deleted if it is still there. *)
RefreshCommits_NoClaim(c) ==
    /\ req[c].op = "refresh"
    /\ LET old == req[c].token
           new == [old EXCEPT !.turn = @ + 1]
       IN /\ stored' = (stored \ {old}) \cup {new}
          /\ cookie' = new
          /\ access' = [access EXCEPT ![c] = [session |-> old.session, till |-> req[c].till]]
    /\ Becomes(c, NoReq)
    /\ UNCHANGED <<now, acct, link, started, sso, opened, admin>>

(* The old token is deleted and its successor stored in one transaction,       *)
(* which fails when the old one is gone; the answer may be lost on its way.    *)
RefreshCommits(c) ==
    /\ req[c].op = "refresh"
    /\ LET old == req[c].token
           new == [old EXCEPT !.turn = @ + 1]
       IN IF old \in stored
          THEN /\ stored' = (stored \ {old}) \cup {new}
               /\ \/ /\ cookie' = new
                     /\ access' = [access EXCEPT ![c] = [session |-> old.session, till |-> req[c].till]]
                  \/ UNCHANGED <<cookie, access>>
          ELSE UNCHANGED <<stored, cookie, access>>
    /\ Becomes(c, NoReq)
    /\ UNCHANGED <<now, acct, link, started, sso, opened, admin>>

logout(c) ==
    /\ Idle(c) /\ cookie # None
    /\ stored' = stored \ {cookie}
    /\ cookie' = None
    /\ UNCHANGED <<now, acct, link, started, access, req, sso, opened, admin>>

-----------------------------------------------------------------------------
(* The password, the second step and the account *)

(* authenticate: a request is served while its access token lasts and the      *)
(* account is active.                                                        *)
Served(c) == acct.active /\ access[c] # None /\ now < access[c].till

(* forgotPassword, and sendAdminPasswordReset by the platform's support. *)
forgotPassword ==
    /\ acct.active /\ admin < MaxAdmin
    /\ link' = now + CodeLife
    /\ admin' = admin + 1
    /\ UNCHANGED <<now, acct, stored, started, cookie, access, req, sso, opened>>

(* Whoever is signed in changes the password; sessions stay. *)
changePassword(c) ==
    /\ Idle(c) /\ Served(c) /\ admin < MaxAdmin
    /\ acct' = [acct EXCEPT !.must = FALSE] /\ link' = None
    /\ admin' = admin + 1
    /\ UNCHANGED <<now, stored, started, cookie, access, req, sso, opened>>

(* resetPassword: a link is good until the password it was made for changes.    *)
(* The new password is written, and then every session is revoked.              *)
ResetReads(c) ==
    /\ Idle(c)
    /\ link # None /\ now <= link
    /\ Becomes(c, [op |-> "reset"])
    /\ UNCHANGED <<now, acct, link, stored, started, cookie, access, sso, opened, admin>>

ResetWrites(c) ==
    /\ req[c].op = "reset"
    /\ acct' = [acct EXCEPT !.must = FALSE] /\ link' = None
    /\ Becomes(c, [op |-> "revoke"])
    /\ UNCHANGED <<now, stored, started, cookie, access, sso, opened, admin>>

RevokeAll(c) ==
    /\ req[c].op = "revoke"
    /\ stored' = {}
    /\ Becomes(c, NoReq)
    /\ UNCHANGED <<now, acct, link, started, cookie, access, sso, opened, admin>>

(* resendEmployeeInvite, in the place of a client: new credentials while the      *)
(* employee has not chosen a password, and all sessions revoked with them.      *)
InviteReads(c) ==
    /\ Idle(c) /\ admin < MaxAdmin /\ acct.active /\ acct.must
    /\ Becomes(c, [op |-> "invite"])
    /\ admin' = admin + 1
    /\ UNCHANGED <<now, acct, link, stored, started, cookie, access, sso, opened>>

InviteCommits(c) ==
    /\ req[c].op = "invite"
    /\ acct' = [acct EXCEPT !.must = TRUE] /\ link' = None
    /\ stored' = {}
    /\ Becomes(c, NoReq)
    /\ UNCHANGED <<now, started, cookie, access, sso, opened, admin>>

(* beginTwoFactorSetup, confirmTwoFactorSetup and disableTwoFactor *)
ChangeTwoFactor ==
    /\ admin < MaxAdmin
    /\ \/ acct' = [acct EXCEPT !.second = "setup", !.step = None]
       \/ acct.second = "setup" /\ acct' = [acct EXCEPT !.second = "on", !.step = None]
       \/ /\ acct.second = "on" /\ acct.step \in {None} \cup 0 .. now - 1
          /\ acct' = [acct EXCEPT !.second = "off", !.step = None]
    /\ admin' = admin + 1
    /\ UNCHANGED <<now, link, stored, started, cookie, access, req, sso, opened>>

(* bulkLoginAccess: the login of an employee switched off or on. *)
SetActive ==
    /\ admin < MaxAdmin
    /\ acct' = [acct EXCEPT !.active = ~@]
    /\ admin' = admin + 1
    /\ UNCHANGED <<now, link, stored, started, cookie, access, req, sso, opened>>

(* A termination switches it off, and revokes every session next. *)
Terminate(c) ==
    /\ Idle(c) /\ admin < MaxAdmin
    /\ acct' = [acct EXCEPT !.active = FALSE]
    /\ Becomes(c, [op |-> "revoke"])
    /\ admin' = admin + 1
    /\ UNCHANGED <<now, link, stored, started, cookie, access, sso, opened>>

Next ==
    \/ Tick \/ resendVerificationCode \/ ChangeTwoFactor \/ SetActive \/ forgotPassword
    \/ \E c \in Clients :
          \/ verifyEmail(c) \/ login(c) \/ loginWithGoogle(c) \/ Issue(c)
          \/ TwoFactorReads(c) \/ TwoFactorWrites(c)
          \/ RefreshReads(c) \/ RefreshCommits(c) \/ logout(c)
          \/ changePassword(c) \/ ResetReads(c) \/ ResetWrites(c) \/ RevokeAll(c)
          \/ InviteReads(c) \/ InviteCommits(c) \/ Terminate(c)
          \/ ExchangeClaims(c) \/ \E k \in Codes : ExchangeReads(c, k)
    \/ \E k \in Codes : finishCallback(k)

Spec == Init /\ [][Next]_vars

-----------------------------------------------------------------------------

(* sessionPolicy: "an absolute maximum from sign-in.  Refresh-token rotation    *)
(* never extends this window": nobody is served from a session older than its   *)
(* limit and the access token it gave out last.                              *)
SessionEnds == \A c \in Clients : Served(c) => now < started[access[c].session] + MaxAge + AccessLife

(* A session that lost its token, by logout, age, a reset or a termination,     *)
(* never has one again: no refresh that was under way brings it back.         *)
Ended(s) == started[s] # None /\ \A t \in stored : t.session # s
EndedStaysEnded == [][\A s \in Sessions : Ended(s) => Ended(s)']_vars

(* A single sign-on code opens one session, however many exchanges run at once. *)
SsoCodeOnce == \A k \in Codes : opened[k] <= 1
=============================================================================
