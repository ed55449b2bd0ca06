--------------------------- MODULE Session_proofs ---------------------------
(***************************************************************************)
(* Sessions end, stay ended, and a single sign-on code opens one, for any     *)
(* number of clients, sessions and codes and any lifetimes; the limit on       *)
(* failed attempts holds and ends, for any keys, attempts and outages; the     *)
(* password verifier keeps its pool at work, for any size of pool and queue;   *)
(* and every hire keeps a candidate, a profile and a seat that was checked.    *)
(***************************************************************************)
EXTENDS MCSession, MCWorkforce, FiniteSetTheorems, SequenceTheorems, TLAPS

(* What makes the age limit inductive: whatever may still turn into an access   *)
(* token, the one in hand or a rotation under way, was signed while its session *)
(* was young enough.                                                        *)
Bounded(s, till) == started[s] # None /\ till < started[s] + MaxAge + AccessLife

CookieStarted == cookie # None => started[cookie.session] # None
AccessBounded == \A c \in Clients : access[c] # None => Bounded(access[c].session, access[c].till)
RefreshBounded ==
    \A c \in Clients : req[c].op = "refresh" =>
        req[c].token.turn < MaxTurns /\ Bounded(req[c].token.session, req[c].till)

AgeInv == TypeOK /\ CookieStarted /\ AccessBounded /\ RefreshBounded

(* A code that can still be claimed has opened nothing. *)
CodeInv ==
    /\ sso \in [Codes -> SsoLoginCode \cup {None}] /\ opened \in [Codes -> Nat]
    /\ \A k \in Codes : opened[k] <= 1 /\ (sso[k] # None /\ ~sso[k].used => opened[k] = 0)

-----------------------------------------------------------------------------
(* A session that is opened was not open before. *)
LEMMA FreshIsUnused == ASSUME NEW s \in Fresh PROVE s \in Sessions /\ started[s] = None
<1>1. Used # Sessions /\ s = CHOOSE x \in Sessions \ Used : TRUE
  BY DEF Fresh
<1>2. Sessions \ Used # {}
  BY <1>1 DEF Used
<1>3. s \in Sessions \ Used
  BY <1>1, <1>2
<1> QED
  BY <1>3 DEF Used

(* Of the requests under way, those that refresh carry a token and an expiry. *)
LEMMA RefreshHasToken ==
    ASSUME NEW c \in Clients, req[c] \in Requests, req[c].op = "refresh"
    PROVE  req[c].token \in Tokens /\ req[c].till \in Nat
BY DEF Requests

LEMMA SecondHasStep ==
    ASSUME NEW c \in Clients, req[c] \in Requests, req[c].op = "second"
    PROVE  req[c].step \in Times
BY DEF Requests

LEMMA ExchangeHasCode ==
    ASSUME NEW c \in Clients, req[c] \in Requests, req[c].op = "exchange"
    PROVE  req[c].code \in Codes /\ req[c].second \in {"off", "setup", "on"}
BY DEF Requests

(* The successor of a token belongs to the same session. *)
LEMMA Successor ==
    ASSUME NEW t \in Tokens, t.turn < MaxTurns
    PROVE  [t EXCEPT !.turn = @ + 1] \in Tokens /\ [t EXCEPT !.turn = @ + 1].session = t.session
BY SessionAssumption DEF Tokens, SessionAssumption

(* A row of the account stays one when a column of it is written. *)
LEMMA FlagMoves ==
    ASSUME NEW a \in Accounts, NEW b \in BOOLEAN
    PROVE  /\ [a EXCEPT !.verified = b] \in Accounts
           /\ [a EXCEPT !.must = b] \in Accounts
           /\ [a EXCEPT !.active = b] \in Accounts
BY DEF Accounts

LEMMA CodeMoves ==
    ASSUME NEW a \in Accounts, NEW n \in Nat \cup {None}
    PROVE  /\ [a EXCEPT !.code = n] \in Accounts
           /\ [a EXCEPT !.verified = TRUE, !.code = n] \in Accounts
BY DEF Accounts

LEMMA FactorMoves ==
    ASSUME NEW a \in Accounts, NEW f \in {"off", "setup", "on"}
    PROVE  [a EXCEPT !.second = f, !.step = None] \in Accounts
BY DEF Accounts

-----------------------------------------------------------------------------
(* The types hold: what is read of a token, an account or a code is there. *)
LEMMA InitAge == Init => AgeInv
BY SessionAssumption DEF SessionAssumption, Init, AgeInv, TypeOK, CookieStarted, AccessBounded,
   RefreshBounded, Accounts, Times, Requests, NoReq

LEMMA StepAge == AgeInv /\ [Next]_vars => AgeInv'
<1> SUFFICES ASSUME AgeInv, [Next]_vars PROVE AgeInv'
  OBVIOUS
<1> USE SessionAssumption DEF SessionAssumption, AgeInv, TypeOK
<1>1. CASE UNCHANGED vars
  BY <1>1 DEF vars, CookieStarted, AccessBounded, RefreshBounded, Bounded
<1>2. CASE Tick
  BY <1>2 DEF Tick, Times, CookieStarted, AccessBounded, RefreshBounded, Bounded
<1>3. CASE \/ resendVerificationCode \/ ChangeTwoFactor \/ SetActive \/ forgotPassword
  <2>1. now + CodeLife \in Nat /\ (admin < MaxAdmin => admin + 1 \in 0 .. MaxAdmin)
    BY DEF Times
  <2>2. acct' \in Accounts
    <3>1. acct \in Accounts
      OBVIOUS
    <3>2. CASE resendVerificationCode
      <4>1. acct' = [acct EXCEPT !.code = now + CodeLife]
        BY <3>2 DEF resendVerificationCode
      <4> QED
        BY <2>1, <3>1, <4>1, CodeMoves
    <3>3. CASE ChangeTwoFactor
      <4>1. PICK f \in {"off", "setup", "on"} : acct' = [acct EXCEPT !.second = f, !.step = None]
        BY <3>3 DEF ChangeTwoFactor
      <4> QED
        BY <3>1, <4>1, FactorMoves
    <3>4. CASE SetActive
      <4> DEFINE b == ~acct.active
      <4>1. acct' = [acct EXCEPT !.active = b]
        BY <3>4 DEF SetActive
      <4>2. b \in BOOLEAN
        BY <3>1 DEF Accounts
      <4> HIDE DEF b
      <4> QED
        BY <3>1, <4>1, <4>2, FlagMoves
    <3>5. CASE forgotPassword
      BY <3>1, <3>5 DEF forgotPassword
    <3> QED
      BY <1>3, <3>2, <3>3, <3>4, <3>5
  <2>3. TypeOK'
    BY <1>3, <2>1, <2>2 DEF resendVerificationCode, ChangeTwoFactor, SetActive, forgotPassword
  <2>4. UNCHANGED <<started, cookie, access, req>>
    BY <1>3 DEF resendVerificationCode, ChangeTwoFactor, SetActive, forgotPassword
  <2> QED
    BY <2>3, <2>4 DEF CookieStarted, AccessBounded, RefreshBounded, Bounded
<1>4. ASSUME NEW c \in Clients,
             \/ verifyEmail(c) \/ login(c) \/ loginWithGoogle(c) \/ TwoFactorReads(c)
             \/ changePassword(c) \/ ResetReads(c) \/ ResetWrites(c) \/ RevokeAll(c)
             \/ InviteReads(c) \/ InviteCommits(c) \/ Terminate(c)
      PROVE  AgeInv'
  <2>1. acct' \in Accounts
    <3>0. acct \in Accounts
      OBVIOUS
    <3>1. CASE verifyEmail(c)
      <4>1. acct' = [acct EXCEPT !.verified = TRUE, !.code = None]
        BY <3>1 DEF verifyEmail
      <4> QED
        BY <3>0, <4>1, CodeMoves
    <3>5. CASE loginWithGoogle(c)
      <4>1. acct' = [acct EXCEPT !.verified = TRUE]
        BY <3>5 DEF loginWithGoogle
      <4> QED
        BY <3>0, <4>1, FlagMoves
    <3>2. CASE changePassword(c) \/ ResetWrites(c) \/ InviteCommits(c)
      <4>1. PICK b \in BOOLEAN : acct' = [acct EXCEPT !.must = b]
        BY <3>2 DEF changePassword, ResetWrites, InviteCommits
      <4> QED
        BY <3>0, <4>1, FlagMoves
    <3>3. CASE Terminate(c)
      <4>1. acct' = [acct EXCEPT !.active = FALSE]
        BY <3>3 DEF Terminate
      <4> QED
        BY <3>0, <4>1, FlagMoves
    <3>4. CASE login(c) \/ TwoFactorReads(c) \/ ResetReads(c) \/ RevokeAll(c) \/ InviteReads(c)
      BY <3>4 DEF login, TwoFactorReads, ResetReads, RevokeAll, InviteReads
    <3> QED
      BY <1>4, <3>1, <3>2, <3>3, <3>4, <3>5
  <2>2. \E r \in Requests \cup {req[c]} : req' = [req EXCEPT ![c] = r]
    <3>1. now + CodeLife \in Nat /\ now \in Times
      BY DEF Times
    <3>2. NoReq \in Requests /\ [op |-> "issue"] \in Requests /\ [op |-> "revoke"] \in Requests
          /\ [op |-> "reset"] \in Requests /\ [op |-> "invite"] \in Requests
          /\ [op |-> "second", step |-> now] \in Requests
          /\ [op |-> "challenge", till |-> now + CodeLife] \in Requests
      BY <3>1 DEF Requests, NoReq
    <3>3. req = [req EXCEPT ![c] = req[c]]
      OBVIOUS
    <3> QED
      BY <1>4, <3>2, <3>3 DEF verifyEmail, login, loginWithGoogle, TwoFactorReads, changePassword,
         ResetReads, ResetWrites, RevokeAll, InviteReads, InviteCommits, Terminate, Becomes, NextFactor
  <2>3. req' \in [Clients -> Requests]
    BY <2>2
  <2>4. link' \in Nat \cup {None} /\ stored' \subseteq Tokens /\ admin' \in 0 .. MaxAdmin
    BY <1>4 DEF verifyEmail, login, loginWithGoogle, TwoFactorReads, changePassword, ResetReads,
       ResetWrites, RevokeAll, InviteReads, InviteCommits, Terminate
  <2>5. UNCHANGED <<now, sso, opened>>
    BY <1>4 DEF verifyEmail, login, loginWithGoogle, TwoFactorReads, changePassword, ResetReads,
       ResetWrites, RevokeAll, InviteReads, InviteCommits, Terminate
  <2>6. UNCHANGED <<started, cookie, access>>
    BY <1>4 DEF verifyEmail, login, loginWithGoogle, TwoFactorReads, changePassword, ResetReads,
       ResetWrites, RevokeAll, InviteReads, InviteCommits, Terminate
  <2>7. TypeOK'
    BY <2>1, <2>3, <2>4, <2>5, <2>6
  <2>8. \A d \in Clients : req'[d].op = "refresh" => req'[d] = req[d]
    BY <1>4 DEF verifyEmail, login, loginWithGoogle, TwoFactorReads, changePassword, ResetReads,
       ResetWrites, RevokeAll, InviteReads, InviteCommits, Terminate, Becomes, NextFactor, NoReq
  <2> QED
    BY <2>7, <2>6, <2>8 DEF CookieStarted, AccessBounded, RefreshBounded, Bounded
<1>5. ASSUME NEW c \in Clients, Issue(c)
      PROVE  AgeInv'
  <2> PICK s \in Fresh : issueRefreshToken(c, s)
    BY <1>5 DEF Issue
  <2>1. s \in Sessions /\ started[s] = None
    BY FreshIsUnused
  <2>2. [session |-> s, turn |-> 0] \in Tokens /\ now \in Nat /\ now + AccessLife \in Nat
    BY <2>1 DEF Tokens, Times
  <2>3. TypeOK'
    BY <1>5, <2>1, <2>2 DEF Issue, issueRefreshToken, Becomes, NoReq, Requests, AccessTokens
  <2>4. \A t \in Sessions : started[t] # None => started'[t] = started[t]
    BY <2>1 DEF issueRefreshToken
  <2>5. started'[s] = now /\ now \in Nat /\ now # None /\ now' = now
    BY <1>5, <2>1, <2>2 DEF Issue, issueRefreshToken
  <2>6. started'[s] = now /\ Bounded(s, now + AccessLife)'
    BY <2>5 DEF Bounded
  <2>7. CookieStarted'
    BY <2>2, <2>6 DEF issueRefreshToken, CookieStarted
  <2>8. AccessBounded'
    <3> SUFFICES ASSUME NEW d \in Clients, access'[d] # None
                 PROVE  Bounded(access[d].session, access[d].till)'
      BY DEF AccessBounded
    <3>1. CASE d = c
      BY <2>5, <2>6, <3>1 DEF issueRefreshToken, Bounded
    <3>2. CASE d # c
      <4>1. access'[d] = access[d] /\ access[d].session \in Sessions
        BY <3>2 DEF issueRefreshToken, AccessTokens
      <4> QED
        BY <2>4, <4>1 DEF AccessBounded, Bounded
    <3> QED
      BY <3>1, <3>2
  <2>9. ASSUME NEW d \in Clients, req'[d].op = "refresh"
        PROVE  req'[d] = req[d] /\ req[d].token.session \in Sessions
    <3>1. req'[d] = req[d]
      BY <1>5, <2>9 DEF Issue, Becomes, NoReq
    <3> QED
      BY <3>1, <2>9, RefreshHasToken DEF Tokens
  <2>10. RefreshBounded'
    BY <2>4, <2>9 DEF RefreshBounded, Bounded
  <2> QED
    BY <2>3, <2>7, <2>8, <2>10
<1>6. ASSUME NEW c \in Clients, TwoFactorWrites(c)
      PROVE  AgeInv'
  <2>1. req[c].step \in Times
    BY <1>6, SecondHasStep DEF TwoFactorWrites
  <2>2. TypeOK'
    BY <1>6, <2>1 DEF TwoFactorWrites, Becomes, Accounts, Requests
  <2> QED
    BY <1>6, <2>2 DEF TwoFactorWrites, Becomes, CookieStarted, AccessBounded, RefreshBounded, Bounded
<1>7. ASSUME NEW c \in Clients, RefreshReads(c)
      PROVE  AgeInv'
  <2>1. CASE TooOld(cookie)
    BY <1>7, <2>1 DEF RefreshReads, CookieStarted, AccessBounded, RefreshBounded, Bounded
  <2>2. CASE ~TooOld(cookie)
    <3>1. cookie \in Tokens /\ started[cookie.session] \in Times
      BY <1>7 DEF RefreshReads, CookieStarted, Tokens
    <3>2. now + AccessLife \in Nat /\ Bounded(cookie.session, now + AccessLife)
      BY <1>7, <2>2, <3>1 DEF TooOld, Bounded, Times, CookieStarted, RefreshReads
    <3>3. UNCHANGED <<started, cookie, access>> /\ cookie.turn < MaxTurns
      BY <1>7, <2>2 DEF RefreshReads
    <3>4. req' = [req EXCEPT ![c] = [op |-> "refresh", token |-> cookie, till |-> now + AccessLife]]
      BY <1>7, <2>2 DEF RefreshReads, Becomes
    <3>5. TypeOK'
      BY <1>7, <2>2, <3>1, <3>2, <3>4 DEF RefreshReads, Requests
    <3>6. RefreshBounded'
      BY <3>2, <3>3, <3>4 DEF RefreshBounded, Bounded
    <3> QED
      BY <3>3, <3>5, <3>6 DEF CookieStarted, AccessBounded, Bounded
  <2> QED
    BY <2>1, <2>2
<1>8. ASSUME NEW c \in Clients, RefreshCommits(c)
      PROVE  AgeInv'
  <2> DEFINE old == req[c].token
             new == [old EXCEPT !.turn = @ + 1]
  <2>1. old \in Tokens /\ req[c].till \in Nat /\ req[c].op = "refresh"
    BY <1>8, RefreshHasToken DEF RefreshCommits
  <2>2. old.turn < MaxTurns /\ Bounded(old.session, req[c].till)
    BY <2>1 DEF RefreshBounded
  <2>3. new \in Tokens /\ new.session = old.session /\ old.session \in Sessions
    BY <2>1, <2>2, Successor DEF Tokens
  <2>4. UNCHANGED <<now, acct, link, started, sso, opened, admin>>
    BY <1>8 DEF RefreshCommits
  <2>5. stored' \subseteq stored \cup {new}
    BY <1>8 DEF RefreshCommits
  <2>6. \/ cookie' = new /\ access' = [access EXCEPT ![c] = [session |-> old.session, till |-> req[c].till]]
        \/ UNCHANGED <<cookie, access>>
    BY <1>8 DEF RefreshCommits
  <2>7. req' = [req EXCEPT ![c] = NoReq]
    BY <1>8 DEF RefreshCommits, Becomes
  <2> HIDE DEF old, new
  <2>8. TypeOK'
    BY <2>1, <2>3, <2>4, <2>5, <2>6, <2>7 DEF NoReq, Requests, AccessTokens
  <2>9. CookieStarted'
    BY <2>2, <2>3, <2>4, <2>6 DEF CookieStarted, Bounded
  <2>10. AccessBounded'
    BY <2>2, <2>4, <2>6 DEF AccessBounded, Bounded
  <2>11. RefreshBounded'
    BY <2>4, <2>7 DEF RefreshBounded, Bounded, NoReq
  <2> QED
    BY <2>8, <2>9, <2>10, <2>11
<1>9. ASSUME NEW c \in Clients, logout(c)
      PROVE  AgeInv'
  BY <1>9 DEF logout, CookieStarted, AccessBounded, RefreshBounded, Bounded
<1>10. ASSUME NEW c \in Clients, NEW k \in Codes, ExchangeReads(c, k)
       PROVE  AgeInv'
  <2>1. TypeOK'
    BY <1>10 DEF ExchangeReads, Becomes, Accounts, Requests
  <2> QED
    BY <1>10, <2>1 DEF ExchangeReads, Becomes, CookieStarted, AccessBounded, RefreshBounded, Bounded
<1>11. ASSUME NEW c \in Clients, ExchangeClaims(c)
       PROVE  AgeInv'
  <2> DEFINE k == req[c].code
  <2>1. k \in Codes /\ req[c].second \in {"off", "setup", "on"}
    BY <1>11, ExchangeHasCode DEF ExchangeClaims
  <2>2. UNCHANGED <<now, link, stored, started, cookie, access, admin>>
    BY <1>11 DEF ExchangeClaims
  <2>3. \E r \in Requests : r.op # "refresh" /\ req' = [req EXCEPT ![c] = r]
    BY <1>11 DEF ExchangeClaims, Becomes, NextFactor, NoReq, Requests, Times
  <2>4. acct' \in Accounts
    <3>1. CASE Claimable(k)
      <4> DEFINE b == acct.verified \/ req[c].second # "on"
      <4>1. acct \in Accounts
        BY DEF AgeInv, TypeOK
      <4>2. acct' = [acct EXCEPT !.verified = b]
        BY <1>11, <3>1 DEF ExchangeClaims
      <4>3. b \in BOOLEAN
        BY <4>1, <2>1 DEF Accounts
      <4> HIDE DEF b
      <4> QED
        BY <4>1, <4>2, <4>3 DEF Accounts
    <3>2. CASE ~Claimable(k)
      <4>1. acct' = acct
        BY <1>11, <3>2 DEF ExchangeClaims
      <4> QED
        BY <4>1 DEF AgeInv, TypeOK
    <3> QED
      BY <3>1, <3>2
  <2>5. sso' \in [Codes -> SsoLoginCode \cup {None}] /\ opened' \in [Codes -> Nat]
    <3>1. CASE Claimable(k)
      <4>1. sso[k] \in SsoLoginCode
        BY <2>1, <3>1 DEF Claimable
      <4>2. [sso[k] EXCEPT !.used = TRUE] \in SsoLoginCode
        BY <4>1 DEF SsoLoginCode
      <4>3. sso' = [sso EXCEPT ![k] = [sso[k] EXCEPT !.used = TRUE]] /\ opened' = [opened EXCEPT ![k] = @ + 1]
        BY <1>11, <3>1 DEF ExchangeClaims
      <4> HIDE DEF k
      <4> QED
        BY <2>1, <4>2, <4>3
    <3>2. CASE ~Claimable(k)
      BY <1>11, <3>2 DEF ExchangeClaims
    <3> QED
      BY <3>1, <3>2
  <2>6. TypeOK'
    BY <2>2, <2>3, <2>4, <2>5
  <2> QED
    BY <2>2, <2>3, <2>6 DEF CookieStarted, AccessBounded, RefreshBounded, Bounded
<1>12. ASSUME NEW k \in Codes, finishCallback(k)
       PROVE  AgeInv'
  <2>1. TypeOK'
    BY <1>12 DEF finishCallback, SsoLoginCode, Times
  <2> QED
    BY <1>12, <2>1 DEF finishCallback, CookieStarted, AccessBounded, RefreshBounded, Bounded
<1> QED
  BY <1>1, <1>2, <1>3, <1>4, <1>5, <1>6, <1>7, <1>8, <1>9, <1>10, <1>11, <1>12 DEF Next

(* The types of a sign-in's data, and that nothing which may become an access    *)
(* token outlives its session, hold in every state (issueRefreshToken, rotate). *)
THEOREM AgeInvariant == Spec => []AgeInv
BY InitAge, StepAge, PTL DEF Spec

(* However often a session is rotated, whatever answers are lost, and for any    *)
(* limits: nobody is served beyond the session's age limit and the life of the  *)
(* last access token (sessionPolicy's absolute maximum).                        *)
THEOREM SessionsEnd == Spec => []SessionEnds
<1>1. AgeInv => SessionEnds
  <2> SUFFICES ASSUME AgeInv, NEW c \in Clients, Served(c)
               PROVE  now < started[access[c].session] + MaxAge + AccessLife
    BY DEF SessionEnds
  <2>1. access[c] \in AccessTokens /\ now < access[c].till
    BY DEF AgeInv, TypeOK, Served
  <2>2. Bounded(access[c].session, access[c].till)
    BY DEF AgeInv, AccessBounded, Served
  <2>3. started[access[c].session] \in Nat /\ now \in Nat /\ access[c].till \in Nat
    BY <2>1, <2>2 DEF AgeInv, TypeOK, AccessTokens, Bounded, Times
  <2> QED
    BY <2>1, <2>2, <2>3, SessionAssumption DEF Bounded, SessionAssumption
<1> QED
  BY <1>1, AgeInvariant, PTL

(* A session without a token never has one again, whatever refreshes were under  *)
(* way when it was revoked: only Issue and RefreshCommits store tokens, one for *)
(* a session that is new and one for a session whose token is there.            *)
LEMMA StoreKeepsEnded == ASSUME AgeInv, [Next]_vars, NEW s \in Sessions, Ended(s) PROVE Ended(s)'
<1> USE DEF AgeInv, TypeOK
<1>1. started'[s] # None
  <2>1. CASE \E c \in Clients : Issue(c)
    <3> PICK c \in Clients, t \in Fresh : issueRefreshToken(c, t)
      BY <2>1 DEF Issue
    <3>1. t # s
      BY FreshIsUnused DEF Ended
    <3> QED
      BY <3>1 DEF issueRefreshToken, Ended
  <2>2. CASE ~\E c \in Clients : Issue(c)
    <3>1. UNCHANGED started
      BY <2>2 DEF Next, vars, Tick, resendVerificationCode, ChangeTwoFactor, SetActive, forgotPassword,
         verifyEmail, login, loginWithGoogle, TwoFactorReads, TwoFactorWrites, RefreshReads, RefreshCommits,
         logout, changePassword, ResetReads, ResetWrites, RevokeAll, InviteReads, InviteCommits, Terminate,
         ExchangeClaims, ExchangeReads, finishCallback
    <3> QED
      BY <3>1 DEF Ended
  <2> QED
    BY <2>1, <2>2
<1>2. \A t \in stored' : t.session # s
  <2>1. CASE \E c \in Clients : Issue(c)
    <3> PICK c \in Clients, t \in Fresh : issueRefreshToken(c, t)
      BY <2>1 DEF Issue
    <3>1. t # s
      BY FreshIsUnused DEF Ended
    <3> QED
      BY <3>1 DEF issueRefreshToken, Ended
  <2>2. CASE \E c \in Clients : RefreshCommits(c)
    <3> PICK c \in Clients : RefreshCommits(c)
      BY <2>2
    <3> DEFINE old == req[c].token
               new == [old EXCEPT !.turn = @ + 1]
    <3>1. old \in Tokens /\ old.turn < MaxTurns
      BY RefreshHasToken DEF RefreshCommits, RefreshBounded
    <3>2. new.session = old.session
      BY <3>1, Successor
    <3>3. stored' = stored \/ (old \in stored /\ stored' = (stored \ {old}) \cup {new})
      BY DEF RefreshCommits
    <3> HIDE DEF old, new
    <3> QED
      BY <3>2, <3>3 DEF Ended
  <2>3. CASE ~\E c \in Clients : Issue(c) \/ RefreshCommits(c)
    <3>1. stored' \subseteq stored
      BY <2>3 DEF Next, vars, Tick, resendVerificationCode, ChangeTwoFactor, SetActive, forgotPassword,
         verifyEmail, login, loginWithGoogle, TwoFactorReads, TwoFactorWrites, RefreshReads, logout,
         changePassword, ResetReads, ResetWrites, RevokeAll, InviteReads, InviteCommits, Terminate,
         ExchangeClaims, ExchangeReads, finishCallback
    <3> QED
      BY <3>1 DEF Ended
  <2> QED
    BY <2>1, <2>2, <2>3
<1> QED
  BY <1>1, <1>2 DEF Ended

(* For any clients and sessions, a session that was logged out, revoked or too   *)
(* old stays ended.                                                             *)
THEOREM SessionsStayEnded == Spec => EndedStaysEnded
<1>1. AgeInv /\ [Next]_vars => [\A s \in Sessions : Ended(s) => Ended(s)']_vars
  BY StoreKeepsEnded
<1> QED
  BY <1>1, AgeInvariant, PTL DEF Spec, EndedStaysEnded

-----------------------------------------------------------------------------
LEMMA StepCode == AgeInv /\ CodeInv /\ [Next]_vars => CodeInv'
<1> SUFFICES ASSUME AgeInv, CodeInv, [Next]_vars PROVE CodeInv'
  OBVIOUS
<1>1. ASSUME NEW c \in Clients, ExchangeClaims(c)
      PROVE  CodeInv'
  <2> DEFINE k == req[c].code
  <2>1. k \in Codes
    BY <1>1, ExchangeHasCode DEF ExchangeClaims, AgeInv, TypeOK
  <2>2. CASE Claimable(k)
    <3>1. sso[k] \in SsoLoginCode /\ ~sso[k].used /\ sso[k] # None /\ opened[k] = 0
      BY <2>1, <2>2 DEF Claimable, CodeInv
    <3>2. sso' = [sso EXCEPT ![k] = [sso[k] EXCEPT !.used = TRUE]] /\ opened' = [opened EXCEPT ![k] = @ + 1]
      BY <1>1, <2>2 DEF ExchangeClaims
    <3>3. [sso[k] EXCEPT !.used = TRUE] \in SsoLoginCode /\ [sso[k] EXCEPT !.used = TRUE].used
      BY <3>1 DEF SsoLoginCode
    <3> HIDE DEF k
    <3> QED
      BY <2>1, <3>1, <3>2, <3>3 DEF CodeInv
  <2>3. CASE ~Claimable(k)
    BY <1>1, <2>3 DEF ExchangeClaims, CodeInv
  <2> QED
    BY <2>2, <2>3
<1>2. ASSUME NEW k \in Codes, finishCallback(k)
      PROVE  CodeInv'
  <2>1. opened[k] = 0
    BY <1>2 DEF finishCallback, CodeInv
  <2>2. [till |-> now + CodeLife, used |-> FALSE] \in SsoLoginCode
    BY SessionAssumption DEF SessionAssumption, SsoLoginCode, AgeInv, TypeOK, Times
  <2> QED
    BY <1>2, <2>1, <2>2 DEF finishCallback, CodeInv
<1>3. CASE UNCHANGED <<sso, opened>>
  BY <1>3 DEF CodeInv
<1>4. \/ UNCHANGED <<sso, opened>>
      \/ \E c \in Clients : ExchangeClaims(c)
      \/ \E k \in Codes : finishCallback(k)
  BY DEF Next, vars, Tick, resendVerificationCode, ChangeTwoFactor, SetActive, forgotPassword,
     verifyEmail, login, loginWithGoogle, Issue, TwoFactorReads, TwoFactorWrites, RefreshReads, RefreshCommits,
     logout, changePassword, ResetReads, ResetWrites, RevokeAll, InviteReads, InviteCommits, Terminate,
     ExchangeReads
<1> QED
  BY <1>1, <1>2, <1>3, <1>4

(* However many exchanges of one code run at once, one opens a session: the      *)
(* conditional update of exchangeCode admits a single claim.                    *)
THEOREM CodesOpenOnce == Spec => []SsoCodeOnce
<1>1. Init => CodeInv
  BY DEF Init, CodeInv
<1>2. CodeInv => SsoCodeOnce
  BY DEF CodeInv, SsoCodeOnce
<1> QED
  BY <1>1, <1>2, StepCode, AgeInvariant, PTL DEF Spec

-----------------------------------------------------------------------------
(* The limit on failed attempts.  An attempt that may still fail in the present  *)
(* window of its key is live.                                                   *)
Hits == [key : Keys, stale : BOOLEAN]
LiveIn(h, k) == {s \in Attempts : h[s] # None /\ h[s].key = k /\ ~h[s].stale}
Admitted(k) == failures[k] + Cardinality(LiveIn(hit, k))

LimiterTypes ==
    /\ clock \in Int /\ configured \in BOOLEAN
    /\ local \in [Keys -> [count : Nat, till : Int] \cup {None}]
    /\ remote \in [Keys -> [count : Int, till : Int \cup {None}] \cup {None}]
    /\ hit \in [Attempts -> Hits \cup {None}]
    /\ failures \in [Keys -> Nat]

(* A counter in Redis that counts anything expires within a window.             *)
CountersFade ==
    \A k \in Keys : remote[k] # None /\ remote[k].count > 0 =>
        remote[k].till # None /\ remote[k].till <= clock + Window

(* What the counter of a key in use has counted; Redis and memory are never both *)
(* in use for a key that no outage disturbed.                                   *)
Row(k) == IF configured THEN remote[k] ELSE local[k]
Tally(k) == IF Row(k) = None THEN 0 ELSE Row(k).count

(* What was and may still be failed was counted, and is no more than the limit.  *)
Counted(k) ==
    /\ answers /\ (configured => \A j \in Keys : local[j] = None)
    /\ Admitted(k) <= Max /\ Admitted(k) <= Tally(k)

LimitInv == LimiterTypes /\ CountersFade /\ \A k \in Keys : k \notin disturbed => Counted(k)

LEMMA LiveCount ==
  ASSUME NEW h, NEW k
  PROVE  IsFiniteSet(LiveIn(h, k)) /\ Cardinality(LiveIn(h, k)) \in Nat
<1>1. IsFiniteSet(LiveIn(h, k))
  BY LimiterAssumption, FS_Subset DEF LiveIn
<1> QED
  BY <1>1, FS_CardinalityType

LEMMA RowsAreSome ==
  /\ \A r \in [count : Nat, till : Int] : r # None
  /\ \A r \in [count : Int, till : Int \cup {None}] : r # None
  /\ \A r \in Hits : r # None
<1>1. [count : Nat, till : Int] \subseteq [count : Int, till : Int \cup {None}]
  OBVIOUS
<1> QED
  BY <1>1, LimiterAssumption DEF Hits

(* What the end of some windows, an admission and an answer do to the attempts.  *)
Aged(h, ks) == [s \in Attempts |-> IF h[s] # None /\ h[s].key \in ks THEN [h[s] EXCEPT !.stale = TRUE] ELSE h[s]]

LEMMA WindowsEnd ==
  ASSUME NEW h \in [Attempts -> Hits \cup {None}], NEW ks
  PROVE  /\ Aged(h, ks) \in [Attempts -> Hits \cup {None}]
         /\ \A s \in Attempts : h[s] = None => Aged(h, ks)[s] = None
         /\ \A k \in ks : LiveIn(Aged(h, ks), k) = {}
         /\ \A k : k \notin ks => LiveIn(Aged(h, ks), k) = LiveIn(h, k)
<1>1. ASSUME NEW s \in Attempts, h[s] # None
      PROVE  /\ [h[s] EXCEPT !.stale = TRUE] \in Hits
             /\ [h[s] EXCEPT !.stale = TRUE].key = h[s].key /\ [h[s] EXCEPT !.stale = TRUE].stale = TRUE
  BY <1>1 DEF Hits
<1>2. \A s \in Attempts :
         Aged(h, ks)[s] = IF h[s] # None /\ h[s].key \in ks THEN [h[s] EXCEPT !.stale = TRUE] ELSE h[s]
  BY DEF Aged
<1>3. Aged(h, ks) \in [Attempts -> Hits \cup {None}]
  BY <1>1 DEF Aged
<1>4. \A s \in Attempts : h[s] = None => Aged(h, ks)[s] = None
  BY <1>2
<1>5. \A k \in ks : LiveIn(Aged(h, ks), k) = {}
  BY <1>1, <1>2 DEF LiveIn
<1>6. ASSUME NEW k, k \notin ks PROVE LiveIn(Aged(h, ks), k) = LiveIn(h, k)
  BY <1>1, <1>2, <1>6, RowsAreSome DEF LiveIn
<1> QED
  BY <1>3, <1>4, <1>5, <1>6

LetIn(h, s, k) == [h EXCEPT ![s] = [key |-> k, stale |-> FALSE]]

LEMMA OneAdmitted ==
  ASSUME NEW h \in [Attempts -> Hits \cup {None}], NEW s \in Attempts, h[s] = None, NEW k \in Keys
  PROVE  /\ LetIn(h, s, k) \in [Attempts -> Hits \cup {None}]
         /\ Cardinality(LiveIn(LetIn(h, s, k), k)) = Cardinality(LiveIn(h, k)) + 1
         /\ \A j : j # k => LiveIn(LetIn(h, s, k), j) = LiveIn(h, j)
<1>1. [key |-> k, stale |-> FALSE] \in Hits /\ [key |-> k, stale |-> FALSE] # None
  BY RowsAreSome DEF Hits
<1>2. LetIn(h, s, k) \in [Attempts -> Hits \cup {None}]
  BY <1>1 DEF LetIn
<1>3. LiveIn(LetIn(h, s, k), k) = LiveIn(h, k) \cup {s} /\ s \notin LiveIn(h, k)
  BY <1>1 DEF LiveIn, LetIn
<1>4. \A j : j # k => LiveIn(LetIn(h, s, k), j) = LiveIn(h, j)
  BY <1>1 DEF LiveIn, LetIn
<1> QED
  BY <1>2, <1>3, <1>4, LiveCount, FS_AddElement

LEMMA OneAnswered ==
  ASSUME NEW h \in [Attempts -> Hits \cup {None}], NEW s \in Attempts, h[s] # None
  PROVE  LET g == [h EXCEPT ![s] = None] IN
         /\ g \in [Attempts -> Hits \cup {None}] /\ h[s] \in Hits
         /\ Cardinality(LiveIn(g, h[s].key)) =
               Cardinality(LiveIn(h, h[s].key)) - (IF h[s].stale THEN 0 ELSE 1)
         /\ \A j : j # h[s].key => LiveIn(g, j) = LiveIn(h, j)
<1> DEFINE g == [h EXCEPT ![s] = None]
<1>1. g \in [Attempts -> Hits \cup {None}] /\ h[s] \in Hits
  OBVIOUS
<1>2. \A k : LiveIn(g, k) = LiveIn(h, k) \ {s}
  BY DEF LiveIn
<1>3. \A k : s \in LiveIn(h, k) <=> h[s].key = k /\ ~h[s].stale
  BY DEF LiveIn
<1>4. \A j : j # h[s].key => LiveIn(g, j) = LiveIn(h, j)
  BY <1>2, <1>3
<1>5. Cardinality(LiveIn(g, h[s].key)) = Cardinality(LiveIn(h, h[s].key)) - (IF h[s].stale THEN 0 ELSE 1)
  <2> DEFINE l == LiveIn(h, h[s].key)
  <2>1. IsFiniteSet(l) /\ Cardinality(l) \in Nat
    BY LiveCount
  <2>2. LiveIn(g, h[s].key) = l \ {s} /\ (s \in l <=> ~h[s].stale)
    BY <1>2, <1>3
  <2>3. Cardinality(l \ {s}) = IF s \in l THEN Cardinality(l) - 1 ELSE Cardinality(l)
    BY <2>1, FS_RemoveElement
  <2> HIDE DEF l
  <2>4. Cardinality(l \ {s}) = Cardinality(l) - (IF h[s].stale THEN 0 ELSE 1)
    BY <2>1, <2>2, <2>3
  <2> QED
    BY <2>2, <2>4 DEF l
<1> QED
  BY <1>1, <1>4, <1>5

-----------------------------------------------------------------------------
(* A key whose window ended starts again; one that a step leaves alone stays.    *)
LEMMA KeyRenewed ==
  ASSUME LimiterTypes', NEW k \in Keys, answers', configured' => \A j \in Keys : local'[j] = None,
         failures'[k] = 0, LiveIn(hit', k) = {}, Row(k)' # None => Row(k)'.count >= 0
  PROVE  Counted(k)'
<1>1. Cardinality(LiveIn(hit', k)) = 0
  BY FS_EmptySet
<1>2. Admitted(k)' = 0
  BY <1>1 DEF Admitted
<1>3. 0 <= Tally(k)'
  BY DEF Tally
<1> QED
  BY <1>2, <1>3, LimiterAssumption DEF Counted

LEMMA KeyKept ==
  ASSUME NEW k \in Keys, Counted(k), UNCHANGED <<answers, configured>>,
         configured' => \A j \in Keys : local'[j] = None,
         failures'[k] = failures[k], LiveIn(hit', k) = LiveIn(hit, k),
         local'[k] = local[k], remote'[k] = remote[k]
  PROVE  Counted(k)'
BY DEF Counted, Admitted, Tally, Row

-----------------------------------------------------------------------------
(* Time passes, and counters whose time is up are dropped.                      *)
LEMMA LimitTick == ASSUME LimitInv, L!Tick PROVE LimitInv'
<1> DEFINE gone == {k \in Keys : remote[k] # None /\ remote[k].till # None /\ remote[k].till <= clock'}
<1>1. /\ clock' = clock + 1 /\ UNCHANGED <<configured, answers, local, disturbed, outages>>
      /\ remote' = [k \in Keys |-> IF k \in gone THEN None ELSE remote[k]]
      /\ hit' = Aged(hit, gone) /\ failures' = [k \in Keys |-> IF k \in gone THEN 0 ELSE failures[k]]
  BY DEF L!Tick, L!Renew, Aged
<1> HIDE DEF gone
<1>2. /\ hit' \in [Attempts -> Hits \cup {None}]
      /\ \A k \in gone : LiveIn(hit', k) = {}
      /\ \A k : k \notin gone => LiveIn(hit', k) = LiveIn(hit, k)
  BY <1>1, WindowsEnd DEF LimitInv, LimiterTypes
<1>3. LimiterTypes'
  BY <1>1, <1>2 DEF LimitInv, LimiterTypes
<1>4. CountersFade'
  <2> SUFFICES ASSUME NEW k \in Keys, remote'[k] # None, remote'[k].count > 0
               PROVE  remote'[k].till # None /\ remote'[k].till <= clock' + Window
    BY DEF CountersFade
  <2>1. remote'[k] = remote[k]
    BY <1>1
  <2>2. remote[k].till # None /\ remote[k].till <= clock + Window /\ remote[k].till \in Int
    BY <2>1 DEF LimitInv, CountersFade, LimiterTypes
  <2> QED
    BY <1>1, <2>1, <2>2, LimiterAssumption DEF LimitInv, LimiterTypes
<1>5. ASSUME NEW k \in Keys, k \notin disturbed PROVE Counted(k)'
  <2>1. Counted(k)
    BY <1>5 DEF LimitInv
  <2>2. CASE k \in gone
    <3>1. failures'[k] = 0 /\ remote'[k] = None
      BY <1>1, <2>2
    <3>2. local[k] # None => local[k].count >= 0
      BY DEF LimitInv, LimiterTypes
    <3>3. Row(k)' # None => Row(k)'.count >= 0
      BY <1>1, <3>1, <3>2 DEF Row
    <3> QED
      BY <1>1, <1>2, <1>3, <2>1, <2>2, <3>1, <3>3, KeyRenewed DEF Counted
  <2>3. CASE k \notin gone
    BY <1>1, <1>2, <2>1, <2>3, KeyKept DEF Counted
  <2> QED
    BY <2>2, <2>3
<1> QED
  BY <1>1, <1>3, <1>4, <1>5 DEF LimitInv

LEMMA LimitSweep == ASSUME LimitInv, L!Sweep PROVE LimitInv'
<1> DEFINE gone == {k \in Keys : local[k] # None /\ clock > local[k].till}
<1>1. /\ UNCHANGED <<clock, configured, answers, remote, disturbed, outages>>
      /\ local' = [k \in Keys |-> IF k \in gone THEN None ELSE local[k]]
      /\ hit' = Aged(hit, gone) /\ failures' = [k \in Keys |-> IF k \in gone THEN 0 ELSE failures[k]]
      /\ gone # {}
  BY DEF L!Sweep, L!Renew, Aged
<1>2. \A k \in gone : k \in Keys /\ local[k] # None
  OBVIOUS
<1> HIDE DEF gone
<1>3. /\ hit' \in [Attempts -> Hits \cup {None}]
      /\ \A k \in gone : LiveIn(hit', k) = {}
      /\ \A k : k \notin gone => LiveIn(hit', k) = LiveIn(hit, k)
  BY <1>1, WindowsEnd DEF LimitInv, LimiterTypes
<1>4. LimiterTypes' /\ CountersFade'
  BY <1>1, <1>3 DEF LimitInv, LimiterTypes, CountersFade
<1>5. ASSUME NEW k \in Keys, k \notin disturbed PROVE Counted(k)'
  <2>1. Counted(k) /\ ~configured
    BY <1>1, <1>2, <1>5 DEF LimitInv, Counted
  <2>2. CASE k \in gone
    <3>1. failures'[k] = 0 /\ local'[k] = None
      BY <1>1, <2>2
    <3> QED
      BY <1>1, <1>3, <1>4, <2>1, <2>2, <3>1, KeyRenewed DEF Counted, Row
  <2>3. CASE k \notin gone
    BY <1>1, <1>3, <2>1, <2>3, KeyKept DEF Counted
  <2> QED
    BY <2>2, <2>3
<1> QED
  BY <1>1, <1>4, <1>5 DEF LimitInv

LEMMA LimitBroken == ASSUME LimitInv, L!Outage \/ L!Restart PROVE LimitInv'
<1>1. CASE L!Outage
  BY <1>1 DEF L!Outage, LimitInv, LimiterTypes, CountersFade
<1>2. CASE L!Restart
  <2>1. /\ UNCHANGED <<clock, configured, answers, remote, failures>>
        /\ local' = [k \in Keys |-> None] /\ hit' = [s \in Attempts |-> None]
        /\ disturbed' = IF configured THEN disturbed ELSE Keys
    BY <1>2 DEF L!Restart
  <2>2. LimiterTypes' /\ CountersFade'
    BY <2>1 DEF LimitInv, LimiterTypes, CountersFade
  <2>3. ASSUME NEW k \in Keys, k \notin disturbed' PROVE Counted(k)'
    <3>1. Counted(k) /\ configured
      BY <2>1, <2>3 DEF LimitInv
    <3>2. Cardinality(LiveIn(hit', k)) = 0
      <4>1. LiveIn(hit', k) = {}
        BY <2>1 DEF LiveIn
      <4> QED
        BY <4>1, FS_EmptySet
    <3>3. failures[k] \in Nat /\ Cardinality(LiveIn(hit, k)) \in Nat
      BY LiveCount DEF LimitInv, LimiterTypes
    <3>4. Admitted(k)' \in Nat /\ Admitted(k) \in Nat /\ Admitted(k)' <= Admitted(k)
      BY <2>1, <3>2, <3>3 DEF Admitted
    <3>5. Tally(k)' = Tally(k)
      BY <2>1, <3>1 DEF Tally, Row
    <3>6. Tally(k) \in Int
      BY DEF Tally, Row, LimitInv, LimiterTypes
    <3> QED
      BY <2>1, <3>1, <3>4, <3>5, <3>6, LimiterAssumption DEF Counted
  <2> QED
    BY <2>2, <2>3 DEF LimitInv
<1> QED
  BY <1>1, <1>2

-----------------------------------------------------------------------------
(* An attempt that the limiter lets in was counted.                              *)
LEMMA AttemptCounted ==
  ASSUME NEW h \in [Attempts -> Hits \cup {None}], NEW s \in Attempts, h[s] = None, NEW k \in Keys, NEW n \in Nat,
         hit' = L!Admit(s, k, n, h), failures' \in [Keys -> Nat],
         failures'[k] + Cardinality(LiveIn(h, k)) <= Max,
         failures'[k] + Cardinality(LiveIn(h, k)) <= n - 1
  PROVE  Admitted(k)' <= Max /\ Admitted(k)' <= n
<1>1. CASE n <= Max
  <2>1. hit' = LetIn(h, s, k)
    BY <1>1 DEF L!Admit, LetIn
  <2>2. Cardinality(LiveIn(LetIn(h, s, k), k)) = Cardinality(LiveIn(h, k)) + 1
    BY OneAdmitted
  <2>3. Cardinality(LiveIn(hit', k)) = Cardinality(LiveIn(h, k)) + 1
    BY <2>1, <2>2
  <2> QED
    BY <1>1, <2>3, LiveCount, LimiterAssumption DEF Admitted
<1>2. CASE ~(n <= Max)
  <2>1. hit' = h
    BY <1>2 DEF L!Admit
  <2> QED
    BY <1>2, <2>1, LiveCount, LimiterAssumption DEF Admitted
<1> QED
  BY <1>1, <1>2

LEMMA HitsAdmitted ==
  ASSUME NEW h \in [Attempts -> Hits \cup {None}], NEW s \in Attempts, h[s] = None, NEW k \in Keys, NEW n,
         hit' = L!Admit(s, k, n, h)
  PROVE  /\ hit' \in [Attempts -> Hits \cup {None}]
         /\ \A j : j # k => LiveIn(hit', j) = LiveIn(h, j)
<1>1. CASE n <= Max
  <2>1. /\ LetIn(h, s, k) \in [Attempts -> Hits \cup {None}]
        /\ \A j : j # k => LiveIn(LetIn(h, s, k), j) = LiveIn(h, j)
    BY OneAdmitted
  <2>2. hit' = LetIn(h, s, k)
    BY <1>1 DEF L!Admit, LetIn
  <2> QED
    BY <2>1, <2>2
<1>2. CASE ~(n <= Max)
  BY <1>2 DEF L!Admit
<1> QED
  BY <1>1, <1>2

LEMMA LimitLocal ==
  ASSUME LimitInv, NEW s \in Attempts, hit[s] = None, NEW k \in Keys, L!enforceLocal(s, k)
  PROVE  LimitInv'
<1>1. PICK kept \in L!Kept(k) :
         LET n == IF L!Over(k) THEN 1 ELSE local[k].count + 1
             till == IF L!Over(k) THEN clock + Window ELSE local[k].till
             gone == {j \in Keys \ {k} : local[j] # None /\ j \notin kept}
             ended == {j \in gone : clock > local[j].till} \cup (IF L!Over(k) THEN {k} ELSE {})
         IN /\ local' = [j \in Keys |-> IF j = k THEN [count |-> n, till |-> till]
                                        ELSE IF j \in gone THEN None ELSE local[j]]
            /\ hit' = L!Admit(s, k, n, Aged(hit, ended))
            /\ failures' = [j \in Keys |-> IF j \in ended THEN 0 ELSE failures[j]]
            /\ disturbed' = disturbed \cup (gone \ ended)
  BY DEF L!enforceLocal, Aged
<1>2. UNCHANGED <<clock, configured, answers, remote, outages>> /\ ~(configured /\ answers)
  BY DEF L!enforceLocal, L!InRedis
<1> DEFINE n == IF L!Over(k) THEN 1 ELSE local[k].count + 1
           till == IF L!Over(k) THEN clock + Window ELSE local[k].till
           gone == {j \in Keys \ {k} : local[j] # None /\ j \notin kept}
           ended == {j \in gone : clock > local[j].till} \cup (IF L!Over(k) THEN {k} ELSE {})
           aged == Aged(hit, ended)
<1>3. /\ local' = [j \in Keys |-> IF j = k THEN [count |-> n, till |-> till]
                                  ELSE IF j \in gone THEN None ELSE local[j]]
      /\ hit' = L!Admit(s, k, n, aged)
      /\ failures' = [j \in Keys |-> IF j \in ended THEN 0 ELSE failures[j]]
      /\ disturbed' = disturbed \cup (gone \ ended)
  BY <1>1
<1>4. /\ L!Over(k) => n = 1 /\ till = clock + Window /\ k \in ended
      /\ ~L!Over(k) => /\ local[k] # None /\ n = local[k].count + 1 /\ till = local[k].till
                       /\ k \notin ended
      /\ k \notin gone /\ ended \subseteq gone \cup {k}
  BY DEF L!Over
<1>5. n \in Nat /\ till \in Int
  BY <1>4, LimiterAssumption DEF LimitInv, LimiterTypes
<1> HIDE DEF n, till, gone, ended
<1>6. /\ aged \in [Attempts -> Hits \cup {None}] /\ aged[s] = None
      /\ \A j \in ended : LiveIn(aged, j) = {}
      /\ \A j : j \notin ended => LiveIn(aged, j) = LiveIn(hit, j)
  BY WindowsEnd DEF LimitInv, LimiterTypes
<1> HIDE DEF aged
<1>7. hit' \in [Attempts -> Hits \cup {None}] /\ \A j : j # k => LiveIn(hit', j) = LiveIn(aged, j)
  BY <1>3, <1>6, HitsAdmitted
<1>8. LimiterTypes' /\ CountersFade'
  BY <1>2, <1>3, <1>5, <1>7 DEF LimitInv, LimiterTypes, CountersFade
<1>9. local'[k] = [count |-> n, till |-> till] /\ local'[k] # None /\ local'[k].count = n
  BY <1>3, <1>5, RowsAreSome
<1>10. ASSUME NEW j \in Keys, j \notin disturbed' PROVE Counted(j)'
  <2>1. Counted(j) /\ ~configured /\ answers
    BY <1>2, <1>3, <1>10 DEF LimitInv, Counted
  <2>2. CASE j = k
    <3>1. failures'[k] + Cardinality(LiveIn(aged, k)) <= Max /\ failures'[k] + Cardinality(LiveIn(aged, k)) <= n - 1
      <4>1. CASE L!Over(k)
        <5>1. failures'[k] = 0 /\ LiveIn(aged, k) = {} /\ n = 1
          BY <1>3, <1>4, <1>6, <4>1
        <5> QED
          BY <5>1, FS_EmptySet, LimiterAssumption
      <4>2. CASE ~L!Over(k)
        <5>1. failures'[k] = failures[k] /\ LiveIn(aged, k) = LiveIn(hit, k) /\ n = local[k].count + 1 /\ local[k] # None
          BY <1>3, <1>4, <1>6, <4>2
        <5>2. failures[k] + Cardinality(LiveIn(hit, k)) <= Max
              /\ failures[k] + Cardinality(LiveIn(hit, k)) <= local[k].count /\ local[k].count \in Nat
          BY <2>1, <2>2, <5>1 DEF Counted, Admitted, Tally, Row, LimitInv, LimiterTypes
        <5> QED
          BY <5>1, <5>2
      <4> QED
        BY <4>1, <4>2
    <3>2. Admitted(k)' <= Max /\ Admitted(k)' <= n
      BY <1>3, <1>5, <1>6, <1>8, <3>1, AttemptCounted DEF LimiterTypes
    <3> QED
      BY <1>2, <1>9, <2>1, <2>2, <3>2 DEF Counted, Tally, Row
  <2>3. CASE j # k /\ j \in gone
    <3>1. j \in ended /\ failures'[j] = 0 /\ local'[j] = None
      BY <1>3, <1>10, <2>3
    <3>2. LiveIn(hit', j) = {}
      BY <1>6, <1>7, <2>3, <3>1
    <3> QED
      BY <1>2, <1>8, <2>1, <3>1, <3>2, KeyRenewed DEF Row
  <2>4. CASE j # k /\ j \notin gone
    <3>1. j \notin ended
      BY <1>4, <2>4
    <3>2. failures'[j] = failures[j] /\ local'[j] = local[j] /\ LiveIn(hit', j) = LiveIn(hit, j)
      BY <1>3, <1>6, <1>7, <2>4, <3>1
    <3> QED
      BY <1>2, <2>1, <3>2, KeyKept
  <2> QED
    BY <2>2, <2>3, <2>4
<1> QED
  BY <1>8, <1>10 DEF LimitInv

LEMMA LimitRedis ==
  ASSUME LimitInv, NEW s \in Attempts, hit[s] = None, NEW k \in Keys, L!enforceRedis(s, k)
  PROVE  LimitInv'
<1> DEFINE m == IF remote[k] = None THEN 0 ELSE remote[k].count
           n == m + 1
           till == IF n = 1 THEN clock + Window ELSE remote[k].till
           row == [count |-> n, till |-> till]
<1>1. /\ configured /\ answers
      /\ UNCHANGED <<clock, configured, answers, local, failures, disturbed, outages>>
  BY DEF L!enforceRedis, L!InRedis
<1>2. m \in Int /\ n \in Int
  BY DEF LimitInv, LimiterTypes
<1>3. L!Counted(k) = row
  BY DEF L!Counted
<1>4. till \in Int \cup {None} /\ (n > 0 => till # None /\ till <= clock + Window)
  <2>1. CASE n = 1
    BY <2>1, LimiterAssumption DEF LimitInv, LimiterTypes
  <2>2. CASE n # 1
    <3>1. remote[k] # None /\ till = remote[k].till /\ m = remote[k].count
      BY <2>2
    <3>2. n > 0 => m > 0
      BY <1>2, <2>2
    <3> QED
      BY <3>1, <3>2 DEF LimitInv, LimiterTypes, CountersFade
  <2> QED
    BY <2>1, <2>2
<1>5. remote' = [remote EXCEPT ![k] = row] /\ hit' = L!Admit(s, k, row.count, hit)
  BY <1>3 DEF L!enforceRedis
<1>6. row \in [count : Int, till : Int \cup {None}] /\ row.count = n /\ row.till = till
  BY <1>2, <1>4
<1> HIDE DEF m, till, row
<1>7. hit' \in [Attempts -> Hits \cup {None}] /\ \A j : j # k => LiveIn(hit', j) = LiveIn(hit, j)
  BY <1>5, HitsAdmitted DEF LimitInv, LimiterTypes
<1>8. LimiterTypes'
  BY <1>1, <1>5, <1>6, <1>7 DEF LimitInv, LimiterTypes
<1>9. CountersFade'
  <2>1. remote'[k] = row /\ \A j \in Keys : j # k => remote'[j] = remote[j]
    BY <1>5 DEF LimitInv, LimiterTypes
  <2> QED
    BY <1>1, <1>4, <1>6, <2>1 DEF LimitInv, CountersFade
<1>10. ASSUME NEW j \in Keys, j \notin disturbed PROVE Counted(j)'
  <2>1. Counted(j)
    BY <1>10 DEF LimitInv
  <2>2. CASE j = k
    <3>1. failures[k] + Cardinality(LiveIn(hit, k)) <= Max /\ failures[k] + Cardinality(LiveIn(hit, k)) <= m
      BY <1>1, <2>1, <2>2 DEF Counted, Admitted, Tally, Row, m
    <3>2. failures[k] \in Nat /\ Cardinality(LiveIn(hit, k)) \in Nat
      BY LiveCount DEF LimitInv, LimiterTypes
    <3>3. n \in Nat /\ failures'[k] + Cardinality(LiveIn(hit, k)) <= n - 1
      BY <1>1, <1>2, <3>1, <3>2
    <3>4. Admitted(k)' <= Max /\ Admitted(k)' <= n
      <4>1. hit' = L!Admit(s, k, n, hit) /\ hit \in [Attempts -> Hits \cup {None}] /\ failures' \in [Keys -> Nat]
        BY <1>5, <1>6, <1>8 DEF LimitInv, LimiterTypes
      <4> HIDE DEF n
      <4> QED
        BY <1>1, <3>1, <3>3, <4>1, AttemptCounted
    <3>5. Tally(k)' = n
      <4>1. remote'[k] = row /\ row # None
        BY <1>5, <1>6, RowsAreSome DEF LimitInv, LimiterTypes
      <4> QED
        BY <1>1, <1>6, <4>1 DEF Tally, Row
    <3> QED
      BY <1>1, <2>1, <2>2, <3>4, <3>5 DEF Counted
  <2>3. CASE j # k
    <3>1. remote'[j] = remote[j]
      BY <1>5, <2>3 DEF LimitInv, LimiterTypes
    <3> QED
      BY <1>1, <1>7, <2>1, <2>3, <3>1, KeyKept DEF Counted
  <2> QED
    BY <2>2, <2>3
<1> QED
  BY <1>1, <1>8, <1>9, <1>10 DEF LimitInv

LEMMA LimitFail ==
  ASSUME LimitInv, NEW s \in Attempts, L!Fail(s), NEW k \in Keys, k = hit[s].key
  PROVE  LimitInv'
<1> DEFINE d == IF hit[s].stale THEN 0 ELSE 1
<1>1. /\ hit[s] # None /\ hit' = [hit EXCEPT ![s] = None]
      /\ failures' = [failures EXCEPT ![k] = @ + d]
      /\ UNCHANGED <<clock, configured, answers, local, remote, disturbed, outages>>
  BY DEF L!Fail
<1>2. /\ hit' \in [Attempts -> Hits \cup {None}] /\ hit[s] \in Hits
      /\ Cardinality(LiveIn(hit', k)) = Cardinality(LiveIn(hit, k)) - d
      /\ \A j : j # k => LiveIn(hit', j) = LiveIn(hit, j)
  <2> DEFINE g == [hit EXCEPT ![s] = None]
  <2>1. /\ g \in [Attempts -> Hits \cup {None}] /\ hit[s] \in Hits
        /\ Cardinality(LiveIn(g, k)) = Cardinality(LiveIn(hit, k)) - d
        /\ \A j : j # k => LiveIn(g, j) = LiveIn(hit, j)
    <3>1. hit \in [Attempts -> Hits \cup {None}] /\ hit[s] # None
      BY <1>1 DEF LimitInv, LimiterTypes
    <3> QED
      BY <3>1, OneAnswered
  <2>2. hit' = g
    BY <1>1
  <2> QED
    BY <2>1, <2>2
<1>3. k \in Keys /\ d \in {0, 1}
  BY <1>2 DEF Hits
<1> HIDE DEF d
<1>4. LimiterTypes' /\ CountersFade'
  BY <1>1, <1>2, <1>3 DEF LimitInv, LimiterTypes, CountersFade
<1>5. ASSUME NEW j \in Keys, j \notin disturbed PROVE Counted(j)'
  <2>1. Counted(j)
    BY <1>5 DEF LimitInv
  <2>2. CASE j = k
    <3>1. failures'[k] = failures[k] + d /\ failures[k] \in Nat /\ Cardinality(LiveIn(hit, k)) \in Nat
      BY <1>1, <1>3, LiveCount DEF LimitInv, LimiterTypes
    <3>2. Admitted(k)' = Admitted(k)
      BY <1>2, <1>3, <3>1 DEF Admitted
    <3> QED
      BY <1>1, <2>1, <2>2, <3>2 DEF Counted, Tally, Row
  <2>3. CASE j # k
    <3>1. failures'[j] = failures[j]
      BY <1>1, <2>3 DEF LimitInv, LimiterTypes
    <3> QED
      BY <1>1, <1>2, <2>1, <2>3, <3>1, KeyKept DEF Counted
  <2> QED
    BY <2>2, <2>3
<1> QED
  BY <1>1, <1>4, <1>5 DEF LimitInv

LEMMA LimitSucceed ==
  ASSUME LimitInv, NEW s \in Attempts, L!Succeed(s), NEW k \in Keys, k = hit[s].key
  PROVE  LimitInv'
<1> DEFINE d == IF hit[s].stale THEN 0 ELSE 1
           less == [local[k] EXCEPT !.count = local[k].count - 1]
           row == L!Decremented(k)
<1>1. /\ hit[s] # None /\ hit' = [hit EXCEPT ![s] = None]
      /\ local' = IF local[k] # None /\ local[k].count > 0 THEN [local EXCEPT ![k] = less] ELSE local
      /\ remote' = IF configured /\ answers THEN [remote EXCEPT ![k] = row] ELSE remote
      /\ disturbed' = IF hit[s].stale THEN disturbed \cup {k} ELSE disturbed
      /\ UNCHANGED <<clock, configured, answers, failures, outages>>
  BY DEF L!Succeed, L!InRedis
<1>2. /\ hit' \in [Attempts -> Hits \cup {None}] /\ hit[s] \in Hits
      /\ Cardinality(LiveIn(hit', k)) = Cardinality(LiveIn(hit, k)) - d
      /\ \A j : j # k => LiveIn(hit', j) = LiveIn(hit, j)
  <2> DEFINE g == [hit EXCEPT ![s] = None]
  <2>1. /\ g \in [Attempts -> Hits \cup {None}] /\ hit[s] \in Hits
        /\ Cardinality(LiveIn(g, k)) = Cardinality(LiveIn(hit, k)) - d
        /\ \A j : j # k => LiveIn(g, j) = LiveIn(hit, j)
    <3>1. hit \in [Attempts -> Hits \cup {None}] /\ hit[s] # None
      BY <1>1 DEF LimitInv, LimiterTypes
    <3> QED
      BY <3>1, OneAnswered
  <2>2. hit' = g
    BY <1>1
  <2> QED
    BY <2>1, <2>2
<1>3. k \in Keys /\ d \in {0, 1} /\ hit[s].stale \in BOOLEAN
  BY <1>2 DEF Hits
<1>4. local[k] # None /\ local[k].count > 0 =>
        less \in [count : Nat, till : Int] /\ less.count = local[k].count - 1
  BY <1>3 DEF LimitInv, LimiterTypes
<1>5. /\ row \in [count : Int, till : Int \cup {None}]
      /\ remote[k] = None => row.count = -1
      /\ remote[k] # None => row.count = remote[k].count - 1 /\ row.till = remote[k].till
  BY <1>3 DEF L!Decremented, LimitInv, LimiterTypes
<1> HIDE DEF less, row
<1>6. LimiterTypes'
  BY <1>1, <1>2, <1>3, <1>4, <1>5 DEF LimitInv, LimiterTypes
<1>7. CountersFade'
  <2> SUFFICES ASSUME NEW j \in Keys, remote'[j] # None, remote'[j].count > 0
               PROVE  remote'[j].till # None /\ remote'[j].till <= clock + Window
    BY <1>1 DEF CountersFade
  <2>1. CASE remote'[j] = remote[j]
    BY <2>1 DEF LimitInv, CountersFade
  <2>2. CASE j = k /\ remote'[j] = row
    <3>1. remote[k] # None /\ remote[k].count \in Int /\ row.count = remote[k].count - 1 /\ row.till = remote[k].till
      BY <1>3, <1>5, <2>2 DEF LimitInv, LimiterTypes
    <3> QED
      BY <2>2, <3>1 DEF LimitInv, CountersFade
  <2> QED
    BY <1>1, <2>1, <2>2 DEF LimitInv, LimiterTypes
<1>8. ASSUME NEW j \in Keys, j \notin disturbed' PROVE Counted(j)'
  <2>1. Counted(j) /\ j \notin disturbed
    BY <1>1, <1>8 DEF LimitInv
  <2>2. configured => \A i \in Keys : local'[i] = None
    BY <1>1, <1>3, <2>1 DEF Counted
  <2>3. CASE j = k
    <3>1. d = 1
      BY <1>1, <1>3, <1>8, <2>3 DEF d
    <3>2. failures'[k] = failures[k] /\ failures[k] \in Nat /\ Cardinality(LiveIn(hit, k)) \in Nat
          /\ Cardinality(LiveIn(hit', k)) \in Nat
      BY <1>1, <1>3, LiveCount DEF LimitInv, LimiterTypes
    <3>3. Admitted(k)' = Admitted(k) - 1 /\ Admitted(k) \in Nat /\ Admitted(k) > 0
      BY <1>2, <3>1, <3>2 DEF Admitted
    <3>4. Row(k) # None /\ Row(k).count \in Int /\ Row(k).count >= Admitted(k)
      BY <1>3, <2>1, <2>3, <3>3 DEF Counted, Tally, Row, LimitInv, LimiterTypes
    <3>5. Row(k)' # None /\ Row(k)'.count = Row(k).count - 1
      <4>1. CASE configured
        <5>1. remote'[k] = row /\ remote[k] # None
          BY <1>1, <1>3, <2>1, <3>4, <4>1 DEF Row, Counted, LimitInv, LimiterTypes
        <5> QED
          BY <1>1, <1>5, <4>1, <5>1, RowsAreSome DEF Row
      <4>2. CASE ~configured
        <5>1. local[k] # None /\ local[k].count > 0
          BY <3>3, <3>4, <4>2 DEF Row
        <5>2. local'[k] = less
          BY <1>1, <1>3, <5>1 DEF LimitInv, LimiterTypes
        <5> QED
          BY <1>1, <1>4, <4>2, <5>1, <5>2, RowsAreSome DEF Row
      <4> QED
        BY <4>1, <4>2
    <3>6. Tally(k)' = Row(k).count - 1
      BY <3>5 DEF Tally
    <3>7. Admitted(k) <= Max
      BY <2>1, <2>3 DEF Counted
    <3>8. Admitted(k)' <= Max /\ Admitted(k)' <= Tally(k)'
      BY <3>3, <3>4, <3>6, <3>7, LimiterAssumption
    <3> QED
      BY <1>1, <2>1, <2>2, <2>3, <3>8 DEF Counted
  <2>4. CASE j # k
    <3>1. local'[j] = local[j] /\ remote'[j] = remote[j]
      BY <1>1, <2>4 DEF LimitInv, LimiterTypes
    <3> QED
      BY <1>1, <1>2, <2>1, <2>2, <2>4, <3>1, KeyKept
  <2> QED
    BY <2>3, <2>4
<1> QED
  BY <1>6, <1>7, <1>8 DEF LimitInv

LEMMA LimitStep == LimitInv /\ [L!Next]_(L!vars) => LimitInv'
<1> SUFFICES ASSUME LimitInv, [L!Next]_(L!vars) PROVE LimitInv'
  OBVIOUS
<1>1. CASE UNCHANGED L!vars
  BY <1>1 DEF L!vars, LimitInv, LimiterTypes, CountersFade, Counted, Admitted, Tally, Row
<1>2. ASSUME NEW s \in L!Free, NEW k \in Keys, L!enforceLocal(s, k) \/ L!enforceRedis(s, k) PROVE LimitInv'
  BY <1>2, LimitLocal, LimitRedis DEF L!Free
<1>3. ASSUME NEW s \in Attempts, L!Fail(s) \/ L!Succeed(s) PROVE LimitInv'
  <2>1. hit[s].key \in Keys
    BY <1>3 DEF L!Fail, L!Succeed, LimitInv, LimiterTypes, Hits
  <2> QED
    BY <1>3, <2>1, LimitFail, LimitSucceed
<1> QED
  BY <1>1, <1>2, <1>3, LimitTick, LimitSweep, LimitBroken DEF L!Next

(* In the whole of signing in, a counter that reached its limit expires, and no    *)
(* more attempts than the limit fail in a window of a key, however many are under *)
(* way, succeed or are refused, but for keys refunded late or whose counter was    *)
(* lost.                                                                        *)
THEOREM LimitsEnd == SignInSpec => []LimitEnds
<1>1. SignInInit => LimitInv
  <2> SUFFICES ASSUME L!Init PROVE LimitInv
    BY DEF SignInInit
  <2>1. LimiterTypes /\ CountersFade
    BY DEF L!Init, LimiterTypes, CountersFade
  <2>2. ASSUME NEW k \in Keys PROVE Counted(k)
    <3>1. LiveIn(hit, k) = {}
      BY DEF L!Init, LiveIn
    <3>2. Admitted(k) = 0 /\ Tally(k) = 0
      BY <3>1, FS_EmptySet DEF L!Init, Admitted, Tally, Row
    <3> QED
      BY <3>2, LimiterAssumption DEF L!Init, Counted
  <2> QED
    BY <2>1, <2>2 DEF LimitInv
<1>2. LimitInv /\ [SessionStep \/ LimiterStep \/ VerifierStep]_signInVars => LimitInv'
  <2>1. [SessionStep \/ LimiterStep \/ VerifierStep]_signInVars => [L!Next]_(L!vars)
    BY DEF SessionStep, LimiterStep, VerifierStep, signInVars, limiterVars, L!vars
  <2> QED
    BY <2>1, LimitStep
<1>3. LimitInv => LimitEnds
  <2> SUFFICES ASSUME LimitInv, NEW k \in Keys, k \notin disturbed PROVE failures[k] <= Max
    BY DEF LimitEnds, L!LimitEnds, LimitInv, CountersFade
  <2>1. Admitted(k) <= Max /\ failures[k] \in Nat /\ Cardinality(LiveIn(hit, k)) \in Nat
    BY LiveCount DEF LimitInv, LimiterTypes, Counted
  <2> QED
    BY <2>1, LimiterAssumption DEF Admitted
<1> QED
  BY <1>1, <1>2, <1>3, PTL DEF SignInSpec, signInVars

-----------------------------------------------------------------------------
(* The pool that compares passwords.  What a callback leaves before it looks at  *)
(* the queue, with f failed starts so far, is a record of these fields.          *)
Results == {"new", "open", "answered", "failed", "busy"}
Pools == [slots : SUBSET Workers, life : [Workers -> {"none", "live", "failed"}],
          job : [Workers -> Jobs \cup {None}], queue : Seq(Jobs), result : [Jobs -> Results]]

(* The pool holds the workers that live, no more than its size, and there are    *)
(* names for those that are missing.                                            *)
Lives(st) ==
    /\ \A w \in Workers : w \in st.slots <=> st.life[w] = "live"
    /\ \A w \in Workers \ st.slots : st.job[w] = None
    /\ Cardinality(st.slots) <= Size
    /\ Size <= Cardinality(st.slots) + Cardinality(V!Unused(st))

NobodyLost(st) ==
    \A j \in Jobs : st.result[j] = "open" =>
        (\E i \in DOMAIN st.queue : st.queue[i] = j) \/ \E w \in st.slots : st.job[w] = j

(* Only failed starts make the pool smaller, once it was filled. *)
Sized(st, f) == st.queue # <<>> => Size <= Cardinality(st.slots) + f

Looks(st, f) == st.queue # <<>> => (\E w \in st.slots : st.job[w] # None) \/ Size <= f

Holds(st, f) == st \in Pools /\ Lives(st) /\ NobodyLost(st) /\ Sized(st, f)

PoolInv == faults \in Nat /\ Holds(V!State, faults) /\ Looks(V!State, faults)

(* What an instance calls finite and how it counts is what this module does.    *)
LEMMA VCounts ==
  ASSUME NEW S
  PROVE  V!Cardinality(S) = Cardinality(S) /\ (V!IsFiniteSet(S) <=> IsFiniteSet(S))
BY DEF V!Cardinality, Cardinality, V!IsFiniteSet, IsFiniteSet

LEMMA PoolSize ==
  /\ Size \in Nat \ {0} /\ MaxQueue \in Nat /\ None \notin Jobs
  /\ IsFiniteSet(Workers) /\ Cardinality(Workers) >= Size
BY VerifierAssumption, VCounts DEF V!VerifierAssumption

LEMMA WorkersFinite ==
  ASSUME NEW S \in SUBSET Workers
  PROVE  IsFiniteSet(S) /\ Cardinality(S) \in Nat
<1>1. IsFiniteSet(S)
  BY PoolSize, FS_Subset
<1> QED
  BY <1>1, FS_CardinalityType

LEMMA PoolFields ==
  ASSUME NEW st, st \in Pools
  PROVE  /\ st.slots \in SUBSET Workers /\ st.life \in [Workers -> {"none", "live", "failed"}]
         /\ st.job \in [Workers -> Jobs \cup {None}] /\ st.queue \in Seq(Jobs)
         /\ st.result \in [Jobs -> Results]
         /\ IsFiniteSet(st.slots) /\ Cardinality(st.slots) \in Nat
         /\ IsFiniteSet(V!Unused(st)) /\ Cardinality(V!Unused(st)) \in Nat
BY WorkersFinite DEF Pools, V!Unused

(* What becomes of the pool is what a record says. *)
LEMMA Becoming ==
  ASSUME NEW st, st \in Pools, V!Becomes(st)
  PROVE  /\ V!State' = st /\ queue' = st.queue /\ slots' = st.slots /\ job' = st.job
         /\ life' = st.life /\ result' = st.result
BY DEF V!Becomes, V!State, Pools

LEMMA BecomesKeeps ==
  ASSUME NEW st, V!Becomes(st), faults' \in Nat, Holds(st, faults'), Looks(st, faults')
  PROVE  PoolInv'
<1>1. st \in Pools
  BY DEF Holds
<1>2. V!State' = st
  BY <1>1, Becoming
<1> QED
  BY <1>2 DEF PoolInv, Holds, Lives, NobodyLost, Sized, Looks, V!Unused

(* pump: jobs that leave the queue are shed or given to a worker, and some worker *)
(* is busy as long as one is left.                                              *)
LEMMA PumpKeeps ==
  ASSUME NEW st, V!Pump(st), faults' \in Nat, Holds(st, faults')
  PROVE  PoolInv'
<1> DEFINE first(n) == {st.queue[i] : i \in 1 .. n}
           after(n, given) == [st EXCEPT
              !.job = [w \in Workers |-> IF w \in V!Idle(st) THEN given[w] ELSE st.job[w]],
              !.queue = SubSeq(st.queue, n + 1, Len(st.queue)),
              !.result = [j \in Jobs |-> IF j \in first(n) \cap overdue THEN "busy" ELSE st.result[j]]]
<1>1. PICK n \in 0 .. Len(st.queue) : \E given \in [V!Idle(st) -> (first(n) \ overdue) \cup {None}] :
        /\ \A j \in first(n) \ overdue : \E w \in V!Idle(st) : \A v \in V!Idle(st) : given[v] = j <=> v = w
        /\ n > 0 => \E w \in V!Idle(st) : given[w] \in {None, st.queue[n]}
        /\ n < Len(st.queue) => \A w \in V!Idle(st) : given[w] # None
        /\ V!Becomes(after(n, given))
  BY Zenon DEF V!Pump
<1>2. PICK given \in [V!Idle(st) -> (first(n) \ overdue) \cup {None}] :
        /\ \A j \in first(n) \ overdue : \E w \in V!Idle(st) : \A v \in V!Idle(st) : given[v] = j <=> v = w
        /\ n < Len(st.queue) => \A w \in V!Idle(st) : given[w] # None
        /\ V!Becomes(after(n, given))
  BY <1>1, Zenon
<1>3. PICK t : t = first(n)
  OBVIOUS
<1>4. PICK pumped : pumped = after(n, given)
  OBVIOUS
<1>5. st \in Pools
  BY DEF Holds
<1>6. /\ pumped.slots = st.slots /\ pumped.life = st.life
      /\ pumped.job = [w \in Workers |-> IF w \in V!Idle(st) THEN given[w] ELSE st.job[w]]
      /\ pumped.queue = SubSeq(st.queue, n + 1, Len(st.queue))
      /\ pumped.result = [j \in Jobs |-> IF j \in t \cap overdue THEN "busy" ELSE st.result[j]]
      /\ pumped = [slots |-> pumped.slots, life |-> pumped.life, job |-> pumped.job,
                   queue |-> pumped.queue, result |-> pumped.result]
  BY <1>3, <1>4, <1>5 DEF Pools
<1>7. /\ t = {st.queue[i] : i \in 1 .. n} /\ given \in [V!Idle(st) -> (t \ overdue) \cup {None}]
      /\ \A j \in t \ overdue : \E w \in V!Idle(st) : given[w] = j
      /\ n < Len(st.queue) => \A w \in V!Idle(st) : given[w] # None
      /\ V!Becomes(pumped)
  BY <1>2, <1>3, <1>4
<1> HIDE DEF first, after
<1>8. t \in SUBSET Jobs /\ V!Idle(st) \in SUBSET Workers
  BY <1>5, <1>7, PoolFields DEF V!Idle
<1>9. /\ pumped.queue \in Seq(Jobs) /\ Len(pumped.queue) = Len(st.queue) - n
      /\ \A i \in 1 .. Len(st.queue) - n : pumped.queue[i] = st.queue[i + n]
  <2>1. \A i \in n + 1 .. Len(st.queue) : st.queue[i] \in Jobs
    BY <1>5, PoolFields
  <2>2. n + 1 \in Int /\ Len(st.queue) \in Nat
    BY <1>5, PoolFields
  <2>3. PICK q : q = st.queue
    OBVIOUS
  <2>4. \A i \in n + 1 .. Len(q) : q[i] \in Jobs
    BY <2>1, <2>3
  <2>5. /\ SubSeq(q, n + 1, Len(q)) \in Seq(Jobs)
        /\ Len(SubSeq(q, n + 1, Len(q))) = IF n + 1 <= Len(q) THEN Len(q) - (n + 1) + 1 ELSE 0
        /\ \A i \in 1 .. Len(q) - (n + 1) + 1 : SubSeq(q, n + 1, Len(q))[i] = q[n + 1 + i - 1]
    BY <2>2, <2>3, <2>4, SubSeqProperties
  <2>6. pumped.queue = SubSeq(q, n + 1, Len(q))
    BY <1>6, <2>3
  <2>7. n <= Len(q) /\ n \in Nat /\ Len(q) \in Nat
    BY <2>2, <2>3
  <2>8. PICK p : p = SubSeq(q, n + 1, Len(q))
    OBVIOUS
  <2>9. Len(p) = Len(q) - n
    BY <2>5, <2>7, <2>8
  <2>10. \A i \in 1 .. Len(q) - n : p[i] = q[i + n]
    <3>1. \A i \in 1 .. Len(q) - n : i \in 1 .. Len(q) - (n + 1) + 1 /\ n + 1 + i - 1 = i + n
      BY <2>7
    <3> QED
      BY <2>5, <2>8, <3>1
  <2> QED
    BY <2>3, <2>5, <2>6, <2>8, <2>9, <2>10
<1>10. pumped \in Pools
  <2>1. pumped.job \in [Workers -> Jobs \cup {None}]
    BY <1>5, <1>6, <1>7, <1>8, PoolFields
  <2>2. pumped.result \in [Jobs -> Results]
    BY <1>5, <1>6, PoolFields DEF Results
  <2> QED
    BY <1>5, <1>6, <1>9, <2>1, <2>2, PoolFields DEF Pools
<1>11. \A w \in Workers : pumped.job[w] = IF w \in V!Idle(st) THEN given[w] ELSE st.job[w]
  BY <1>6
<1>12. Lives(pumped)
  BY <1>6, <1>11 DEF Holds, Lives, V!Unused, V!Idle
<1>13. NobodyLost(pumped)
  <2> SUFFICES ASSUME NEW j \in Jobs, pumped.result[j] = "open",
                      ~ \E w \in pumped.slots : pumped.job[w] = j
               PROVE  \E i \in DOMAIN pumped.queue : pumped.queue[i] = j
    BY DEF NobodyLost
  <2>1. st.result[j] = "open" /\ j \notin t \cap overdue
    BY <1>6
  <2>2. j \notin t
    <3> SUFFICES ASSUME j \in t \ overdue PROVE FALSE
      BY <2>1
    <3>1. PICK w \in V!Idle(st) : given[w] = j
      BY <1>7
    <3> QED
      BY <1>6, <1>8, <1>11, <3>1 DEF V!Idle
  <2>3. ~ \E w \in st.slots : st.job[w] = j
    <3> SUFFICES ASSUME NEW w \in st.slots, st.job[w] = j PROVE FALSE
      OBVIOUS
    <3>1. w \notin V!Idle(st) /\ w \in Workers
      BY <1>5, PoolFields, PoolSize DEF V!Idle
    <3> QED
      BY <1>6, <1>11, <3>1
  <2>4. PICK i \in 1 .. Len(st.queue) : st.queue[i] = j
    BY <1>5, <2>1, <2>3, PoolFields DEF Holds, NobodyLost
  <2>5. ~ i <= n
    BY <1>7, <2>2, <2>4
  <2>6. i - n \in 1 .. Len(st.queue) - n /\ (i - n) + n = i
    BY <1>5, <2>5, PoolFields
  <2>7. pumped.queue[i - n] = j /\ i - n \in DOMAIN pumped.queue
    BY <1>9, <2>4, <2>6
  <2> QED
    BY <2>7
<1>14. pumped.queue # <<>> => st.queue # <<>> /\ n < Len(st.queue)
  BY <1>5, <1>9, PoolFields
<1>15. Sized(pumped, faults')
  BY <1>6, <1>14 DEF Holds, Sized
<1>16. Looks(pumped, faults')
  <2> SUFFICES ASSUME pumped.queue # <<>>, \A w \in st.slots : pumped.job[w] = None PROVE Size <= faults'
    BY <1>6 DEF Looks
  <2>1. st.slots = {}
    <3> SUFFICES ASSUME NEW w \in st.slots PROVE FALSE
      OBVIOUS
    <3>1. w \in Workers /\ pumped.job[w] = None
      BY <1>5, PoolFields
    <3> QED
      BY <1>7, <1>11, <1>14, <3>1 DEF V!Idle
  <2> QED
    BY <1>14, <2>1, FS_EmptySet, PoolSize DEF Holds, Sized
<1> QED
  BY <1>7, <1>10, <1>12, <1>13, <1>15, <1>16, BecomesKeeps DEF Holds

(* A finite set has a part of every size up to its own.                          *)
LEMMA PartOfSize ==
  ASSUME NEW S, IsFiniteSet(S), NEW n \in 0 .. Cardinality(S)
  PROVE  \E P \in SUBSET S : Cardinality(P) = n
<1>1. Cardinality(S) \in Nat /\ ExistsBijection(1 .. Cardinality(S), S)
  BY FS_CardinalityType
<1>2. PICK f \in Bijection(1 .. Cardinality(S), S) : TRUE
  BY <1>1 DEF ExistsBijection
<1>3. PICK P : P = {f[i] : i \in 1 .. n}
  OBVIOUS
<1>4. n \in Nat /\ 1 .. n \subseteq 1 .. Cardinality(S)
  BY <1>1
<1>5. P \in SUBSET S
  BY <1>2, <1>3, <1>4 DEF Bijection, Injection
<1>6. PICK g : g = [i \in 1 .. n |-> f[i]]
  OBVIOUS
<1>7. g \in Bijection(1 .. n, P)
  <2>1. g \in [1 .. n -> P] /\ \A t \in P : \E i \in 1 .. n : g[i] = t
    BY <1>3, <1>6
  <2>2. \A i, k \in 1 .. n : g[i] = g[k] => i = k
    BY <1>2, <1>4, <1>6 DEF Bijection, Injection, IsInjective
  <2> QED
    BY <2>1, <2>2 DEF Bijection, Injection, Surjection, IsInjective
<1>8. IsFiniteSet(1 .. n) /\ Cardinality(1 .. n) = n
  BY <1>4, FS_Interval
<1>9. Cardinality(P) = n
  BY <1>7, <1>8, FS_Bijection DEF ExistsBijection
<1> QED
  BY <1>5, <1>9

(* New workers are as many as were asked for, and change nothing else.            *)
LEMMA SpawnFields ==
  ASSUME NEW st, st \in Pools, NEW n \in 0 .. Cardinality(V!Unused(st))
  PROVE  \E N \in SUBSET V!Unused(st) :
            /\ Cardinality(N) = n
            /\ V!Spawn(st, n) = [slots |-> st.slots \cup N,
                  life |-> [w \in Workers |-> IF w \in N THEN "live" ELSE st.life[w]],
                  job |-> st.job, queue |-> st.queue, result |-> st.result]
<1>1. IsFiniteSet(V!Unused(st))
  BY PoolFields
<1>2. \E P \in SUBSET V!Unused(st) : V!Cardinality(P) = n
  <2>1. PICK P \in SUBSET V!Unused(st) : Cardinality(P) = n
    BY <1>1, PartOfSize
  <2> QED
    BY <2>1, VCounts
<1>3. PICK N : N = CHOOSE P \in SUBSET V!Unused(st) : V!Cardinality(P) = n
  OBVIOUS
<1>4. N \in SUBSET V!Unused(st) /\ Cardinality(N) = n
  BY <1>2, <1>3, VCounts
<1>5. V!Spawn(st, n) = [st EXCEPT !.slots = @ \cup N, !.life = [w \in Workers |-> IF w \in N THEN "live" ELSE @[w]]]
  BY <1>3 DEF V!Spawn
<1> QED
  BY <1>4, <1>5 DEF Pools

LEMMA SpawnKeeps ==
  ASSUME NEW st, st \in Pools, Lives(st), NobodyLost(st), NEW n \in Nat,
         Cardinality(st.slots) + n <= Size
  PROVE  /\ V!Spawn(st, n) \in Pools /\ Lives(V!Spawn(st, n)) /\ NobodyLost(V!Spawn(st, n))
         /\ Cardinality(V!Spawn(st, n).slots) = Cardinality(st.slots) + n
         /\ V!Spawn(st, n).queue = st.queue /\ V!Spawn(st, n).result = st.result
         /\ st.slots \subseteq V!Spawn(st, n).slots /\ V!Spawn(st, n).job = st.job
<1>1. n \in 0 .. Cardinality(V!Unused(st))
  BY PoolFields, PoolSize DEF Lives
<1>2. PICK N \in SUBSET V!Unused(st) :
            /\ Cardinality(N) = n
            /\ V!Spawn(st, n) = [slots |-> st.slots \cup N,
                  life |-> [w \in Workers |-> IF w \in N THEN "live" ELSE st.life[w]],
                  job |-> st.job, queue |-> st.queue, result |-> st.result]
  BY <1>1, SpawnFields
<1>3. PICK new : new = V!Spawn(st, n)
  OBVIOUS
<1>4. /\ new.slots = st.slots \cup N
      /\ new.life = [w \in Workers |-> IF w \in N THEN "live" ELSE st.life[w]]
      /\ new.job = st.job /\ new.queue = st.queue /\ new.result = st.result
      /\ new = [slots |-> new.slots, life |-> new.life, job |-> new.job,
                queue |-> new.queue, result |-> new.result]
  BY <1>2, <1>3
<1>5. N \in SUBSET Workers /\ st.slots \cap N = {} /\ IsFiniteSet(N)
  BY <1>2, WorkersFinite, PoolFields DEF V!Unused, Lives
<1>6. Cardinality(st.slots \cup N) = Cardinality(st.slots) + n
  <2>1. IsFiniteSet(st.slots) /\ Cardinality(st.slots) \in Nat
    BY PoolFields
  <2>2. PICK R : R = st.slots
    OBVIOUS
  <2>3. Cardinality(R \cup N) = Cardinality(R) + Cardinality(N) - Cardinality(R \cap N)
    BY <1>5, <2>1, <2>2, FS_Union
  <2>4. R \cap N = {}
    BY <1>5, <2>2
  <2>5. Cardinality(N) = n /\ Cardinality(R \cap N) = 0
    BY <1>2, <2>4, FS_EmptySet
  <2> QED
    BY <2>1, <2>2, <2>3, <2>5
<1>7. new \in Pools
  BY <1>4, <1>5, PoolFields DEF Pools
<1>8. V!Unused(new) = V!Unused(st) \ N
  BY <1>4, <1>5 DEF V!Unused
<1>9. Cardinality(V!Unused(new)) = Cardinality(V!Unused(st)) - n
  <2>1. V!Unused(st) \cap N = N
    BY <1>2
  <2> QED
    BY <1>2, <1>8, <2>1, FS_Difference, PoolFields
<1>10. Lives(new)
  <2>1. Cardinality(new.slots) <= Size /\ Size <= Cardinality(new.slots) + Cardinality(V!Unused(new))
    BY <1>4, <1>6, <1>9, PoolFields, PoolSize DEF Lives
  <2>2. \A w \in Workers : w \in new.slots <=> new.life[w] = "live"
    BY <1>4, <1>5 DEF Lives
  <2>3. \A w \in Workers \ new.slots : new.job[w] = None
    BY <1>4 DEF Lives
  <2> QED
    BY <2>1, <2>2, <2>3 DEF Lives
<1>11. NobodyLost(new)
  BY <1>4 DEF NobodyLost
<1> QED
  BY <1>3, <1>4, <1>6, <1>7, <1>10, <1>11

-----------------------------------------------------------------------------
LEMMA NowHolds == ASSUME PoolInv PROVE V!State \in Pools /\ Lives(V!State) /\ NobodyLost(V!State)
BY DEF PoolInv, Holds

LEMMA NowFields ==
  /\ V!State.slots = slots /\ V!State.life = life /\ V!State.job = job
  /\ V!State.queue = queue /\ V!State.result = result
BY DEF V!State

LEMMA Verifies ==
  ASSUME PoolInv, NEW j \in Jobs, V!VerifyPassword(j)
  PROVE  PoolInv'
<1>1. /\ V!State \in Pools /\ Lives(V!State) /\ NobodyLost(V!State)
      /\ Cardinality(slots) \in Nat /\ Cardinality(slots) <= Size
      /\ faults \in Nat /\ result[j] = "new"
  BY NowHolds, NowFields, PoolFields DEF Lives, PoolInv, V!VerifyPassword
<1>2. /\ queue # <<>> => Size <= Cardinality(slots) + faults
      /\ queue # <<>> => (\E w \in slots : job[w] # None) \/ Size <= faults
  BY NowFields DEF PoolInv, Holds, Sized, Looks
<1>3. CASE UNCHANGED faults
  <2>1. PICK full : full = V!Spawn(V!State, Size - V!Cardinality(slots))
    OBVIOUS
  <2> DEFINE shed == [full EXCEPT !.result[j] = "busy"]
             added == [full EXCEPT !.queue = Append(@, j), !.result[j] = "open"]
  <2>5. IF Len(queue) >= MaxQueue THEN V!Becomes(shed) ELSE V!Pump(added)
    <3>1. faults' # faults + 1
      BY <1>1, <1>3
    <3>2. LET new == V!Spawn(V!State, Size - V!Cardinality(slots))
          IN  IF Len(queue) >= MaxQueue
              THEN V!Becomes([new EXCEPT !.result[j] = "busy"])
              ELSE V!Pump([new EXCEPT !.queue = Append(@, j), !.result[j] = "open"])
      BY <3>1, Zenon DEF V!VerifyPassword
    <3> QED
      BY <2>1, <3>2
  <2>2. /\ full \in Pools /\ Lives(full) /\ NobodyLost(full) /\ Cardinality(full.slots) = Size
        /\ full.queue = queue /\ full.result = result
        /\ slots \subseteq full.slots /\ full.job = job
    BY <1>1, <2>1, VCounts, SpawnKeeps, NowFields, PoolSize
  <2>3. CASE Len(queue) >= MaxQueue
    <3>1. PICK st : st = shed
      OBVIOUS
    <3>2. V!Becomes(st)
      BY <2>3, <2>5, <3>1
    <3>3. /\ st.slots = full.slots /\ st.life = full.life /\ st.job = full.job /\ st.queue = full.queue
          /\ st.result = [full.result EXCEPT ![j] = "busy"]
          /\ st = [slots |-> st.slots, life |-> st.life, job |-> st.job, queue |-> st.queue, result |-> st.result]
      BY <2>2, <3>1 DEF Pools
    <3>4. st \in Pools
      BY <2>2, <3>3, PoolFields DEF Pools, Results
    <3>5. Lives(st) /\ NobodyLost(st)
      <4>1. \A i \in Jobs : st.result[i] = "open" => full.result[i] = "open"
        BY <2>2, <3>3, PoolFields
      <4> QED
        BY <2>2, <3>3, <4>1 DEF Lives, NobodyLost, V!Unused
    <3>6. Sized(st, faults') /\ Looks(st, faults')
      BY <1>1, <1>2, <1>3, <2>2, <3>3, PoolSize DEF Sized, Looks
    <3> QED
      BY <1>1, <1>3, <3>2, <3>4, <3>5, <3>6, BecomesKeeps DEF Holds
  <2>4. CASE ~ Len(queue) >= MaxQueue
    <3>1. PICK st : st = added
      OBVIOUS
    <3>2. V!Pump(st)
      BY <2>4, <2>5, <3>1
    <3>3. /\ st.slots = full.slots /\ st.life = full.life /\ st.job = full.job
          /\ st.queue = Append(full.queue, j)
          /\ st.result = [full.result EXCEPT ![j] = "open"]
          /\ st = [slots |-> st.slots, life |-> st.life, job |-> st.job, queue |-> st.queue, result |-> st.result]
      BY <2>2, <3>1 DEF Pools
    <3>4. /\ st.queue \in Seq(Jobs) /\ Len(st.queue) = Len(full.queue) + 1
          /\ \A i \in 1 .. Len(full.queue) : st.queue[i] = full.queue[i]
          /\ st.queue[Len(full.queue) + 1] = j
      <4>1. PICK q : q = full.queue
        OBVIOUS
      <4>2. q \in Seq(Jobs)
        BY <2>2, <4>1, PoolFields
      <4> QED
        BY <3>3, <4>1, <4>2, AppendProperties
    <3>5. st \in Pools
      <4>1. st.result \in [Jobs -> Results]
        BY <2>2, <3>3, PoolFields DEF Results
      <4> QED
        BY <2>2, <3>3, <3>4, <4>1, PoolFields DEF Pools
    <3>6. NobodyLost(st)
      <4> SUFFICES ASSUME NEW i \in Jobs, st.result[i] = "open", ~ \E w \in st.slots : st.job[w] = i
                   PROVE  \E m \in DOMAIN st.queue : st.queue[m] = i
        BY DEF NobodyLost
      <4>1. Len(full.queue) \in Nat /\ DOMAIN st.queue = 1 .. Len(full.queue) + 1
        BY <2>2, <3>4, PoolFields
      <4>2. CASE i = j
        BY <3>4, <4>1, <4>2
      <4>3. CASE i # j
        <5>1. full.result[i] = "open"
          BY <2>2, <3>3, <4>3, PoolFields
        <5>2. PICK m \in DOMAIN full.queue : full.queue[m] = i
          BY <2>2, <3>3, <5>1 DEF NobodyLost
        <5>3. m \in 1 .. Len(full.queue)
          BY <2>2, <5>2, PoolFields
        <5> QED
          BY <3>4, <4>1, <5>2, <5>3
      <4> QED
        BY <4>2, <4>3
    <3>7. Lives(st)
      BY <2>2, <3>3 DEF Lives, V!Unused
    <3>8. Sized(st, faults')
      BY <1>1, <1>3, <2>2, <3>3, PoolSize DEF Sized
    <3> QED
      BY <1>1, <1>3, <3>2, <3>5, <3>6, <3>7, <3>8, PumpKeeps DEF Holds
  <2> QED
    BY <2>3, <2>4
<1>4. CASE ~UNCHANGED faults
  <2>1. PICK n \in 0 .. Size - V!Cardinality(slots) - 1 :
            faults' = faults + 1 /\ V!Becomes([V!Spawn(V!State, n) EXCEPT !.result[j] = "answered"])
    BY <1>4 DEF V!VerifyPassword
  <2>2. PICK some : some = V!Spawn(V!State, n)
    OBVIOUS
  <2>3. PICK st : st = [some EXCEPT !.result[j] = "answered"]
    OBVIOUS
  <2>4. n \in Nat /\ Cardinality(slots) + n <= Size
    BY <1>1, <2>1, VCounts, PoolSize
  <2>5. /\ some \in Pools /\ Lives(some) /\ NobodyLost(some) /\ Cardinality(some.slots) = Cardinality(slots) + n
        /\ some.queue = queue /\ some.result = result /\ slots \subseteq some.slots /\ some.job = job
    BY <1>1, <2>2, <2>4, SpawnKeeps, NowFields
  <2>6. /\ st.slots = some.slots /\ st.life = some.life /\ st.job = some.job /\ st.queue = some.queue
        /\ st.result = [some.result EXCEPT ![j] = "answered"]
        /\ st = [slots |-> st.slots, life |-> st.life, job |-> st.job, queue |-> st.queue, result |-> st.result]
    BY <2>3, <2>5 DEF Pools
  <2>7. st \in Pools
    BY <2>5, <2>6, PoolFields DEF Pools, Results
  <2>8. Lives(st) /\ NobodyLost(st)
    <3>1. \A i \in Jobs : st.result[i] = "open" => some.result[i] = "open"
      BY <2>5, <2>6, PoolFields
    <3> QED
      BY <2>5, <2>6, <3>1 DEF Lives, NobodyLost, V!Unused
  <2>9. faults' \in Nat /\ faults' = faults + 1
    BY <1>1, <2>1
  <2>10. Sized(st, faults') /\ Looks(st, faults')
    <3> SUFFICES ASSUME st.queue # <<>> PROVE Sized(st, faults') /\ Looks(st, faults')
      BY DEF Sized, Looks
    <3>1. Size <= Cardinality(slots) + faults /\ ((\E w \in slots : job[w] # None) \/ Size <= faults)
      BY <1>2, <2>5, <2>6
    <3>2. Size <= Cardinality(st.slots) + faults'
      BY <1>1, <2>4, <2>5, <2>6, <2>9, <3>1, PoolSize
    <3>3. (\E w \in st.slots : st.job[w] # None) \/ Size <= faults'
      BY <1>1, <2>5, <2>6, <2>9, <3>1, PoolSize
    <3> QED
      BY <3>2, <3>3 DEF Sized, Looks
  <2>11. V!Becomes(st)
    BY <2>1, <2>2, <2>3
  <2> QED
    BY <2>7, <2>8, <2>9, <2>10, <2>11, BecomesKeeps DEF Holds
<1> QED
  BY <1>3, <1>4

LEMMA Answers ==
  ASSUME PoolInv, NEW w \in Workers, V!Message(w)
  PROVE  PoolInv'
<1>1. /\ V!State \in Pools /\ Lives(V!State) /\ NobodyLost(V!State) /\ Sized(V!State, faults)
      /\ faults \in Nat /\ faults' = faults /\ job[w] \in Jobs
  BY NowHolds, NowFields, PoolFields DEF PoolInv, Holds, V!Message
<1>2. PICK st : st = [V!State EXCEPT !.job[w] = None, !.result[job[w]] = "answered"]
  OBVIOUS
<1>3. V!Pump(st)
  BY <1>2 DEF V!Message
<1>4. /\ st.slots = slots /\ st.life = life /\ st.queue = queue
      /\ st.job = [job EXCEPT ![w] = None] /\ st.result = [result EXCEPT ![job[w]] = "answered"]
      /\ st = [slots |-> st.slots, life |-> st.life, job |-> st.job, queue |-> st.queue, result |-> st.result]
  BY <1>2 DEF V!State
<1>5. st \in Pools
  <2>1. job \in [Workers -> Jobs \cup {None}] /\ result \in [Jobs -> Results]
    BY <1>1, NowFields, PoolFields
  <2>2. st.job \in [Workers -> Jobs \cup {None}] /\ st.result \in [Jobs -> Results]
    BY <1>1, <1>4, <2>1 DEF Results
  <2> QED
    BY <1>1, <1>4, <2>2, NowFields, PoolFields DEF Pools
<1>6. NobodyLost(st)
  <2> SUFFICES ASSUME NEW j \in Jobs, st.result[j] = "open"
               PROVE  (\E i \in DOMAIN st.queue : st.queue[i] = j) \/ \E v \in st.slots : st.job[v] = j
    BY DEF NobodyLost
  <2>1. result[j] = "open" /\ j # job[w]
    BY <1>1, <1>4, NowFields, PoolFields
  <2>2. (\E i \in DOMAIN queue : queue[i] = j) \/ \E v \in slots : job[v] = j
    BY <1>1, <2>1, NowFields DEF NobodyLost
  <2>3. \A v \in slots : v \in Workers /\ (v # w => st.job[v] = job[v])
    BY <1>1, <1>4, NowFields, PoolFields
  <2> QED
    BY <1>4, <2>1, <2>2, <2>3
<1>7. Lives(st)
  <2>1. \A v \in Workers \ st.slots : st.job[v] = None
    BY <1>1, <1>4, NowFields, PoolFields DEF Lives
  <2> QED
    BY <1>1, <1>4, <2>1, NowFields DEF Lives, V!Unused
<1>8. Sized(st, faults')
  BY <1>1, <1>4, NowFields DEF Sized
<1> QED
  BY <1>1, <1>3, <1>5, <1>6, <1>7, <1>8, PumpKeeps DEF Holds

(* onDeath, once it is known what it leaves of the pool: no worker too many, none  *)
(* too few to be replaced, and at most one fewer than before.                    *)
LEMMA ReplacedKeeps ==
  ASSUME NEW st, st \in Pools, Lives(st), NobodyLost(st), faults \in Nat,
         st.queue # <<>> => Size <= Cardinality(st.slots) + 1 + faults,
         st.queue # <<>> /\ Cardinality(st.slots) >= Size => Size <= Cardinality(st.slots) + faults,
         \/ V!Pump(V!Replaced(st)) /\ faults' = faults
         \/ V!Cardinality(st.slots) < Size /\ faults' = faults + 1 /\ V!Pump(st)
  PROVE  PoolInv'
<1>1. Cardinality(st.slots) \in Nat /\ V!Cardinality(st.slots) = Cardinality(st.slots)
  BY PoolFields, VCounts
<1>2. CASE faults' = faults + 1 /\ V!Pump(st)
  <2>1. faults' \in Nat /\ Sized(st, faults')
    BY <1>1, <1>2, PoolSize DEF Sized
  <2> QED
    BY <1>2, <2>1, PumpKeeps DEF Holds
<1>3. CASE V!Pump(V!Replaced(st)) /\ faults' = faults
  <2>1. CASE Cardinality(st.slots) < Size
    <3>1. PICK new : new = V!Spawn(st, 1)
      OBVIOUS
    <3>2. V!Pump(new)
      BY <1>1, <1>3, <2>1, <3>1 DEF V!Replaced
    <3>3. /\ new \in Pools /\ Lives(new) /\ NobodyLost(new) /\ new.queue = st.queue
          /\ Cardinality(new.slots) = Cardinality(st.slots) + 1
      BY <1>1, <2>1, <3>1, SpawnKeeps, PoolSize
    <3>4. faults' \in Nat /\ Sized(new, faults')
      BY <1>3, <3>3 DEF Sized
    <3> QED
      BY <3>2, <3>3, <3>4, PumpKeeps DEF Holds
  <2>2. CASE ~ Cardinality(st.slots) < Size
    <3>1. V!Replaced(st) = st
      BY <1>1, <2>2 DEF V!Replaced
    <3>2. faults' \in Nat /\ Sized(st, faults') /\ V!Pump(st)
      BY <1>1, <1>3, <2>2, <3>1, PoolSize DEF Sized
    <3> QED
      BY <3>2, PumpKeeps DEF Holds
  <2> QED
    BY <2>1, <2>2
<1> QED
  BY <1>2, <1>3

LEMMA Dies ==
  ASSUME PoolInv, NEW w \in Workers, V!WorkerError(w) \/ V!WorkerExit(w)
  PROVE  PoolInv'
<1>1. /\ V!State \in Pools /\ Lives(V!State) /\ NobodyLost(V!State) /\ Sized(V!State, faults)
      /\ faults \in Nat
  BY NowHolds DEF PoolInv, Holds
<1>2. PICK after \in {"failed", "none"} :
        /\ V!OnDeath(w, after)
        /\ after = "failed" => life[w] = "live" /\ Cardinality(V!Unused(V!State)) >= Size
        /\ after = "none" => life[w] = "failed"
  BY VCounts DEF V!WorkerError, V!WorkerExit
<1>3. PICK st : st = [V!Buried(w) EXCEPT !.life[w] = after]
  OBVIOUS
<1>4. \/ V!Pump(V!Replaced(st)) /\ faults' = faults
      \/ V!Cardinality(st.slots) < Size /\ faults' = faults + 1 /\ V!Pump(st)
  BY <1>2, <1>3, Zenon DEF V!OnDeath
<1>5. /\ slots \in SUBSET Workers /\ life \in [Workers -> {"none", "live", "failed"}]
      /\ job \in [Workers -> Jobs \cup {None}] /\ result \in [Jobs -> Results]
      /\ Cardinality(slots) \in Nat
      /\ \A v \in Workers : v \in slots <=> life[v] = "live"
      /\ \A v \in Workers \ slots : job[v] = None
      /\ Cardinality(slots) <= Size /\ Size <= Cardinality(slots) + Cardinality(V!Unused(V!State))
      /\ Cardinality(V!Unused(V!State)) \in Nat
      /\ queue # <<>> => Size <= Cardinality(slots) + faults
  BY <1>1, NowFields, PoolFields DEF Lives, Sized
<1>6. /\ st.slots = slots \ {w} /\ st.life = [life EXCEPT ![w] = after] /\ st.queue = queue
      /\ st.job = [job EXCEPT ![w] = None]
      /\ st.result = IF job[w] = None THEN result ELSE [result EXCEPT ![job[w]] = "failed"]
      /\ st = [slots |-> st.slots, life |-> st.life, job |-> st.job, queue |-> st.queue, result |-> st.result]
  BY <1>3 DEF V!Buried, V!State
<1>7. st \in Pools
  <2>1. st.job \in [Workers -> Jobs \cup {None}] /\ st.result \in [Jobs -> Results]
    BY <1>5, <1>6 DEF Results
  <2>2. st.slots \in SUBSET Workers /\ st.life \in [Workers -> {"none", "live", "failed"}]
    BY <1>5, <1>6
  <2> QED
    BY <1>1, <1>6, <2>1, <2>2, NowFields, PoolFields DEF Pools
<1>8. IsFiniteSet(slots) /\ slots \in SUBSET Workers /\ IsFiniteSet(V!Unused(V!State))
  BY <1>1, NowFields, PoolFields
<1>9. \A v \in Workers : v \in st.slots <=> st.life[v] = "live"
  BY <1>2, <1>5, <1>6
<1>10. \A v \in Workers \ st.slots : st.job[v] = None
  BY <1>5, <1>6
<1>11. /\ Cardinality(st.slots) <= Size /\ Size <= Cardinality(st.slots) + Cardinality(V!Unused(st))
       /\ Cardinality(st.slots) \in Nat /\ Cardinality(st.slots) + 1 >= Cardinality(slots)
       /\ Cardinality(st.slots) >= Size => Cardinality(st.slots) = Cardinality(slots)
  <2>1. CASE after = "failed"
    <3>1. w \in slots
      BY <1>2, <1>5, <2>1
    <3>2. Cardinality(st.slots) = Cardinality(slots) - 1
      BY <1>6, <1>8, <3>1, FS_RemoveElement
    <3>3. V!Unused(st) = V!Unused(V!State)
      BY <1>2, <1>5, <1>6, <2>1, NowFields DEF V!Unused
    <3>4. Cardinality(V!Unused(st)) >= Size /\ Cardinality(V!Unused(st)) \in Nat
      BY <1>2, <1>5, <2>1, <3>3
    <3>5. Cardinality(st.slots) \in Nat
      BY <1>7, PoolFields
    <3> QED
      BY <1>5, <3>2, <3>4, <3>5, PoolSize
  <2>2. CASE after = "none"
    <3>1. w \notin slots
      BY <1>2, <1>5, <2>2
    <3>2. st.slots = slots
      BY <1>6, <3>1
    <3>3. V!Unused(V!State) \subseteq V!Unused(st)
      BY <1>2, <1>5, <1>6, <2>2, NowFields DEF V!Unused
    <3>4. Cardinality(V!Unused(V!State)) <= Cardinality(V!Unused(st)) /\ Cardinality(V!Unused(st)) \in Nat
      BY <1>7, <3>3, FS_Subset, PoolFields
    <3> QED
      BY <1>5, <3>2, <3>4, PoolSize
  <2> QED
    BY <1>2, <2>1, <2>2
<1>12. Lives(st)
  BY <1>9, <1>10, <1>11 DEF Lives
<1>13. NobodyLost(st)
  <2> SUFFICES ASSUME NEW j \in Jobs, st.result[j] = "open"
               PROVE  (\E i \in DOMAIN st.queue : st.queue[i] = j) \/ \E v \in st.slots : st.job[v] = j
    BY DEF NobodyLost
  <2>1. result[j] = "open" /\ j # job[w]
    BY <1>5, <1>6, PoolSize
  <2>2. (\E i \in DOMAIN queue : queue[i] = j) \/ \E v \in slots : job[v] = j
    BY <1>1, <2>1, NowFields DEF NobodyLost
  <2>3. \A v \in slots : v # w => v \in st.slots /\ st.job[v] = job[v]
    BY <1>5, <1>6
  <2> QED
    BY <1>6, <2>1, <2>2, <2>3
<1>14. /\ st.queue # <<>> => Size <= Cardinality(st.slots) + 1 + faults
       /\ st.queue # <<>> /\ Cardinality(st.slots) >= Size => Size <= Cardinality(st.slots) + faults
  BY <1>1, <1>5, <1>6, <1>11, PoolSize
<1> QED
  BY <1>1, <1>4, <1>7, <1>12, <1>13, <1>14, ReplacedKeeps

LEMMA PoolKept == ASSUME UNCHANGED <<slots, life, job, queue, result, faults>>, PoolInv PROVE PoolInv'
<1>1. V!State' = V!State /\ faults' = faults
  BY DEF V!State
<1> QED
  BY <1>1 DEF PoolInv, Holds, Lives, NobodyLost, Sized, Looks, V!Unused

LEMMA PoolStep == PoolInv /\ [V!Next]_(V!vars) => PoolInv'
<1> SUFFICES ASSUME PoolInv, [V!Next]_(V!vars) PROVE PoolInv'
  OBVIOUS
<1>1. CASE UNCHANGED V!vars \/ V!TimePasses
  BY <1>1, PoolKept DEF V!vars, V!TimePasses
<1>2. ASSUME NEW w \in Workers, V!Message(w) \/ V!WorkerError(w) \/ V!WorkerExit(w) PROVE PoolInv'
  BY <1>2, Answers, Dies
<1> QED
  BY <1>1, <1>2, Verifies DEF V!Next

(* In the whole of signing in, with any number of comparisons under way, however    *)
(* workers answer, die twice over or cannot be started: the pool keeps to its    *)
(* size, no comparison is lost to both the queue and the pool, and while one     *)
(* waits some worker has a job whose end will look at the queue.                  *)
THEOREM PoolStaysAtWork == SignInSpec => []PoolAtWork
<1>1. SignInInit => PoolInv
  <2> SUFFICES ASSUME V!Init PROVE PoolInv
    BY DEF SignInInit
  <2>1. V!State \in Pools
    BY DEF V!Init, V!State, Pools, Results
  <2>2. V!Unused(V!State) = Workers
    BY NowFields DEF V!Init, V!Unused
  <2>3. Lives(V!State)
    BY <2>2, NowFields, PoolSize, FS_EmptySet, WorkersFinite DEF V!Init, Lives
  <2>4. NobodyLost(V!State) /\ Sized(V!State, faults) /\ Looks(V!State, faults) /\ faults \in Nat
    BY NowFields DEF V!Init, NobodyLost, Sized, Looks
  <2> QED
    BY <2>1, <2>3, <2>4 DEF PoolInv, Holds
<1>2. PoolInv /\ [SessionStep \/ LimiterStep \/ VerifierStep]_signInVars => PoolInv'
  <2>1. [SessionStep \/ LimiterStep \/ VerifierStep]_signInVars => [V!Next]_(V!vars)
    BY DEF SessionStep, LimiterStep, VerifierStep, signInVars, verifierVars, V!vars
  <2> QED
    BY <2>1, PoolStep
<1>3. PoolInv => PoolAtWork
  <2> SUFFICES ASSUME PoolInv PROVE V!PoolAtWork
    BY DEF PoolAtWork
  <2>1. Cardinality(slots) <= Size
    BY NowFields DEF PoolInv, Holds, Lives
  <2>2. Looks(V!State, faults) /\ NobodyLost(V!State) /\ faults \in Nat
    BY DEF PoolInv, Holds
  <2> QED
    BY <2>1, <2>2, NowFields, VCounts, PoolSize DEF Looks, NobodyLost, V!PoolAtWork
<1> QED
  BY <1>1, <1>2, <1>3, PTL DEF SignInSpec, signInVars

-----------------------------------------------------------------------------
(* The people of a company.  What a request under way has read stays true while   *)
(* others write: its candidate and its employee stay, and keep their address.    *)
KnownIn(c, cs) == c \in Cands /\ cs[c] # Nobody
HiredIn(e, ss) == e \in Staff /\ ss[e] # Nobody
AcceptRead(r) == r.op = "accept" =>
    r = [op |-> "accept", cand |-> r.cand, stage |-> r.stage, docs |-> r.docs, emp |-> r.emp]

RequestFits(r, cs, ss) ==
    /\ r.op = "invite" => r.mail \in Mails
    /\ r.op \in {"profile", "upload", "accept", "decline", "verify", "activate"} => KnownIn(r.cand, cs)
    /\ r.op \in {"accept", "activate"} =>
          r.emp = Nobody \/ (HiredIn(r.emp, ss) /\ ss[r.emp].mail = cs[r.cand].mail)
    /\ AcceptRead(r)
    /\ r.op = "hire" => r.mails \in SUBSET Mails
    /\ r.op = "access" => r.to \in {"ACTIVE", "INACTIVE"} /\ \A e \in r.who : HiredIn(e, ss)

(* A candidate that has an employee has it alone, and has one once it accepted.   *)
LinkFits(c, cs, ss) ==
    /\ cs[c].emp # Nobody =>
          /\ cs[c].emp \in Staff /\ ss[cs[c].emp] # Nobody /\ ss[cs[c].emp].mail = cs[c].mail
          /\ \A d \in Cands \ {c} : cs[d] # Nobody => cs[d].emp # cs[c].emp
    /\ cs[c].stage \in {"OFFER_ACCEPTED", "ACTIVATED"} => cs[c].emp # Nobody

HireTypes ==
    /\ cand \in [Cands -> W!Candidate \cup {Nobody}]
    /\ staff \in [Staff -> W!Employee \cup {Nobody}]
    /\ DOMAIN handled = Desks /\ edits \in Nat

HireInv ==
    /\ HireTypes
    /\ \A c \in Cands : cand[c] # Nobody => LinkFits(c, cand, staff)
    /\ \A s \in Desks : RequestFits(handled[s], cand, staff)

(* Nobody who is known or hired is forgotten, or gets another address. *)
Stays(rows, after) == \A x \in DOMAIN rows : rows[x] # Nobody => after[x] # Nobody /\ after[x].mail = rows[x].mail

LEMMA WCounts ==
  ASSUME NEW S
  PROVE  W!Cardinality(S) = Cardinality(S) /\ (W!IsFiniteSet(S) <=> IsFiniteSet(S))
BY DEF W!Cardinality, Cardinality, W!IsFiniteSet, IsFiniteSet

LEMMA NobodyIsNone ==
  /\ Nobody \notin Mails /\ Nobody \notin Cands /\ Nobody \notin Staff
  /\ Nobody \notin W!Candidate /\ Nobody \notin W!Employee
  /\ IsFiniteSet(Staff) /\ Limit \in Nat
BY WorkforceAssumption, WCounts DEF W!WorkforceAssumption

LEMMA RequestsStay ==
  ASSUME HireInv, Stays(cand, cand'), Stays(staff, staff'), NEW t \in Desks
  PROVE  RequestFits(handled[t], cand', staff')
<1>1. PICK r : r = handled[t]
  OBVIOUS
<1>2. RequestFits(r, cand, staff) /\ DOMAIN cand = Cands /\ DOMAIN staff = Staff
  BY <1>1 DEF HireInv, HireTypes
<1>3. /\ \A c \in Cands : cand[c] # Nobody => cand'[c] # Nobody /\ cand'[c].mail = cand[c].mail
      /\ \A e \in Staff : staff[e] # Nobody => staff'[e] # Nobody /\ staff'[e].mail = staff[e].mail
  BY <1>2 DEF Stays
<1>4. /\ \A c : KnownIn(c, cand) => KnownIn(c, cand') /\ cand'[c].mail = cand[c].mail
      /\ \A e : HiredIn(e, staff) => HiredIn(e, staff') /\ staff'[e].mail = staff[e].mail
  BY <1>3 DEF KnownIn, HiredIn
<1>5. RequestFits(r, cand', staff')
  <2>1. r.op \in {"profile", "upload", "accept", "decline", "verify", "activate"} => KnownIn(r.cand, cand')
    BY <1>2, <1>4, Zenon DEF RequestFits
  <2>2. ASSUME r.op \in {"accept", "activate"}, HiredIn(r.emp, staff), staff[r.emp].mail = cand[r.cand].mail
        PROVE  HiredIn(r.emp, staff') /\ staff'[r.emp].mail = cand'[r.cand].mail
    <3>1. KnownIn(r.cand, cand)
      BY <1>2, <2>2 DEF RequestFits
    <3> QED
      BY <1>4, <2>2, <3>1
  <2>3. r.op = "access" => \A e \in r.who : HiredIn(e, staff')
    BY <1>2, <1>4, Zenon DEF RequestFits
  <2> QED
    BY <1>2, <2>1, <2>2, <2>3 DEF RequestFits
<1> QED
  BY <1>1, <1>5

(* A step that writes the request at one desk. *)
LEMMA HireStepFits ==
  ASSUME HireInv, Stays(cand, cand'), Stays(staff, staff'),
         cand' \in [Cands -> W!Candidate \cup {Nobody}], staff' \in [Staff -> W!Employee \cup {Nobody}],
         edits' \in Nat, \A c \in Cands : cand'[c] # Nobody => LinkFits(c, cand', staff'),
         NEW s \in Desks, NEW r, handled' = [handled EXCEPT ![s] = r], RequestFits(r, cand', staff')
  PROVE  HireInv'
<1>1. DOMAIN handled' = Desks /\ \A t \in Desks : handled'[t] = IF t = s THEN r ELSE handled[t]
  BY DEF HireInv, HireTypes
<1>2. \A t \in Desks : RequestFits(handled'[t], cand', staff')
  BY <1>1, RequestsStay
<1> QED
  BY <1>1, <1>2 DEF HireInv, HireTypes

LEMMA HireStepKeeps ==
  ASSUME HireInv, Stays(cand, cand'), Stays(staff, staff'),
         cand' \in [Cands -> W!Candidate \cup {Nobody}], staff' \in [Staff -> W!Employee \cup {Nobody}],
         edits' \in Nat, \A c \in Cands : cand'[c] # Nobody => LinkFits(c, cand', staff'), handled' = handled
  PROVE  HireInv'
<1>1. \A t \in Desks : RequestFits(handled'[t], cand', staff')
  BY RequestsStay
<1> QED
  BY <1>1 DEF HireInv, HireTypes

LEMMA NoRequestFits == RequestFits(W!NoReq, cand', staff')
BY DEF RequestFits, AcceptRead, W!NoReq

(* One candidate's row is written, perhaps with the account of its employee.      *)
LEMMA CandidateWritten ==
  ASSUME HireInv, Stays(staff, staff'), NEW c \in Cands, NEW new \in W!Candidate,
         cand' = [cand EXCEPT ![c] = new], cand[c] # Nobody => new.mail = cand[c].mail,
         new.emp # Nobody =>
            /\ new.emp \in Staff /\ staff'[new.emp] # Nobody /\ staff'[new.emp].mail = new.mail
            /\ \A d \in Cands \ {c} : cand[d] # Nobody => cand[d].emp # new.emp,
         new.stage \in {"OFFER_ACCEPTED", "ACTIVATED"} => new.emp # Nobody
  PROVE  /\ cand' \in [Cands -> W!Candidate \cup {Nobody}] /\ Stays(cand, cand')
         /\ \A d \in Cands : cand'[d] # Nobody => LinkFits(d, cand', staff')
<1>1. /\ cand \in [Cands -> W!Candidate \cup {Nobody}] /\ DOMAIN staff = Staff
      /\ \A d \in Cands : cand[d] # Nobody => LinkFits(d, cand, staff)
  BY DEF HireInv, HireTypes
<1>2. cand' \in [Cands -> W!Candidate \cup {Nobody}]
  BY <1>1
<1>3. \A d \in Cands : cand'[d] = IF d = c THEN new ELSE cand[d]
  BY <1>1
<1>4. new # Nobody
  BY NobodyIsNone
<1>5. Stays(cand, cand')
  BY <1>1, <1>3, <1>4 DEF Stays
<1>6. \A e \in Staff : staff[e] # Nobody => staff'[e] # Nobody /\ staff'[e].mail = staff[e].mail
  BY <1>1 DEF Stays
<1>7. ASSUME NEW d \in Cands, cand'[d] # Nobody PROVE LinkFits(d, cand', staff')
  <2>1. CASE d = c
    BY <1>3, <2>1 DEF LinkFits
  <2>2. CASE d # c
    <3>1. cand'[d] = cand[d] /\ LinkFits(d, cand, staff)
      BY <1>1, <1>3, <1>7, <2>2
    <3>2. \A x \in Cands \ {d} : cand'[x] # Nobody /\ cand[d].emp # Nobody => cand'[x].emp # cand[d].emp
      BY <1>3, <1>7, <2>2, <3>1 DEF LinkFits
    <3> QED
      BY <1>6, <3>1, <3>2 DEF LinkFits
  <2> QED
    BY <2>1, <2>2
<1> QED
  BY <1>2, <1>5, <1>7

LEMMA StaffWritten ==
  ASSUME HireInv, Stays(staff, staff'), cand' = cand
  PROVE  /\ cand' \in [Cands -> W!Candidate \cup {Nobody}] /\ Stays(cand, cand')
         /\ \A d \in Cands : cand'[d] # Nobody => LinkFits(d, cand', staff')
<1>1. /\ cand \in [Cands -> W!Candidate \cup {Nobody}] /\ DOMAIN staff = Staff
      /\ \A d \in Cands : cand[d] # Nobody => LinkFits(d, cand, staff)
  BY DEF HireInv, HireTypes
<1>2. \A e \in Staff : staff[e] # Nobody => staff'[e] # Nobody /\ staff'[e].mail = staff[e].mail
  BY <1>1 DEF Stays
<1>3. Stays(cand, cand')
  BY DEF Stays
<1> QED
  BY <1>1, <1>2, <1>3 DEF LinkFits

LEMMA StaffUnchanged == ASSUME HireInv, staff' = staff PROVE Stays(staff, staff') /\ staff' \in [Staff -> W!Employee \cup {Nobody}]
BY DEF HireInv, HireTypes, Stays

LEMMA KnownFits ==
  ASSUME HireInv, NEW c \in Cands, cand[c] # Nobody
  PROVE  cand[c] \in W!Candidate /\ LinkFits(c, cand, staff)
BY DEF HireInv, HireTypes

(* A new identity is one that nobody has. *)
LEMMA FreshIdentities ==
  ASSUME NEW S, NEW U, U \subseteq S, NEW x \in W!Fresh(S, U)
  PROVE  x \in S \ U
<1>1. S # U /\ x = CHOOSE y \in S \ U : TRUE
  BY DEF W!Fresh
<1>2. S \ U # {}
  BY <1>1
<1> QED
  BY <1>1, <1>2

(* New accounts leave the others alone. *)
LEMMA HiresKeep ==
  ASSUME HireInv, NEW f, \A m \in DOMAIN f : m \in Mails /\ f[m] \in Staff \ W!Hired, W!Hires(f)
  PROVE  /\ staff' \in [Staff -> W!Employee \cup {Nobody}] /\ Stays(staff, staff')
         /\ \A e \in Staff : (\A m \in DOMAIN f : f[m] # e) => staff'[e] = staff[e]
         /\ \A m \in DOMAIN f : staff'[f[m]] # Nobody
<1> DEFINE owner(e) == CHOOSE m \in DOMAIN f : f[m] = e
           new(e) == [mail |-> owner(e), status |-> "ACTIVE", login |-> TRUE, deleted |-> FALSE]
<1>1. staff' = [e \in Staff |-> IF \E m \in DOMAIN f : f[m] = e THEN new(e) ELSE staff[e]]
  BY Zenon DEF W!Hires
<1>2. ASSUME NEW e \in Staff, NEW m \in DOMAIN f, f[m] = e
      PROVE  new(e) \in W!Employee
  <2>1. owner(e) \in DOMAIN f
    BY <1>2
  <2>2. owner(e) \in Mails
    BY <2>1
  <2> HIDE DEF owner
  <2> QED
    BY <2>2 DEF W!Employee, W!Statuses, W!SeatStatuses
<1> HIDE DEF new
<1>3. staff \in [Staff -> W!Employee \cup {Nobody}] /\ DOMAIN staff = Staff
  BY DEF HireInv, HireTypes
<1>4. staff' \in [Staff -> W!Employee \cup {Nobody}]
  BY <1>1, <1>2, <1>3
<1>5. \A e \in Staff : staff[e] # Nobody => staff'[e] = staff[e]
  BY <1>1 DEF W!Hired
<1>6. Stays(staff, staff')
  BY <1>3, <1>5 DEF Stays
<1> QED
  BY <1>1, <1>2, <1>4, <1>6, NobodyIsNone

LEMMA HiresOneKeeps ==
  ASSUME HireInv, NEW m \in Mails, NEW e \in Staff \ W!Hired, W!HiresOne(m, e)
  PROVE  /\ staff' \in [Staff -> W!Employee \cup {Nobody}] /\ Stays(staff, staff')
         /\ staff'[e] # Nobody /\ staff'[e].mail = m
         /\ \A d \in Staff \ {e} : staff'[d] = staff[d]
<1>1. PICK f : f = [x \in {m} |-> e]
  OBVIOUS
<1>2. DOMAIN f = {m} /\ f[m] = e
  BY <1>1
<1>3. W!Hires(f)
  BY <1>1 DEF W!HiresOne
<1>4. /\ staff' \in [Staff -> W!Employee \cup {Nobody}] /\ Stays(staff, staff')
      /\ \A d \in Staff : (\A x \in DOMAIN f : f[x] # d) => staff'[d] = staff[d]
      /\ staff'[e] # Nobody
  BY <1>2, <1>3, HiresKeep
<1>5. staff'[e].mail = m
  <2>1. staff'[e] = [mail |-> CHOOSE x \in DOMAIN f : f[x] = e, status |-> "ACTIVE",
                     login |-> TRUE, deleted |-> FALSE]
    BY <1>2, <1>3 DEF W!Hires
  <2>2. (CHOOSE x \in DOMAIN f : f[x] = e) = m
    BY <1>2
  <2> QED
    BY <2>1, <2>2
<1> QED
  BY <1>2, <1>4, <1>5

-----------------------------------------------------------------------------
LEMMA StartFits ==
  ASSUME HireInv, NEW s \in Desks, NEW r, W!Starts(s, r), RequestFits(r, cand, staff)
  PROVE  HireInv'
<1>1. cand' = cand /\ staff' = staff /\ edits' = edits /\ handled' = [handled EXCEPT ![s] = r]
  BY DEF W!Starts
<1>2. RequestFits(r, cand', staff')
  BY <1>1
<1>3. edits' \in Nat
  BY <1>1 DEF HireInv, HireTypes
<1> QED
  BY <1>1, <1>2, <1>3, StaffUnchanged, StaffWritten, HireStepFits

LEMMA RequestsStart ==
  ASSUME HireInv, NEW s \in Desks,
         \/ \E m \in Mails : W!JoinerReads(s, m)
         \/ \E c \in Cands, op \in {"profile", "upload", "accept", "decline"} : W!PortalReads(s, c, op)
         \/ \E c \in Cands : W!VerifyReads(s, c) \/ W!ActivateReads(s, c)
         \/ \E M \in SUBSET Mails : W!HireReads(s, M)
         \/ \E E \in SUBSET Staff, to \in {"ACTIVE", "INACTIVE"} : W!AccessReads(s, E, to)
  PROVE  HireInv'
<1>1. ASSUME NEW m \in Mails, W!JoinerReads(s, m) PROVE HireInv'
  <2>1. PICK r : r = [op |-> "invite", mail |-> m]
    OBVIOUS
  <2>2. W!Starts(s, r)
    BY <1>1, <2>1 DEF W!JoinerReads
  <2>3. RequestFits(r, cand, staff)
    BY <2>1 DEF RequestFits, AcceptRead
  <2> QED
    BY <2>2, <2>3, StartFits
<1>2. ASSUME NEW c \in Cands, NEW op \in {"profile", "upload", "accept", "decline"}, W!PortalReads(s, c, op)
      PROVE  HireInv'
  <2>1. PICK r : r = [op |-> op, cand |-> c, stage |-> cand[c].stage, docs |-> cand[c].docs, emp |-> cand[c].emp]
    OBVIOUS
  <2>2. W!Starts(s, r) /\ cand[c] # Nobody
    BY <1>2, <2>1 DEF W!PortalReads, W!assertPortalCandidate, W!Known
  <2>3. LinkFits(c, cand, staff)
    BY <2>2, KnownFits
  <2>4. RequestFits(r, cand, staff)
    <3>1. /\ r.op = op /\ r.cand = c /\ r.emp = cand[c].emp
          /\ AcceptRead(r)
      BY <2>1 DEF AcceptRead
    <3>2. r.emp = Nobody \/ (HiredIn(r.emp, staff) /\ staff[r.emp].mail = cand[c].mail)
      BY <2>3, <3>1 DEF LinkFits, HiredIn
    <3>3. KnownIn(r.cand, cand)
      BY <2>2, <3>1 DEF KnownIn
    <3> QED
      BY <3>1, <3>2, <3>3 DEF RequestFits
  <2> QED
    BY <2>2, <2>4, StartFits
<1>3. ASSUME NEW c \in Cands, W!VerifyReads(s, c) PROVE HireInv'
  <2>1. PICK r : r = [op |-> "verify", cand |-> c]
    OBVIOUS
  <2>2. W!Starts(s, r) /\ cand[c] # Nobody
    BY <1>3, <2>1 DEF W!VerifyReads, W!Known
  <2>3. RequestFits(r, cand, staff)
    BY <2>1, <2>2 DEF RequestFits, AcceptRead, KnownIn
  <2> QED
    BY <2>2, <2>3, StartFits
<1>4. ASSUME NEW c \in Cands, W!ActivateReads(s, c) PROVE HireInv'
  <2>1. PICK e \in IF W!Holder(cand[c].mail) = {} THEN {Nobody} ELSE W!Holder(cand[c].mail) :
           W!Starts(s, [op |-> "activate", cand |-> c, emp |-> e])
    BY <1>4 DEF W!ActivateReads
  <2>2. PICK r : r = [op |-> "activate", cand |-> c, emp |-> e]
    OBVIOUS
  <2>3. cand[c] # Nobody
    BY <1>4 DEF W!ActivateReads, W!Known
  <2>4. e = Nobody \/ (HiredIn(e, staff) /\ staff[e].mail = cand[c].mail)
    BY <2>1 DEF W!Holder, W!Hired, HiredIn
  <2>5. RequestFits(r, cand, staff)
    BY <2>2, <2>3, <2>4 DEF RequestFits, AcceptRead, KnownIn
  <2> QED
    BY <2>1, <2>2, <2>5, StartFits
<1>5. ASSUME NEW M \in SUBSET Mails, W!HireReads(s, M) PROVE HireInv'
  <2>1. PICK r : r = [op |-> "hire", mails |-> {m \in M : W!Holder(m) = {}}]
    OBVIOUS
  <2>2. W!Starts(s, r)
    BY <1>5, <2>1 DEF W!HireReads
  <2>3. RequestFits(r, cand, staff)
    BY <2>1 DEF RequestFits, AcceptRead
  <2> QED
    BY <2>2, <2>3, StartFits
<1>6. ASSUME NEW E \in SUBSET Staff, NEW to \in {"ACTIVE", "INACTIVE"}, W!AccessReads(s, E, to) PROVE HireInv'
  <2>1. PICK r : r = [op |-> "access", who |-> E, to |-> to]
    OBVIOUS
  <2>2. W!Starts(s, r) /\ \A e \in E : staff[e] # Nobody
    BY <1>6, <2>1 DEF W!AccessReads, W!Eligible, W!Hired
  <2>3. RequestFits(r, cand, staff)
    BY <2>1, <2>2 DEF RequestFits, AcceptRead, HiredIn
  <2> QED
    BY <2>2, <2>3, StartFits
<1> QED
  BY <1>1, <1>2, <1>3, <1>4, <1>5, <1>6

(* What remains when a request ends: what it wrote must fit. *)
LEMMA EndFits ==
  ASSUME HireInv, NEW s \in Desks, W!Ends(s), Stays(cand, cand'), Stays(staff, staff'),
         cand' \in [Cands -> W!Candidate \cup {Nobody}], staff' \in [Staff -> W!Employee \cup {Nobody}],
         \A c \in Cands : cand'[c] # Nobody => LinkFits(c, cand', staff')
  PROVE  HireInv'
<1>1. edits' \in Nat /\ handled' = [handled EXCEPT ![s] = W!NoReq]
  BY DEF W!Ends, HireInv, HireTypes
<1>2. PICK r : r = W!NoReq
  OBVIOUS
<1>3. RequestFits(r, cand', staff')
  BY <1>2, NoRequestFits
<1> QED
  BY <1>1, <1>2, <1>3, HireStepFits

(* A write to the row of a known candidate that leaves its address and its        *)
(* employee, and accepts it only when it has one.                                *)
LEMMA StageWritten ==
  ASSUME HireInv, NEW c \in Cands, cand[c] # Nobody, NEW new \in W!Candidate,
         cand' = [cand EXCEPT ![c] = new], staff' = staff,
         new.mail = cand[c].mail, new.emp = cand[c].emp,
         new.stage \in {"OFFER_ACCEPTED", "ACTIVATED"} => new.emp # Nobody
  PROVE  /\ cand' \in [Cands -> W!Candidate \cup {Nobody}] /\ Stays(cand, cand') /\ Stays(staff, staff')
         /\ staff' \in [Staff -> W!Employee \cup {Nobody}]
         /\ \A d \in Cands : cand'[d] # Nobody => LinkFits(d, cand', staff')
<1>1. LinkFits(c, cand, staff)
  BY KnownFits
<1>2. new.emp # Nobody =>
            /\ new.emp \in Staff /\ staff'[new.emp] # Nobody /\ staff'[new.emp].mail = new.mail
            /\ \A d \in Cands \ {c} : cand[d] # Nobody => cand[d].emp # new.emp
  BY <1>1 DEF LinkFits
<1> QED
  BY <1>2, StaffUnchanged, CandidateWritten

LEMMA JoinerCommitsKeeps == ASSUME HireInv, NEW s \in Desks, W!JoinerCommits(s) PROVE HireInv'
<1>1. PICK c \in W!Fresh(Cands, W!Known) :
         cand' = [cand EXCEPT ![c] = [mail |-> handled[s].mail, stage |-> "INVITED", offer |-> FALSE,
                                      docs |-> FALSE, expired |-> FALSE, emp |-> Nobody]]
  BY DEF W!JoinerCommits
<1>2. PICK new : new = [mail |-> handled[s].mail, stage |-> "INVITED", offer |-> FALSE,
                        docs |-> FALSE, expired |-> FALSE, emp |-> Nobody]
  OBVIOUS
<1>3. handled[s].op = "invite" /\ RequestFits(handled[s], cand, staff)
  BY DEF W!JoinerCommits, HireInv
<1>4. handled[s].mail \in Mails
  BY <1>3 DEF RequestFits
<1>5. new \in W!Candidate /\ new.emp = Nobody /\ new.stage = "INVITED"
  BY <1>2, <1>4 DEF W!Candidate, W!Stages
<1>6. c \in Cands /\ cand[c] = Nobody
  <2>1. W!Known \subseteq Cands
    BY DEF W!Known
  <2>2. c \in Cands \ W!Known
    BY <2>1, FreshIdentities
  <2> QED
    BY <2>2 DEF W!Known
<1>7. staff' = staff /\ W!Ends(s)
  BY DEF W!JoinerCommits
<1> QED
  BY <1>1, <1>2, <1>5, <1>6, <1>7, StaffUnchanged, CandidateWritten, EndFits

(* The steps of a request under way at a desk whose candidate is known. *)
LEMMA KnownRequest ==
  ASSUME HireInv, NEW s \in Desks,
         handled[s].op \in {"profile", "upload", "accept", "decline", "verify", "activate"}
  PROVE  /\ handled[s].cand \in Cands /\ cand[handled[s].cand] # Nobody
         /\ cand[handled[s].cand] \in W!Candidate /\ LinkFits(handled[s].cand, cand, staff)
<1>1. RequestFits(handled[s], cand, staff)
  BY DEF HireInv
<1>2. KnownIn(handled[s].cand, cand)
  BY <1>1 DEF RequestFits
<1> QED
  BY <1>2, KnownFits DEF KnownIn

LEMMA PortalCommitsKeeps ==
  ASSUME HireInv, NEW s \in Desks,
         W!ProfileCommits(s) \/ W!UploadCommits(s) \/ W!DeclineCommits(s) \/ W!VerifyCommits(s)
  PROVE  HireInv'
<1>1. handled[s].op \in {"profile", "upload", "decline", "verify"} /\ staff' = staff /\ W!Ends(s)
  BY DEF W!ProfileCommits, W!UploadCommits, W!DeclineCommits, W!VerifyCommits
<1>2. PICK c : c = handled[s].cand
  OBVIOUS
<1>3. c \in Cands /\ cand[c] # Nobody /\ cand[c] \in W!Candidate /\ LinkFits(c, cand, staff)
  BY <1>1, <1>2, KnownRequest
<1>4. PICK row : row = cand[c]
  OBVIOUS
<1>5. CASE cand' = cand
  BY <1>1, <1>5, StaffUnchanged, StaffWritten, EndFits
<1>6. CASE \E stage \in W!Stages, docs \in BOOLEAN :
             /\ cand' = [cand EXCEPT ![c] = [row EXCEPT !.stage = stage, !.docs = docs]]
             /\ stage \notin {"OFFER_ACCEPTED", "ACTIVATED"} \/ stage = row.stage
  <2>1. PICK stage \in W!Stages, docs \in BOOLEAN :
             /\ cand' = [cand EXCEPT ![c] = [row EXCEPT !.stage = stage, !.docs = docs]]
             /\ stage \notin {"OFFER_ACCEPTED", "ACTIVATED"} \/ stage = row.stage
    BY <1>6
  <2>2. PICK new : new = [row EXCEPT !.stage = stage, !.docs = docs]
    OBVIOUS
  <2>3. new \in W!Candidate /\ new.mail = row.mail /\ new.emp = row.emp /\ new.stage = stage
    BY <1>3, <1>4, <2>2 DEF W!Candidate
  <2>4. new.stage \in {"OFFER_ACCEPTED", "ACTIVATED"} => new.emp # Nobody
    BY <1>3, <1>4, <2>1, <2>3 DEF LinkFits
  <2>5. cand' = [cand EXCEPT ![c] = new]
    BY <2>1, <2>2
  <2>6. /\ cand' \in [Cands -> W!Candidate \cup {Nobody}] /\ Stays(cand, cand') /\ Stays(staff, staff')
        /\ staff' \in [Staff -> W!Employee \cup {Nobody}]
        /\ \A d \in Cands : cand'[d] # Nobody => LinkFits(d, cand', staff')
    BY <1>1, <1>3, <1>4, <2>3, <2>4, <2>5, StageWritten
  <2> QED
    BY <1>1, <2>6, EndFits
<1>7. row.stage \in W!Stages /\ row.docs \in BOOLEAN /\ row = [row EXCEPT !.docs = row.docs]
  BY <1>3, <1>4 DEF W!Candidate
<1>8. ASSUME NEW stage \in W!Stages \ {"OFFER_ACCEPTED", "ACTIVATED"},
             cand' = [cand EXCEPT ![c].stage = stage]
      PROVE  HireInv'
  <2>1. cand' = [cand EXCEPT ![c] = [row EXCEPT !.stage = stage, !.docs = row.docs]]
    <3>1. [row EXCEPT !.stage = stage, !.docs = row.docs] = [row EXCEPT !.stage = stage]
      BY <1>3, <1>4 DEF W!Candidate
    <3> QED
      BY <1>4, <1>8, <3>1
  <2> QED
    BY <1>6, <1>7, <2>1
<1>9. CASE W!ProfileCommits(s)
  <2>1. \/ cand' = cand
        \/ \E stage \in {"UNDER_HR_REVIEW", "PROFILE_SUBMITTED"} : cand' = [cand EXCEPT ![c].stage = stage]
    BY <1>2, <1>9 DEF W!ProfileCommits
  <2> QED
    BY <1>5, <1>8, <2>1 DEF W!Stages
<1>10. CASE W!UploadCommits(s)
  <2>1. PICK to : to = IF handled[s].stage = "PROFILE_SUBMITTED" THEN "UNDER_HR_REVIEW" ELSE row.stage
    OBVIOUS
  <2>2. cand' = [cand EXCEPT ![c].docs = TRUE, ![c].stage = to]
    BY <1>2, <1>4, <1>10, <2>1 DEF W!UploadCommits
  <2>3. cand' = [cand EXCEPT ![c] = [row EXCEPT !.stage = to, !.docs = TRUE]]
    <3>1. [cand EXCEPT ![c].docs = TRUE][c] = [row EXCEPT !.docs = TRUE]
      BY <1>3, <1>4 DEF HireInv, HireTypes
    <3>2. cand' = [[cand EXCEPT ![c].docs = TRUE] EXCEPT ![c].stage = to]
      BY <2>2
    <3>3. [[row EXCEPT !.docs = TRUE] EXCEPT !.stage = to] = [row EXCEPT !.stage = to, !.docs = TRUE]
      BY <1>3, <1>4 DEF W!Candidate
    <3> QED
      BY <1>3, <3>1, <3>2, <3>3 DEF HireInv, HireTypes
  <2>4. to \in W!Stages /\ (to \notin {"OFFER_ACCEPTED", "ACTIVATED"} \/ to = row.stage)
    BY <1>7, <2>1 DEF W!Stages
  <2> QED
    BY <1>6, <2>3, <2>4
<1>11. CASE W!DeclineCommits(s) \/ W!VerifyCommits(s)
  <2>1. \E stage \in {"OFFER_REJECTED", "HR_VERIFIED", "REJECTED"} : cand' = [cand EXCEPT ![c].stage = stage]
    BY <1>2, <1>11 DEF W!DeclineCommits, W!VerifyCommits
  <2> QED
    BY <1>8, <2>1 DEF W!Stages
<1> QED
  BY <1>9, <1>10, <1>11

LEMMA OffersKeep ==
  ASSUME HireInv, NEW c \in Cands,
         \/ W!generateOfferLetter(c) \/ W!adminApproveAndGenerateOffer(c) \/ W!hrReviewAndSendOffer(c)
         \/ W!Expire(c)
  PROVE  HireInv'
<1>1. c \in Cands /\ cand[c] # Nobody /\ staff' = staff /\ edits' = edits /\ handled' = handled
  BY DEF W!generateOfferLetter, W!adminApproveAndGenerateOffer, W!hrReviewAndSendOffer, W!Expire,
         W!Known, W!AtOnce
<1>2. cand[c] \in W!Candidate /\ LinkFits(c, cand, staff)
  BY <1>1, KnownFits
<1>3. PICK row : row = cand[c]
  OBVIOUS
<1>4. \E new \in W!Candidate :
         /\ cand' = [cand EXCEPT ![c] = new] /\ new.mail = row.mail /\ new.emp = row.emp
         /\ new.stage \in {row.stage, "OFFER_GENERATED", "OFFER_SENT"}
  <2>1. CASE W!generateOfferLetter(c)
    <3>1. PICK new : new = [row EXCEPT !.offer = TRUE]
      OBVIOUS
    <3>2. cand' = [cand EXCEPT ![c] = new]
      BY <1>3, <2>1, <3>1 DEF W!generateOfferLetter
    <3>3. /\ new \in W!Candidate /\ new.mail = row.mail /\ new.emp = row.emp
          /\ new.stage \in {row.stage, "OFFER_GENERATED", "OFFER_SENT"}
      BY <1>2, <1>3, <3>1 DEF W!Candidate
    <3> QED
      BY <3>2, <3>3
  <2>2. CASE W!adminApproveAndGenerateOffer(c)
    <3>1. PICK new : new = [row EXCEPT !.stage = "OFFER_GENERATED", !.offer = TRUE]
      OBVIOUS
    <3>2. cand' = [cand EXCEPT ![c] = new]
      BY <1>1, <1>3, <2>2, <3>1 DEF W!adminApproveAndGenerateOffer, HireInv, HireTypes
    <3>3. /\ new \in W!Candidate /\ new.mail = row.mail /\ new.emp = row.emp
          /\ new.stage \in {row.stage, "OFFER_GENERATED", "OFFER_SENT"}
      BY <1>2, <1>3, <3>1 DEF W!Candidate, W!Stages
    <3> QED
      BY <3>2, <3>3
  <2>3. CASE W!hrReviewAndSendOffer(c)
    <3>1. PICK new : new = [row EXCEPT !.stage = "OFFER_SENT"]
      OBVIOUS
    <3>2. cand' = [cand EXCEPT ![c] = new]
      BY <1>3, <2>3, <3>1 DEF W!hrReviewAndSendOffer
    <3>3. /\ new \in W!Candidate /\ new.mail = row.mail /\ new.emp = row.emp
          /\ new.stage \in {row.stage, "OFFER_GENERATED", "OFFER_SENT"}
      BY <1>2, <1>3, <3>1 DEF W!Candidate, W!Stages
    <3> QED
      BY <3>2, <3>3
  <2>4. CASE W!Expire(c)
    <3>1. PICK new : new = [row EXCEPT !.expired = TRUE]
      OBVIOUS
    <3>2. cand' = [cand EXCEPT ![c] = new]
      BY <1>3, <2>4, <3>1 DEF W!Expire
    <3>3. /\ new \in W!Candidate /\ new.mail = row.mail /\ new.emp = row.emp
          /\ new.stage \in {row.stage, "OFFER_GENERATED", "OFFER_SENT"}
      BY <1>2, <1>3, <3>1 DEF W!Candidate
    <3> QED
      BY <3>2, <3>3
  <2> QED
    BY <2>1, <2>2, <2>3, <2>4
<1>5. PICK new \in W!Candidate :
         /\ cand' = [cand EXCEPT ![c] = new] /\ new.mail = row.mail /\ new.emp = row.emp
         /\ new.stage \in {row.stage, "OFFER_GENERATED", "OFFER_SENT"}
  BY <1>4
<1>6. new.stage \in {"OFFER_ACCEPTED", "ACTIVATED"} => new.emp # Nobody
  BY <1>2, <1>3, <1>5 DEF LinkFits
<1>7. /\ cand' \in [Cands -> W!Candidate \cup {Nobody}] /\ Stays(cand, cand') /\ Stays(staff, staff')
      /\ staff' \in [Staff -> W!Employee \cup {Nobody}]
      /\ \A d \in Cands : cand'[d] # Nobody => LinkFits(d, cand', staff')
  BY <1>1, <1>3, <1>5, <1>6, StageWritten
<1>8. edits' \in Nat
  BY <1>1 DEF HireInv, HireTypes
<1> QED
  BY <1>1, <1>7, <1>8, HireStepKeeps

LEMMA HiredUnion == W!Hired \subseteq Staff /\ \A e \in Staff : e \in W!Hired <=> staff[e] # Nobody
BY DEF W!Hired

LEMMA AcceptHiresKeeps == ASSUME HireInv, NEW s \in Desks, W!AcceptHires(s) PROVE HireInv'
<1>1. PICK e \in W!Fresh(Staff, W!Hired) :
         W!HiresOne(cand[handled[s].cand].mail, e) /\ handled' = [handled EXCEPT ![s].emp = e]
  BY DEF W!AcceptHires
<1>2. cand' = cand /\ edits' = edits /\ handled[s].op = "accept"
  BY DEF W!AcceptHires
<1>3. PICK c, m : c = handled[s].cand /\ m = cand[c].mail
  OBVIOUS
<1>4. c \in Cands /\ cand[c] # Nobody /\ m \in Mails
  BY <1>2, <1>3, KnownRequest DEF W!Candidate
<1>5. e \in Staff \ W!Hired
  BY HiredUnion, FreshIdentities
<1>6. /\ staff' \in [Staff -> W!Employee \cup {Nobody}] /\ Stays(staff, staff')
      /\ staff'[e] # Nobody /\ staff'[e].mail = m
  BY <1>1, <1>3, <1>4, <1>5, HiresOneKeeps
<1>7. RequestFits(handled[s], cand, staff)
  BY DEF HireInv
<1>8. PICK r : r = [op |-> "accept", cand |-> c, stage |-> handled[s].stage, docs |-> handled[s].docs, emp |-> e]
  OBVIOUS
<1>9. handled' = [handled EXCEPT ![s] = r]
  <2>1. handled[s] = [op |-> "accept", cand |-> c, stage |-> handled[s].stage, docs |-> handled[s].docs,
                      emp |-> handled[s].emp]
    BY <1>2, <1>3, <1>7 DEF RequestFits, AcceptRead
  <2>2. [handled[s] EXCEPT !.emp = e] = r
    BY <1>8, <2>1
  <2> QED
    BY <1>1, <2>2 DEF HireInv, HireTypes
<1>10. RequestFits(r, cand', staff')
  BY <1>2, <1>4, <1>5, <1>6, <1>8, <1>3 DEF RequestFits, AcceptRead, KnownIn, HiredIn
<1>11. /\ cand' \in [Cands -> W!Candidate \cup {Nobody}] /\ Stays(cand, cand') /\ edits' \in Nat
       /\ \A d \in Cands : cand'[d] # Nobody => LinkFits(d, cand', staff')
  BY <1>2, <1>6, StaffWritten DEF HireInv, HireTypes
<1> QED
  BY <1>6, <1>9, <1>10, <1>11, HireStepFits

LEMMA AcceptCommitsKeeps == ASSUME HireInv, NEW s \in Desks, W!AcceptCommits(s) PROVE HireInv'
<1>1. PICK c, e : c = handled[s].cand /\ e = handled[s].emp
  OBVIOUS
<1>2. /\ handled[s].op = "accept" /\ e # Nobody /\ W!Linkable(c, e) /\ staff' = staff /\ W!Ends(s)
      /\ cand' = [cand EXCEPT ![c].stage = "OFFER_ACCEPTED", ![c].emp = e]
  BY <1>1 DEF W!AcceptCommits
<1>3. c \in Cands /\ cand[c] # Nobody /\ cand[c] \in W!Candidate
  BY <1>1, <1>2, KnownRequest
<1>4. HiredIn(e, staff) /\ staff[e].mail = cand[c].mail
  <2>1. RequestFits(handled[s], cand, staff)
    BY DEF HireInv
  <2> QED
    BY <1>1, <1>2, <2>1 DEF RequestFits
<1>5. PICK new : new = [cand[c] EXCEPT !.stage = "OFFER_ACCEPTED", !.emp = e]
  OBVIOUS
<1>6. new \in W!Candidate /\ new.mail = cand[c].mail /\ new.emp = e
  BY <1>3, <1>4, <1>5 DEF W!Candidate, W!Stages, HiredIn
<1>7. cand' = [cand EXCEPT ![c] = new]
  <2>1. [cand EXCEPT ![c].stage = "OFFER_ACCEPTED"][c] = [cand[c] EXCEPT !.stage = "OFFER_ACCEPTED"]
    BY <1>3 DEF HireInv, HireTypes
  <2> QED
    BY <1>2, <1>3, <1>5, <2>1 DEF HireInv, HireTypes
<1>8. new.emp # Nobody =>
         /\ new.emp \in Staff /\ staff'[new.emp] # Nobody /\ staff'[new.emp].mail = new.mail
         /\ \A d \in Cands \ {c} : cand[d] # Nobody => cand[d].emp # new.emp
  BY <1>2, <1>4, <1>6 DEF HiredIn, W!Linkable, W!Known
<1>9. /\ cand' \in [Cands -> W!Candidate \cup {Nobody}] /\ Stays(cand, cand') /\ Stays(staff, staff')
      /\ staff' \in [Staff -> W!Employee \cup {Nobody}]
      /\ \A d \in Cands : cand'[d] # Nobody => LinkFits(d, cand', staff')
  BY <1>2, <1>3, <1>6, <1>7, <1>8, StaffUnchanged, CandidateWritten
<1> QED
  BY <1>2, <1>9, EndFits

LEMMA ActivateCommitsKeeps == ASSUME HireInv, NEW s \in Desks, W!ActivateCommits(s) PROVE HireInv'
<1>1. PICK c, was : c = handled[s].cand /\ was = handled[s].emp
  OBVIOUS
<1>2. PICK e \in IF was = Nobody THEN W!Fresh(Staff, W!Hired) ELSE {was} :
         /\ IF was = Nobody THEN W!assertSeatAvailable /\ W!HiresOne(cand[c].mail, e) ELSE staff' = staff
         /\ W!Linkable(c, e)
         /\ cand' = [cand EXCEPT ![c].stage = "ACTIVATED", ![c].emp = e, ![c].offer = TRUE]
  BY <1>1, Zenon DEF W!ActivateCommits
<1>3. handled[s].op = "activate" /\ W!Ends(s)
  BY DEF W!ActivateCommits
<1>4. c \in Cands /\ cand[c] # Nobody /\ cand[c] \in W!Candidate /\ cand[c].mail \in Mails
  BY <1>1, <1>3, KnownRequest DEF W!Candidate
<1>5. /\ staff' \in [Staff -> W!Employee \cup {Nobody}] /\ Stays(staff, staff')
      /\ e \in Staff /\ staff'[e] # Nobody /\ staff'[e].mail = cand[c].mail
  <2>1. CASE was = Nobody
    <3>1. e \in Staff \ W!Hired
      BY <1>2, <2>1, HiredUnion, FreshIdentities
    <3>2. W!HiresOne(cand[c].mail, e)
      BY <1>2, <2>1
    <3> QED
      BY <1>4, <3>1, <3>2, HiresOneKeeps
  <2>2. CASE was # Nobody
    <3>1. RequestFits(handled[s], cand, staff)
      BY DEF HireInv
    <3>2. HiredIn(was, staff) /\ staff[was].mail = cand[c].mail
      BY <1>1, <1>3, <2>2, <3>1 DEF RequestFits
    <3> QED
      BY <1>2, <2>2, <3>2, StaffUnchanged DEF HiredIn
  <2> QED
    BY <2>1, <2>2
<1>6. PICK new : new = [cand[c] EXCEPT !.stage = "ACTIVATED", !.emp = e, !.offer = TRUE]
  OBVIOUS
<1>7. new \in W!Candidate /\ new.mail = cand[c].mail /\ new.emp = e
  BY <1>4, <1>5, <1>6 DEF W!Candidate, W!Stages
<1>8. cand' = [cand EXCEPT ![c] = new]
  <2>1. PICK one : one = [cand EXCEPT ![c].stage = "ACTIVATED"]
    OBVIOUS
  <2>2. PICK two : two = [one EXCEPT ![c].emp = e]
    OBVIOUS
  <2>3. cand' = [two EXCEPT ![c].offer = TRUE]
    BY <1>2, <2>1, <2>2
  <2>4. DOMAIN cand = Cands /\ DOMAIN one = Cands /\ DOMAIN two = Cands
    BY <2>1, <2>2 DEF HireInv, HireTypes
  <2>5. two[c] = [[cand[c] EXCEPT !.stage = "ACTIVATED"] EXCEPT !.emp = e]
    BY <1>4, <2>1, <2>2, <2>4
  <2>6. \A d \in Cands \ {c} : two[d] = cand[d]
    BY <2>1, <2>2, <2>4
  <2> QED
    BY <1>4, <1>6, <2>3, <2>4, <2>5, <2>6
<1>9. new.emp # Nobody =>
         /\ new.emp \in Staff /\ staff'[new.emp] # Nobody /\ staff'[new.emp].mail = new.mail
         /\ \A d \in Cands \ {c} : cand[d] # Nobody => cand[d].emp # new.emp
  BY <1>2, <1>5, <1>7 DEF W!Linkable, W!Known
<1>10. new.emp # Nobody
  BY <1>5, <1>7, NobodyIsNone
<1>11. /\ cand' \in [Cands -> W!Candidate \cup {Nobody}] /\ Stays(cand, cand')
       /\ \A d \in Cands : cand'[d] # Nobody => LinkFits(d, cand', staff')
  BY <1>4, <1>5, <1>7, <1>8, <1>9, <1>10, CandidateWritten
<1> QED
  BY <1>3, <1>5, <1>11, EndFits

LEMMA HireCommitsKeeps == ASSUME HireInv, NEW s \in Desks, W!HireCommits(s) PROVE HireInv'
<1>1. PICK M \in SUBSET handled[s].mails : \E f \in [M -> Staff \ W!Hired] : W!Hires(f)
  BY DEF W!HireCommits
<1>2. PICK f \in [M -> Staff \ W!Hired] : W!Hires(f)
  BY <1>1
<1>3. handled[s].op = "hire" /\ W!Ends(s) /\ cand' = cand
  BY DEF W!HireCommits
<1>4. M \subseteq Mails
  BY <1>1, <1>3 DEF HireInv, RequestFits
<1>5. staff' \in [Staff -> W!Employee \cup {Nobody}] /\ Stays(staff, staff')
  BY <1>2, <1>4, HiresKeep
<1> QED
  BY <1>3, <1>5, StaffWritten, EndFits

(* Statuses and logins change; nobody's row goes. *)
LEMMA RowsChanged ==
  ASSUME HireInv, NEW E \in SUBSET Staff, \A e \in E : staff[e] # Nobody, NEW new,
         staff' = [e \in Staff |-> IF e \in E THEN new[e] ELSE staff[e]],
         \A e \in E : new[e] \in W!Employee /\ new[e].mail = staff[e].mail
  PROVE  staff' \in [Staff -> W!Employee \cup {Nobody}] /\ Stays(staff, staff')
<1>1. staff \in [Staff -> W!Employee \cup {Nobody}]
  BY DEF HireInv, HireTypes
<1>2. staff' \in [Staff -> W!Employee \cup {Nobody}]
  BY <1>1
<1>3. \A e \in Staff : staff[e] # Nobody => staff'[e] # Nobody /\ staff'[e].mail = staff[e].mail
  BY NobodyIsNone
<1> QED
  BY <1>1, <1>2, <1>3 DEF Stays

LEMMA HiredRow == ASSUME HireInv, NEW e \in Staff, staff[e] # Nobody PROVE staff[e] \in W!Employee
BY DEF HireInv, HireTypes

LEMMA AccessCommitsKeeps == ASSUME HireInv, NEW s \in Desks, W!AccessCommits(s) PROVE HireInv'
<1>1. PICK to, who : to = handled[s].to /\ who = handled[s].who
  OBVIOUS
<1>2. handled[s].op = "access" /\ W!Ends(s) /\ cand' = cand
  BY DEF W!AccessCommits
<1>3. to \in {"ACTIVE", "INACTIVE"} /\ \A e \in who : HiredIn(e, staff)
  BY <1>1, <1>2 DEF HireInv, RequestFits
<1>4. PICK A \in W!Allowed(handled[s].who, handled[s].to) :
         staff' = [e \in Staff |-> IF e \in A
                                   THEN [staff[e] EXCEPT !.status = handled[s].to,
                                                         !.login = handled[s].to = "ACTIVE"]
                                   ELSE staff[e]]
  BY Zenon DEF W!AccessCommits
<1>5. A \subseteq who
  BY <1>1, <1>4 DEF W!Allowed
<1>6. PICK new : new = [e \in Staff |-> [staff[e] EXCEPT !.status = handled[s].to,
                                                       !.login = handled[s].to = "ACTIVE"]]
  OBVIOUS
<1>7. A \in SUBSET Staff /\ \A e \in A : staff[e] # Nobody
  BY <1>3, <1>5 DEF HiredIn
<1>8. ASSUME NEW e \in A PROVE new[e] \in W!Employee /\ new[e].mail = staff[e].mail
  <2>1. staff[e] \in W!Employee
    BY <1>7, HiredRow
  <2>2. new[e] = [staff[e] EXCEPT !.status = to, !.login = to = "ACTIVE"]
    BY <1>1, <1>6, <1>7
  <2>3. (to = "ACTIVE") \in BOOLEAN
    OBVIOUS
  <2> QED
    BY <1>3, <2>1, <2>2, <2>3 DEF W!Employee, W!Statuses, W!SeatStatuses
<1>9. staff' = [e \in Staff |-> IF e \in A THEN new[e] ELSE staff[e]]
  BY <1>4, <1>6, Zenon
<1>10. staff' \in [Staff -> W!Employee \cup {Nobody}] /\ Stays(staff, staff')
  BY <1>7, <1>8, <1>9, RowsChanged
<1> QED
  BY <1>2, <1>10, StaffWritten, EndFits

LEMMA EmployeesChangedKeeps ==
  ASSUME HireInv,
         \/ \E e \in Staff : W!Terminate(e) \/ \E to \in W!Statuses : W!updateEmployee(e, to)
         \/ \E E \in SUBSET Staff : W!deleteEmployees(E)
  PROVE  HireInv'
<1>1. cand' = cand /\ handled' = handled /\ edits' \in Nat
  <2>1. cand' = cand /\ W!AtOnce /\ (edits' = edits \/ edits' = edits + 1)
    BY DEF W!Terminate, W!updateEmployee, W!deleteEmployees
  <2> QED
    BY <2>1 DEF W!AtOnce, HireInv, HireTypes
<1>2. ASSUME NEW E \in SUBSET Staff, \A e \in E : staff[e] # Nobody, NEW new,
             staff' = [e \in Staff |-> IF e \in E THEN new[e] ELSE staff[e]],
             \A e \in E : new[e] \in W!Employee /\ new[e].mail = staff[e].mail
      PROVE  HireInv'
  <2>1. staff' \in [Staff -> W!Employee \cup {Nobody}] /\ Stays(staff, staff')
    BY <1>2, RowsChanged
  <2> QED
    BY <1>1, <2>1, StaffWritten, HireStepKeeps
<1>3. DOMAIN staff = Staff
  BY DEF HireInv, HireTypes
<1>4. ASSUME NEW e \in Staff, W!Terminate(e) PROVE HireInv'
  <2>1. PICK row : row = [staff[e] EXCEPT !.status = "TERMINATED", !.login = FALSE]
    OBVIOUS
  <2>2. PICK new : new = [d \in Staff |-> row]
    OBVIOUS
  <2>3. staff[e] # Nobody
    BY <1>4 DEF W!Terminate, W!Hired
  <2>4. row \in W!Employee /\ row.mail = staff[e].mail
    BY <2>1, <2>3, HiredRow DEF W!Employee, W!Statuses
  <2>5. staff' = [staff EXCEPT ![e] = row]
    <3>1. [staff EXCEPT ![e].status = "TERMINATED"][e] = [staff[e] EXCEPT !.status = "TERMINATED"]
      BY <1>3
    <3> QED
      BY <1>3, <1>4, <2>1, <3>1 DEF W!Terminate
  <2>6. PICK E : E = {e}
    OBVIOUS
  <2>7. staff' = [d \in Staff |-> IF d \in E THEN new[d] ELSE staff[d]]
    BY <1>3, <2>2, <2>5, <2>6
  <2>8. /\ E \in SUBSET Staff /\ \A d \in E : staff[d] # Nobody
        /\ \A d \in E : new[d] \in W!Employee /\ new[d].mail = staff[d].mail
    BY <2>2, <2>3, <2>4, <2>6
  <2> QED
    BY <1>2, <2>7, <2>8
<1>5. ASSUME NEW e \in Staff, NEW to \in W!Statuses, W!updateEmployee(e, to) PROVE HireInv'
  <2>1. PICK row : row = [staff[e] EXCEPT !.status = to]
    OBVIOUS
  <2>2. PICK new : new = [d \in Staff |-> row]
    OBVIOUS
  <2>3. staff[e] # Nobody
    BY <1>5 DEF W!updateEmployee, W!Hired
  <2>4. row \in W!Employee /\ row.mail = staff[e].mail
    BY <2>1, <2>3, HiredRow DEF W!Employee, W!Statuses
  <2>5. staff' = [staff EXCEPT ![e] = row]
    BY <1>5, <2>1 DEF W!updateEmployee
  <2>6. PICK E : E = {e}
    OBVIOUS
  <2>7. staff' = [d \in Staff |-> IF d \in E THEN new[d] ELSE staff[d]]
    BY <1>3, <2>2, <2>5, <2>6
  <2>8. /\ E \in SUBSET Staff /\ \A d \in E : staff[d] # Nobody
        /\ \A d \in E : new[d] \in W!Employee /\ new[d].mail = staff[d].mail
    BY <2>2, <2>3, <2>4, <2>6
  <2> QED
    BY <1>2, <2>7, <2>8
<1>6. ASSUME NEW E \in SUBSET Staff, W!deleteEmployees(E) PROVE HireInv'
  <2>1. PICK new : new = [e \in Staff |-> [staff[e] EXCEPT !.deleted = TRUE, !.status = "INACTIVE", !.login = FALSE]]
    OBVIOUS
  <2>2. \A e \in E : staff[e] # Nobody
    BY <1>6 DEF W!deleteEmployees, W!Hired
  <2>3. staff' = [e \in Staff |-> IF e \in E THEN new[e] ELSE staff[e]]
    BY <1>6, <2>1 DEF W!deleteEmployees
  <2>4. ASSUME NEW e \in E PROVE new[e] \in W!Employee /\ new[e].mail = staff[e].mail
    BY <2>1, <2>2, HiredRow DEF W!Employee, W!Statuses
  <2> QED
    BY <1>2, <2>2, <2>3, <2>4
<1> QED
  BY <1>4, <1>5, <1>6

LEMMA HireStep == HireInv /\ [W!Next]_(W!vars) => HireInv'
<1> SUFFICES ASSUME HireInv, [W!Next]_(W!vars) PROVE HireInv'
  OBVIOUS
<1>1. CASE UNCHANGED W!vars
  BY <1>1 DEF W!vars, HireInv, HireTypes
<1>2. CASE W!Portal
  BY <1>2, RequestsStart, PortalCommitsKeeps, AcceptHiresKeeps, AcceptCommitsKeeps DEF W!Portal
<1>3. CASE W!HR
  BY <1>3, RequestsStart, JoinerCommitsKeeps, PortalCommitsKeeps, ActivateCommitsKeeps, OffersKeep DEF W!HR
<1>4. CASE W!Employees
  BY <1>4, RequestsStart, HireCommitsKeeps, AccessCommitsKeeps, EmployeesChangedKeeps DEF W!Employees
<1>5. ASSUME NEW s \in Desks, W!Lost(s) PROVE HireInv'
  <2>1. cand' = cand /\ staff' = staff /\ W!Ends(s)
    BY <1>5 DEF W!Lost
  <2> QED
    BY <2>1, StaffUnchanged, StaffWritten, EndFits
<1> QED
  BY <1>1, <1>2, <1>3, <1>4, <1>5, OffersKeep DEF W!Next

LEMMA HireStarts == W!Init => HireInv
<1> SUFFICES ASSUME W!Init PROVE HireInv
  OBVIOUS
<1>1. HireTypes
  BY DEF W!Init, HireTypes
<1>2. ASSUME NEW s \in Desks PROVE RequestFits(handled[s], cand, staff)
  BY DEF W!Init, W!NoReq, RequestFits, AcceptRead
<1>3. \A c \in Cands : cand[c] = Nobody
  BY DEF W!Init
<1> QED
  BY <1>1, <1>2, <1>3 DEF HireInv

(* For any company, plan and number of requests under way: an accepted or           *)
(* activated candidate has an employee of the same address that no other          *)
(* candidate has, however invitations, portal and HR write over each other.      *)
THEOREM HiresStayLinked == WorkforceSpec => []HiresAreLinked
<1>1. HireInv => HiresAreLinked
  <2> SUFFICES ASSUME HireInv, NEW c \in W!Known, cand[c].stage \in {"OFFER_ACCEPTED", "ACTIVATED"}
               PROVE  /\ cand[c].emp \in W!Hired
                      /\ staff[cand[c].emp].mail = cand[c].mail
                      /\ \A d \in W!Known \ {c} : cand[d].emp # cand[c].emp
    BY DEF HiresAreLinked, W!HiresAreLinked
  <2>1. LinkFits(c, cand, staff)
    BY KnownFits DEF W!Known
  <2> QED
    BY <2>1 DEF LinkFits, W!Known, W!Hired
<1> QED
  BY <1>1, HireStarts, HireStep, PTL DEF WorkforceSpec, W!Spec

-----------------------------------------------------------------------------
(* Seats.  A step adds no more people to those who have a seat than there are     *)
(* seats, unless it is the edit of a status.                                    *)
Seated == {e \in W!Hired : ~staff[e].deleted /\ staff[e].status \in W!SeatStatuses}

LEMMA SeatsCounted == W!Seats = Cardinality(Seated) /\ IsFiniteSet(Seated) /\ W!Seats \in Nat
<1>1. Seated \subseteq Staff
  BY DEF Seated, W!Hired
<1>2. IsFiniteSet(Seated) /\ Cardinality(Seated) \in Nat
  BY <1>1, NobodyIsNone, FS_Subset, FS_CardinalityType
<1> QED
  BY <1>2, WCounts DEF Seated, W!Seats

LEMMA SeatsCountedAfter == W!Seats' = Cardinality(Seated') /\ IsFiniteSet(Seated') /\ W!Seats' \in Nat
<1>1. Seated' \subseteq Staff
  BY DEF Seated, W!Hired
<1>2. IsFiniteSet(Seated') /\ Cardinality(Seated') \in Nat
  BY <1>1, NobodyIsNone, FS_Subset, FS_CardinalityType
<1> QED
  BY <1>2, WCounts DEF Seated, W!Seats

LEMMA SeatsBound ==
  ASSUME NEW N \in SUBSET Staff, Cardinality(N) <= Limit - W!Seats, Seated' \subseteq Seated \cup N
  PROVE  W!Seats' <= Limit
<1>1. IsFiniteSet(N) /\ Cardinality(N) \in Nat
  BY NobodyIsNone, FS_Subset, FS_CardinalityType
<1>2. /\ IsFiniteSet(Seated \cup N)
      /\ Cardinality(Seated \cup N) = Cardinality(Seated) + Cardinality(N) - Cardinality(Seated \cap N)
  BY <1>1, SeatsCounted, FS_Union
<1>3. Cardinality(Seated \cap N) \in Nat
  BY <1>1, FS_Intersection, FS_CardinalityType
<1>4. Cardinality(Seated') <= Cardinality(Seated \cup N)
  BY <1>2, FS_Subset
<1> QED
  BY <1>1, <1>2, <1>3, <1>4, SeatsCounted, SeatsCountedAfter, NobodyIsNone

LEMMA SeatsShrink == ASSUME Seated' \subseteq Seated PROVE W!Seats' <= W!Seats
BY SeatsCounted, SeatsCountedAfter, FS_Subset

LEMMA SeatedAfter ==
  ASSUME NEW N \in SUBSET Staff, \A e \in Staff \ N : staff'[e] = staff[e]
  PROVE  Seated' \subseteq Seated \cup N
BY DEF Seated, W!Hired

SeatsFit == W!Seats' > W!Seats => W!Seats' <= Limit \/ edits' > edits

LEMMA SameStaffFits == ASSUME staff' = staff PROVE SeatsFit
<1>1. Seated' \subseteq Seated
  BY DEF Seated, W!Hired
<1> QED
  BY <1>1, SeatsShrink, SeatsCounted, SeatsCountedAfter DEF SeatsFit

LEMMA OneHireFits ==
  ASSUME HireInv, W!assertSeatAvailable, NEW m \in Mails, NEW e \in Staff \ W!Hired, W!HiresOne(m, e)
  PROVE  SeatsFit
<1>1. PICK N : N = {e}
  OBVIOUS
<1>2. Seated' \subseteq Seated \cup N
  BY <1>1, HiresOneKeeps, SeatedAfter
<1>3. Cardinality(N) <= Limit - W!Seats
  <2>1. Cardinality(N) = 1
    BY <1>1, FS_Singleton
  <2>2. W!Seats < Limit /\ W!Seats \in Nat /\ Limit \in Nat
    BY SeatsCounted, NobodyIsNone DEF W!assertSeatAvailable
  <2> QED
    BY <2>1, <2>2
<1> QED
  BY <1>1, <1>2, <1>3, SeatsBound DEF SeatsFit

LEMMA AcceptHiresFits == ASSUME HireInv, NEW s \in Desks, W!AcceptHires(s) PROVE SeatsFit
<1>1. PICK e \in W!Fresh(Staff, W!Hired) : W!HiresOne(cand[handled[s].cand].mail, e)
  BY DEF W!AcceptHires
<1>2. handled[s].op = "accept" /\ W!assertSeatAvailable
  BY DEF W!AcceptHires
<1>3. cand[handled[s].cand].mail \in Mails
  BY <1>2, KnownRequest DEF W!Candidate
<1>4. e \in Staff \ W!Hired
  BY HiredUnion, FreshIdentities
<1> QED
  BY <1>1, <1>2, <1>3, <1>4, OneHireFits

LEMMA ActivateFits == ASSUME HireInv, NEW s \in Desks, W!ActivateCommits(s) PROVE SeatsFit
<1>1. PICK e \in IF handled[s].emp = Nobody THEN W!Fresh(Staff, W!Hired) ELSE {handled[s].emp} :
         IF handled[s].emp = Nobody THEN W!assertSeatAvailable /\ W!HiresOne(cand[handled[s].cand].mail, e)
         ELSE staff' = staff
  BY DEF W!ActivateCommits
<1>2. CASE handled[s].emp # Nobody
  BY <1>1, <1>2, SameStaffFits
<1>3. CASE handled[s].emp = Nobody
  <2>1. handled[s].op = "activate"
    BY DEF W!ActivateCommits
  <2>2. cand[handled[s].cand].mail \in Mails
    BY <2>1, KnownRequest DEF W!Candidate
  <2>3. e \in Staff \ W!Hired
    BY <1>1, <1>3, HiredUnion, FreshIdentities
  <2> QED
    BY <1>1, <1>3, <2>2, <2>3, OneHireFits
<1> QED
  BY <1>2, <1>3

LEMMA HireCommitsFits == ASSUME HireInv, NEW s \in Desks, W!HireCommits(s) PROVE SeatsFit
<1>1. PICK M \in SUBSET handled[s].mails :
         /\ Cardinality(M) = IF Cardinality(handled[s].mails) < W!Capacity
                             THEN Cardinality(handled[s].mails) ELSE W!Capacity
         /\ \E f \in [M -> Staff \ W!Hired] :
              /\ \A m, n \in M : f[m] = f[n] => m = n
              /\ W!Hires(f)
  <2>1. PICK M \in SUBSET handled[s].mails :
         /\ W!Cardinality(M) = IF W!Cardinality(handled[s].mails) < W!Capacity
                               THEN W!Cardinality(handled[s].mails) ELSE W!Capacity
         /\ \E f \in [M -> Staff \ W!Hired] :
              /\ \A m, n \in M : f[m] = f[n] => m = n
              /\ W!Hires(f)
    BY Zenon DEF W!HireCommits
  <2>2. W!Cardinality(M) = Cardinality(M) /\ W!Cardinality(handled[s].mails) = Cardinality(handled[s].mails)
    BY WCounts
  <2> QED
    BY <2>1, <2>2
<1>2. PICK f \in [M -> Staff \ W!Hired] : (\A m, n \in M : f[m] = f[n] => m = n) /\ W!Hires(f)
  BY <1>1
<1>3. handled[s].op = "hire" /\ W!assertSeatAvailable
  BY DEF W!HireCommits
<1>4. M \subseteq Mails
  BY <1>1, <1>3 DEF HireInv, RequestFits
<1>5. PICK N : N = {f[m] : m \in M}
  OBVIOUS
<1>6. N \in SUBSET Staff /\ IsFiniteSet(N) /\ Cardinality(N) \in Nat
  BY <1>2, <1>5, NobodyIsNone, FS_Subset, FS_CardinalityType
<1>7. IsFiniteSet(M) /\ Cardinality(M) = Cardinality(N)
  <2>1. PICK g : g = [e \in N |-> CHOOSE m \in M : f[m] = e]
    OBVIOUS
  <2>2. ExistsBijection(N, M)
    <3>1. \A e \in N : g[e] \in M /\ f[g[e]] = e
      BY <1>5, <2>1
    <3>2. \A m \in M : f[m] \in N /\ g[f[m]] = m
      BY <1>2, <1>5, <3>1
    <3>3. g \in [N -> M]
      BY <2>1, <3>1
    <3>4. \A d, e \in N : g[d] = g[e] => d = e
      BY <3>1
    <3>5. g \in Bijection(N, M)
      BY <3>2, <3>3, <3>4 DEF Bijection, Injection, Surjection, IsInjective
    <3> QED
      BY <3>5 DEF ExistsBijection
  <2> QED
    BY <1>6, <2>2, FS_Bijection
<1>8. Cardinality(N) <= Limit - W!Seats
  BY <1>1, <1>6, <1>7, SeatsCounted, NobodyIsNone DEF W!Capacity
<1>9. \A e \in Staff \ N : staff'[e] = staff[e]
  BY <1>2, <1>4, <1>5, HiresKeep
<1> QED
  BY <1>6, <1>8, <1>9, SeatedAfter, SeatsBound DEF SeatsFit

LEMMA AccessFits == ASSUME HireInv, NEW s \in Desks, W!AccessCommits(s) PROVE SeatsFit
<1>1. PICK A \in W!Allowed(handled[s].who, handled[s].to) :
         staff' = [e \in Staff |-> IF e \in A
                                   THEN [staff[e] EXCEPT !.status = handled[s].to,
                                                         !.login = handled[s].to = "ACTIVE"]
                                   ELSE staff[e]]
  BY Zenon DEF W!AccessCommits
<1>2. handled[s].op = "access"
  BY DEF W!AccessCommits
<1>3. handled[s].to \in {"ACTIVE", "INACTIVE"} /\ \A e \in handled[s].who : HiredIn(e, staff)
  BY <1>2 DEF HireInv, RequestFits
<1>4. A \subseteq handled[s].who
  BY <1>1 DEF W!Allowed
<1>5. A \in SUBSET Staff /\ \A e \in A : staff[e] \in W!Employee
  BY <1>3, <1>4, HiredRow DEF HiredIn
<1>6. \A e \in Staff \ A : staff'[e] = staff[e]
  BY <1>1
<1>7. CASE handled[s].to = "INACTIVE"
  <2>1. \A e \in A : staff'[e].status = "INACTIVE"
    BY <1>1, <1>5, <1>7 DEF W!Employee
  <2>2. Seated' \subseteq Seated
    BY <1>6, <2>1 DEF Seated, W!Hired, W!SeatStatuses
  <2> QED
    BY <2>2, SeatsShrink, SeatsCounted, SeatsCountedAfter DEF SeatsFit
<1>8. CASE handled[s].to = "ACTIVE"
  <2>1. Cardinality(A) <= W!Capacity
    <3>1. W!Capacity \in Int
      BY SeatsCounted, NobodyIsNone DEF W!Capacity
    <3> QED
      <4>1. PICK E, k : E = handled[s].who /\ k = W!Capacity
        OBVIOUS
      <4>2. A \in IF W!Cardinality(E) <= k THEN {E} ELSE {B \in SUBSET E : W!Cardinality(B) = k}
        BY <1>1, <1>8, <4>1 DEF W!Allowed
      <4>3. W!Cardinality(A) <= k
        BY <3>1, <4>1, <4>2
      <4> QED
        BY <4>1, <4>3, WCounts
  <2> QED
    BY <1>5, <1>6, <2>1, SeatedAfter, SeatsBound DEF SeatsFit, W!Capacity
<1> QED
  BY <1>3, <1>7, <1>8

LEMMA EmployeesFit ==
  ASSUME HireInv,
         \/ \E e \in Staff : W!Terminate(e) \/ \E to \in W!Statuses : W!updateEmployee(e, to)
         \/ \E E \in SUBSET Staff : W!deleteEmployees(E)
  PROVE  SeatsFit
<1>1. DOMAIN staff = Staff
  BY DEF HireInv, HireTypes
<1>2. ASSUME NEW e \in Staff, W!Terminate(e) PROVE SeatsFit
  <2>1. staff[e] \in W!Employee
    BY <1>2, HiredRow DEF W!Terminate, W!Hired
  <2>2. staff'[e].status = "TERMINATED" /\ \A d \in Staff \ {e} : staff'[d] = staff[d]
    BY <1>1, <1>2, <2>1 DEF W!Terminate, W!Employee
  <2>3. Seated' \subseteq Seated
    BY <2>2 DEF Seated, W!Hired, W!SeatStatuses
  <2> QED
    BY <2>3, SeatsShrink, SeatsCounted, SeatsCountedAfter DEF SeatsFit
<1>3. ASSUME NEW e \in Staff, NEW to \in W!Statuses, W!updateEmployee(e, to) PROVE SeatsFit
  <2>1. edits' = edits + 1 /\ edits \in Nat
    BY <1>3 DEF W!updateEmployee, HireInv, HireTypes
  <2> QED
    BY <2>1 DEF SeatsFit
<1>4. ASSUME NEW E \in SUBSET Staff, W!deleteEmployees(E) PROVE SeatsFit
  <2>1. \A e \in E : staff[e] \in W!Employee
    BY <1>4, HiredRow DEF W!deleteEmployees, W!Hired
  <2>2. \A e \in E : staff'[e].deleted
    BY <1>4, <2>1 DEF W!deleteEmployees, W!Employee
  <2>3. \A e \in Staff \ E : staff'[e] = staff[e]
    BY <1>4 DEF W!deleteEmployees
  <2>4. Seated' \subseteq Seated
    BY <2>2, <2>3 DEF Seated, W!Hired
  <2> QED
    BY <2>4, SeatsShrink, SeatsCounted, SeatsCountedAfter DEF SeatsFit
<1> QED
  BY <1>2, <1>3, <1>4

LEMMA SeatsStep == ASSUME HireInv, [W!Next]_(W!vars) PROVE SeatsFit
<1>1. CASE UNCHANGED W!vars
  BY <1>1, SameStaffFits DEF W!vars
<1>2. ASSUME NEW s \in Desks,
             \/ W!ProfileCommits(s) \/ W!UploadCommits(s) \/ W!DeclineCommits(s) \/ W!AcceptCommits(s)
             \/ W!JoinerCommits(s) \/ W!VerifyCommits(s) \/ W!Lost(s)
      PROVE  SeatsFit
  BY <1>2, SameStaffFits DEF W!ProfileCommits, W!UploadCommits, W!DeclineCommits, W!AcceptCommits,
     W!JoinerCommits, W!VerifyCommits, W!Lost
<1>3. ASSUME NEW s \in Desks, NEW r, W!Starts(s, r) PROVE SeatsFit
  BY <1>3, SameStaffFits DEF W!Starts
<1>4. ASSUME NEW c \in Cands,
             \/ W!generateOfferLetter(c) \/ W!adminApproveAndGenerateOffer(c)
             \/ W!hrReviewAndSendOffer(c) \/ W!Expire(c)
      PROVE  SeatsFit
  BY <1>4, SameStaffFits DEF W!generateOfferLetter, W!adminApproveAndGenerateOffer,
     W!hrReviewAndSendOffer, W!Expire
<1>5. CASE W!Portal
  BY <1>2, <1>3, <1>5, AcceptHiresFits DEF W!Portal, W!PortalReads
<1>6. CASE W!HR
  BY <1>2, <1>3, <1>4, <1>6, ActivateFits DEF W!HR, W!JoinerReads, W!VerifyReads, W!ActivateReads
<1>7. CASE W!Employees
  BY <1>3, <1>7, HireCommitsFits, AccessFits, EmployeesFit DEF W!Employees, W!HireReads, W!AccessReads
<1> QED
  BY <1>1, <1>2, <1>4, <1>5, <1>6, <1>7 DEF W!Next

(* No activation, acceptance, import or reactivation, with whatever it read before  *)
(* and however many run at once, takes a company beyond the seats of its plan.    *)
THEOREM SeatsStayChecked == WorkforceSpec => SeatsAreChecked
<1>1. HireInv /\ [W!Next]_(W!vars) => (W!Seats' > W!Seats => W!Seats' <= Limit \/ edits' > edits)
  BY SeatsStep DEF SeatsFit
<1> QED
  BY <1>1, HireStarts, HireStep, PTL DEF WorkforceSpec, W!Spec, SeatsAreChecked, W!SeatsAreChecked, W!vars
=============================================================================
