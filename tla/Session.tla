------------------------------- MODULE Session -------------------------------
(***************************************************************************)
(* Sessions on the server: AuthService login, refresh, logout, getMe and   *)
(* issueSession (apps/api/src/auth/auth.service.ts), the guard on the      *)
(* access token (apps/api/src/common/auth/jwt-auth.guard.ts), the profile  *)
(* update (apps/api/src/users/users.service.ts) and the deletion of an     *)
(* expired test account (auth/test-account-cleanup.service.ts), for one    *)
(* account.  A session is a number: it stands for the access token, the    *)
(* refresh token and the jti that one issueSession creates.                *)
(***************************************************************************)
EXTENDS Integers, FiniteSets

CONSTANTS
  Exchanges,     \* slots for HTTP exchanges
  MaxSessions,   \* bound: sessions issued; an exchange past it answers 500
  MaxFailures    \* bound: calls that throw and answers that are lost

ASSUME SessionAssumption ==
  /\ IsFiniteSet(Exchanges)
  /\ MaxSessions \in Nat \ {0}
  /\ MaxFailures \in Nat

VARIABLES
  account,   \* whether the User row exists
  valid,     \* the sessions whose refresh:jti key exists
  issued,    \* the sessions are 1..issued
  expired,   \* the access tokens of 1..expired have expired
  call,      \* the endpoint of each exchange, "none" without one
  at,        \* what the handler awaits, or the answer not yet received
  sent,      \* the session whose token the request carries, 0 without one
  got,       \* the session in the answer and its cookie, 0 without one
  failures   \* history: calls that threw and answers that were lost

server == <<account, valid, issued, expired>>

exchange == <<call, at, sent, got>>

sessionVars == <<account, valid, issued, expired, call, at, sent, got, failures>>

NoToken == 0

Sessions == 1..MaxSessions

Endpoints == {"login", "refresh", "logout", "me", "profile", "api"}

Awaits == {"findLogin", "redisGet", "findOwner", "delJti", "delGone", "issue",
           "revoke", "guard", "findUser", "update", "serve"}

Answers == {"ok", "unauthorized", "error"}

SessionInit ==
  /\ account = TRUE
  /\ valid = {}
  /\ issued = 0
  /\ expired = 0
  /\ call = [x \in Exchanges |-> "none"]
  /\ at = [x \in Exchanges |-> "none"]
  /\ sent = [x \in Exchanges |-> NoToken]
  /\ got = [x \in Exchanges |-> NoToken]
  /\ failures = 0

-----------------------------------------------------------------------------
\* What the handler of endpoint c does first with a token, or without one.
Entry(c, token) ==
  CASE c = "login" -> "findLogin"
    [] c = "refresh" -> IF token = NoToken THEN "unauthorized" ELSE "redisGet"
    [] c = "logout" -> IF token = NoToken THEN "ok" ELSE "revoke"
    [] OTHER -> "guard"

\* The exchanges as they are once request c with a token has been sent on x.
Request(x, c, token) ==
  [call |-> [call EXCEPT ![x] = c],
   at |-> [at EXCEPT ![x] = Entry(c, token)],
   sent |-> [sent EXCEPT ![x] = token],
   got |-> [got EXCEPT ![x] = NoToken]]

Goto(x, await) ==
  /\ at' = [at EXCEPT ![x] = await]
  /\ UNCHANGED <<call, sent, got>>

\* login: the account is looked up and the password compared.
LoginFind(x) ==
  /\ at[x] = "findLogin"
  /\ \/ account /\ Goto(x, "issue")
     \/ Goto(x, "unauthorized")
  /\ UNCHANGED <<server, failures>>

\* Defect: the signature of the token is enough.
RefreshGetUnchecked(x) ==
  /\ at[x] = "redisGet"
  /\ Goto(x, "findOwner")
  /\ UNCHANGED <<server, failures>>

\* refresh: is the jti still there?  (The token itself lives as long.)
RefreshGet(x) ==
  /\ at[x] = "redisGet"
  /\ Goto(x, IF sent[x] \in valid THEN "findOwner" ELSE "unauthorized")
  /\ UNCHANGED <<server, failures>>

RefreshFindOwner(x) ==
  /\ at[x] = "findOwner"
  /\ Goto(x, IF account THEN "delJti" ELSE "delGone")
  /\ UNCHANGED <<server, failures>>

\* Defect: the presented jti is left to expire.
RefreshDelForgotten(x) ==
  /\ at[x] = "delJti"
  /\ Goto(x, "issue")
  /\ UNCHANGED <<server, failures>>

\* "Rotate: invalidate the presented jti before minting the next one."
RefreshDel(x) ==
  /\ at[x] = "delJti"
  /\ valid' = valid \ {sent[x]}
  /\ Goto(x, "issue")
  /\ UNCHANGED <<account, issued, expired, failures>>

\* The owner is gone: the jti goes too.
RefreshDelGone(x) ==
  /\ at[x] = "delGone"
  /\ valid' = valid \ {sent[x]}
  /\ Goto(x, "unauthorized")
  /\ UNCHANGED <<account, issued, expired, failures>>

\* issueSession: new tokens, the jti stored, and the cookie in the answer.
IssueSession(x) ==
  /\ at[x] = "issue"
  /\ issued < MaxSessions
  /\ issued' = issued + 1
  /\ valid' = valid \cup {issued'}
  /\ at' = [at EXCEPT ![x] = "ok"]
  /\ got' = [got EXCEPT ![x] = issued']
  /\ UNCHANGED <<account, expired, call, sent, failures>>

\* logout: the presented jti is revoked; the answer clears the cookie.
LogoutDel(x) ==
  /\ at[x] = "revoke"
  /\ valid' = valid \ {sent[x]}
  /\ Goto(x, "ok")
  /\ UNCHANGED <<account, issued, expired, failures>>

\* JwtAuthGuard: the signature and the expiry of the access token, no lookup.
Guard(x) ==
  /\ at[x] = "guard"
  /\ Goto(x, IF sent[x] = NoToken \/ sent[x] <= expired THEN "unauthorized"
             ELSE CASE call[x] = "me" -> "findUser"
                    [] call[x] = "profile" -> "update"
                    [] OTHER -> "serve")
  /\ UNCHANGED <<server, failures>>

\* getMe: 401 when the account is gone.
FindUser(x) ==
  /\ at[x] = "findUser"
  /\ Goto(x, IF account THEN "ok" ELSE "unauthorized")
  /\ UNCHANGED <<server, failures>>

\* updateProfile: the update of a missing row throws.
UpdateProfile(x) ==
  /\ at[x] = "update"
  /\ Goto(x, IF account THEN "ok" ELSE "error")
  /\ UNCHANGED <<server, failures>>

\* Any other endpoint behind the guard; what it does is the other modules'.
ServeApi(x) ==
  /\ at[x] = "serve"
  /\ Goto(x, "ok")
  /\ UNCHANGED <<server, failures>>

-----------------------------------------------------------------------------
\* The account was a test account and its time is over.
Cleanup ==
  /\ account
  /\ account' = FALSE
  /\ UNCHANGED <<valid, issued, expired, exchange, failures>>

\* Access tokens expire in the order they were signed.
ExpireAccess ==
  /\ expired < issued
  /\ expired' = expired + 1
  /\ UNCHANGED <<account, valid, issued, exchange, failures>>

\* A database or Redis call throws, the process dies or the answer is lost on
\* its way.  logout catches what its handler throws and answers all the same.
Fail(x) ==
  /\ failures < MaxFailures
  /\ failures' = failures + 1
  /\ at[x] \in Awaits \cup {"ok", "unauthorized"}
  /\ \/ at' = [at EXCEPT ![x] = "error"] /\ got' = [got EXCEPT ![x] = NoToken]
     \/ at[x] = "revoke" /\ at' = [at EXCEPT ![x] = "ok"] /\ UNCHANGED got
  /\ UNCHANGED <<server, call, sent>>

\* Past the bound on sessions issueSession fails; it counts as the last failure.
IssueBound(x) ==
  /\ at[x] = "issue"
  /\ issued = MaxSessions
  /\ failures' = MaxFailures + 1
  /\ Goto(x, "error")
  /\ UNCHANGED server

Handle(x) ==
  \/ LoginFind(x)
  \/ RefreshGet(x)
  \/ RefreshFindOwner(x)
  \/ RefreshDel(x)
  \/ RefreshDelGone(x)
  \/ IssueSession(x)
  \/ IssueBound(x)
  \/ LogoutDel(x)
  \/ Guard(x)
  \/ FindUser(x)
  \/ UpdateProfile(x)
  \/ ServeApi(x)

ServerStep ==
  \/ \E x \in Exchanges : Handle(x) \/ Fail(x)
  \/ Cleanup
  \/ ExpireAccess

-----------------------------------------------------------------------------
(***************************************************************************)
(* The server with clients that may present any token they were given, on  *)
(* any number of exchanges at a time.  WebAuth.tla has the client this     *)
(* repository ships.                                                       *)
(***************************************************************************)
\* An answer is received, and what comes of it is sent, on any exchange.
Received(x) == at[x] \in Answers \cup {"none"}

ClientStep ==
  /\ call' \in [Exchanges -> Endpoints \cup {"none"}]
  /\ sent' \in [Exchanges -> 0..issued]
  /\ at' = [x \in Exchanges |-> at'[x]]
  /\ got' \in [Exchanges -> 0..issued]
  /\ \A x \in Exchanges :
       \/ <<call[x], at[x], sent[x], got[x]>>' = <<call[x], at[x], sent[x], got[x]>>
       \/ Received(x) /\ at'[x] = "none"
       \/ Received(x) /\ call'[x] # "none" /\ at'[x] = Entry(call'[x], sent'[x])
  /\ UNCHANGED <<server, failures>>

SessionNext == ServerStep \/ ClientStep

SessionSpec == SessionInit /\ [][SessionNext]_sessionVars

-----------------------------------------------------------------------------
SessionTypeOK ==
  /\ account \in BOOLEAN
  /\ issued \in 0..MaxSessions
  /\ valid \subseteq 1..issued
  /\ expired \in 0..issued
  /\ call \in [Exchanges -> Endpoints \cup {"none"}]
  /\ at \in [Exchanges -> Awaits \cup Answers \cup {"none"}]
  /\ sent \in [Exchanges -> 0..issued]
  /\ got \in [Exchanges -> 0..issued]
  /\ failures \in 0..MaxFailures + 1
=============================================================================
