------------------------------- MODULE WebAuth -------------------------------
(***************************************************************************)
(* The browser side of a session: request and its single-flight refresh    *)
(* (apps/web/src/lib/api-client.ts) and the AuthProvider                   *)
(* (apps/web/src/lib/auth-context.tsx), composed with the server of        *)
(* Session.tla.  The pages (tabs) of one browser share the refresh cookie; *)
(* each has its own tokenStore.  JavaScript runs to completion: an action  *)
(* is what happens from one answer to the next request sent.               *)
(***************************************************************************)
EXTENDS Session

CONSTANTS
  Pages,     \* open pages; p is also the exchange of p's refreshInFlight
  Slots,     \* slots for what a page does besides
  PageOf     \* the page of each slot

ASSUME PagesAssumption ==
  /\ Exchanges = Pages \cup Slots
  /\ Pages \cap Slots = {}
  /\ PageOf \in [Slots -> Pages]

VARIABLES
  cookie,    \* the refresh_token cookie of the browser, 0 without one
  token,     \* tokenStore of each page, 0 when null
  user,      \* whether each page has a user
  open,      \* whether each page has been opened
  flow,      \* what each slot is doing
  waiting,   \* whether a slot awaits refreshInFlight
  retried,   \* whether the request of a slot is its second attempt
  kept,      \* tokens.accessToken held across the getMe of a login
  left       \* history: "never" logged out on a page, "now", or "before" a login

page == <<token, user, open>>

slot == <<flow, waiting, retried, kept>>

vars == <<sessionVars, cookie, page, slot, left>>

Flows == {"idle", "boot", "login", "profile", "logout", "api"}

SlotsOf(p) == {s \in Slots : PageOf[s] = p}

Busy(p) == {s \in SlotsOf(p) : flow[s] # "idle"}

isBootstrapping(p) == \E s \in SlotsOf(p) : flow[s] = "boot"

\* No session has been issued and no page is open.
Init ==
  /\ SessionInit
  /\ cookie = NoToken
  /\ token = [p \in Pages |-> NoToken]
  /\ user = [p \in Pages |-> FALSE]
  /\ open = [p \in Pages |-> FALSE]
  /\ flow = [s \in Slots |-> "idle"]
  /\ waiting = [s \in Slots |-> FALSE]
  /\ retried = [s \in Slots |-> FALSE]
  /\ kept = [s \in Slots |-> NoToken]
  /\ left = [p \in Pages |-> "never"]

-----------------------------------------------------------------------------
Send(x, c, t) ==
  LET r == Request(x, c, t)
  IN call' = r.call /\ at' = r.at /\ sent' = r.sent /\ got' = r.got

\* The promise of slot s settles: its exchange is over.
Settle(s) ==
  /\ call' = [call EXCEPT ![s] = "none"]
  /\ at' = [at EXCEPT ![s] = "none"]
  /\ sent' = [sent EXCEPT ![s] = NoToken]
  /\ got' = [got EXCEPT ![s] = NoToken]
  /\ flow' = [flow EXCEPT ![s] = "idle"]
  /\ retried' = [retried EXCEPT ![s] = FALSE]
  /\ kept' = [kept EXCEPT ![s] = NoToken]
  /\ UNCHANGED waiting

clearAuth(p) ==
  /\ token' = [token EXCEPT ![p] = NoToken]
  /\ user' = [user EXCEPT ![p] = FALSE]
  /\ UNCHANGED open

Start(s, f, c, t) ==
  /\ flow[s] = "idle"
  /\ flow' = [flow EXCEPT ![s] = f]
  /\ Send(s, c, t)
  /\ UNCHANGED <<server, failures, cookie, waiting, retried, kept>>

\* The page is opened, or reloaded while nothing is under way: the provider
\* mounts with no user and refreshes by the cookie alone.
Boot(s) ==
  LET p == PageOf[s]
  IN /\ Busy(p) = {}
     /\ Start(s, "boot", "refresh", cookie)
     /\ open' = [open EXCEPT ![p] = TRUE]
     /\ token' = [token EXCEPT ![p] = NoToken]
     /\ user' = [user EXCEPT ![p] = FALSE]
     /\ UNCHANGED left

\* The login form is there when there is no user and bootstrapping is over; so
\* are the registration, activation and test-account buttons, which do the same
\* with the answer.
Login(s) ==
  LET p == PageOf[s]
  IN /\ open[p] /\ ~ user[p] /\ ~ isBootstrapping(p)
     /\ \A z \in SlotsOf(p) : flow[z] # "login"
     /\ Start(s, "login", "login", NoToken)
     /\ left' = [left EXCEPT ![p] = IF @ = "now" THEN "before" ELSE @]
     /\ UNCHANGED page

\* Any request of the application behind RequireAuth.
Api(s) ==
  /\ user[PageOf[s]]
  /\ Start(s, "api", "api", token[PageOf[s]])
  /\ UNCHANGED <<page, left>>

updateProfile(s) ==
  /\ user[PageOf[s]]
  /\ Start(s, "profile", "profile", token[PageOf[s]])
  /\ UNCHANGED <<page, left>>

\* From the menu, the account page, or - each second, until the user is gone -
\* the banner of an expired test account.
Logout(s) ==
  /\ user[PageOf[s]]
  /\ Start(s, "logout", "logout", cookie)
  /\ left' = [left EXCEPT ![PageOf[s]] = "now"]
  /\ UNCHANGED page

-----------------------------------------------------------------------------
(***************************************************************************)
(* Answers                                                                 *)
(***************************************************************************)
\* The answer to a login, or to the refresh of the bootstrap: the cookie is set,
\* the token stored, and the user asked for.
GotTokens(s) ==
  LET p == PageOf[s]
  IN /\ flow[s] \in {"boot", "login"}
     /\ call[s] \in {"refresh", "login"}
     /\ at[s] = "ok"
     /\ cookie' = got[s]
     /\ token' = [token EXCEPT ![p] = got[s]]
     /\ kept' = [kept EXCEPT ![s] = got[s]]
     /\ retried' = [retried EXCEPT ![s] = FALSE]
     /\ Send(s, "me", got[s])
     /\ UNCHANGED <<server, failures, user, open, flow, waiting, left>>

\* The user: login stores its own access token once more, the bootstrap does
\* not touch the tokenStore.
GotMe(s) ==
  LET p == PageOf[s]
  IN /\ flow[s] \in {"boot", "login"}
     /\ call[s] = "me"
     /\ at[s] = "ok"
     /\ user' = [user EXCEPT ![p] = TRUE]
     /\ token' = IF flow[s] = "login" THEN [token EXCEPT ![p] = kept[s]]
                 ELSE token
     /\ Settle(s)
     /\ UNCHANGED <<server, failures, cookie, open, left>>

GotApi(s) ==
  /\ flow[s] = "api"
  /\ at[s] = "ok"
  /\ Settle(s)
  /\ UNCHANGED <<server, failures, cookie, page, left>>

\* The updated user replaces whatever user there is.
GotProfile(s) ==
  /\ flow[s] = "profile"
  /\ at[s] = "ok"
  /\ user' = [user EXCEPT ![PageOf[s]] = TRUE]
  /\ Settle(s)
  /\ UNCHANGED <<server, failures, cookie, token, open, left>>

\* Whatever the answer, the local state goes; an answer clears the cookie.
LoggedOut(s) ==
  /\ flow[s] = "logout"
  /\ at[s] \in Answers
  /\ cookie' = IF at[s] = "ok" THEN NoToken ELSE cookie
  /\ clearAuth(PageOf[s])
  /\ Settle(s)
  /\ UNCHANGED <<server, failures, left>>

\* A 401 is answered by awaiting the refresh in flight, or by starting it; not
\* for the retry of a request, nor for the bootstrap's own refresh.
Refreshable(s) ==
  /\ flow[s] \notin {"idle", "logout"}
  /\ at[s] = "unauthorized"
  /\ ~ retried[s]
  /\ call[s] # "refresh"

\* Defect: the refresh in flight is not shared; the next one replaces it.
Got401Stampedes(s) ==
  LET p == PageOf[s]
  IN /\ Refreshable(s)
     /\ waiting' = [waiting EXCEPT ![s] = TRUE]
     /\ call' = [call EXCEPT ![s] = "refresh", ![p] = "refresh"]
     /\ at' = [at EXCEPT ![s] = Entry("refresh", cookie),
                         ![p] = Entry("refresh", cookie)]
     /\ sent' = [sent EXCEPT ![s] = cookie, ![p] = cookie]
     /\ got' = [got EXCEPT ![s] = NoToken, ![p] = NoToken]
     /\ UNCHANGED <<server, failures, cookie, page, flow, retried, kept, left>>

Got401(s) ==
  LET p == PageOf[s]
  IN /\ Refreshable(s)
     /\ waiting' = [waiting EXCEPT ![s] = TRUE]
     /\ LET alone == at[p] = "none"
        IN /\ at' = [at EXCEPT ![s] = "none",
                               ![p] = IF alone THEN Entry("refresh", cookie) ELSE @]
           /\ call' = [call EXCEPT ![p] = "refresh"]
           /\ sent' = [sent EXCEPT ![s] = NoToken,
                                   ![p] = IF alone THEN cookie ELSE @]
     /\ UNCHANGED <<server, failures, got, cookie, page, flow, retried, kept, left>>

Awaiting(p) == {s \in SlotsOf(p) : waiting[s]}

\* Defect: a profile update that waited along with another request is not
\* sent again.
RefreshedDropsUpdates(p) ==
  LET others == {s \in Awaiting(p) : flow[s] # "profile"}
      resumed == IF others = {} THEN Awaiting(p) ELSE others
  IN /\ at[p] = "ok"
     /\ cookie' = got[p]
     /\ token' = [token EXCEPT ![p] = got[p]]
     /\ at' = [x \in Exchanges |->
                 IF x = p THEN "none"
                 ELSE IF x \in resumed THEN Entry(call[x], got[p]) ELSE at[x]]
     /\ sent' = [x \in Exchanges |->
                   IF x \in resumed THEN got[p] ELSE IF x = p THEN NoToken ELSE sent[x]]
     /\ call' = [call EXCEPT ![p] = "none"]
     /\ got' = [got EXCEPT ![p] = NoToken]
     /\ retried' = [s \in Slots |-> retried[s] \/ s \in resumed]
     /\ waiting' = [s \in Slots |-> waiting[s] /\ s \notin resumed]
     /\ UNCHANGED <<server, failures, user, open, flow, kept, left>>

\* performRefresh succeeds: the token is stored, and every request that waited
\* is sent again with it.
Refreshed(p) ==
  /\ at[p] = "ok"
  /\ cookie' = got[p]
  /\ token' = [token EXCEPT ![p] = got[p]]
  /\ at' = [x \in Exchanges |->
              IF x = p THEN "none"
              ELSE IF x \in Awaiting(p) THEN Entry(call[x], got[p]) ELSE at[x]]
  /\ sent' = [x \in Exchanges |->
                IF x = p THEN NoToken
                ELSE IF x \in Awaiting(p) /\ call[x] # "login" THEN got[p]
                ELSE sent[x]]
  /\ call' = [call EXCEPT ![p] = "none"]
  /\ got' = [got EXCEPT ![p] = NoToken]
  /\ retried' = [s \in Slots |-> retried[s] \/ s \in Awaiting(p)]
  /\ waiting' = [s \in Slots |-> waiting[s] /\ s \notin Awaiting(p)]
  /\ UNCHANGED <<server, failures, user, open, flow, kept, left>>

\* It fails, for whatever reason: every request that waited clears the local
\* state and fails with its 401.
RefreshFailed(p) ==
  /\ at[p] \in {"unauthorized", "error"}
  /\ clearAuth(p)
  /\ call' = [x \in Exchanges |->
                IF x = p \/ x \in Awaiting(p) THEN "none" ELSE call[x]]
  /\ at' = [at EXCEPT ![p] = "none"]
  /\ sent' = [sent EXCEPT ![p] = NoToken]
  /\ flow' = [s \in Slots |-> IF s \in Awaiting(p) THEN "idle" ELSE flow[s]]
  /\ kept' = [s \in Slots |-> IF s \in Awaiting(p) THEN NoToken ELSE kept[s]]
  /\ waiting' = [s \in Slots |-> waiting[s] /\ s \notin Awaiting(p)]
  /\ UNCHANGED <<server, failures, got, cookie, retried, left>>

\* Any other failure rejects the promise of its request; only the bootstrap
\* clears the local state for it.
Rejected(s) ==
  /\ flow[s] \notin {"idle", "logout"}
  /\ at[s] \in {"unauthorized", "error"}
  /\ ~ Refreshable(s)
  /\ IF flow[s] = "boot" THEN clearAuth(PageOf[s]) ELSE UNCHANGED page
  /\ Settle(s)
  /\ UNCHANGED <<server, failures, cookie, left>>

Receive(s) ==
  \/ GotTokens(s)
  \/ GotMe(s)
  \/ GotApi(s)
  \/ GotProfile(s)
  \/ LoggedOut(s)
  \/ Got401(s)
  \/ Rejected(s)

ReceiveRefresh(p) == Refreshed(p) \/ RefreshFailed(p)

Next ==
  \/ /\ ServerStep
     /\ UNCHANGED <<cookie, page, slot, left>>
  \/ \E s \in Slots :
       \/ Boot(s)
       \/ Login(s)
       \/ Api(s)
       \/ updateProfile(s)
       \/ Logout(s)
       \/ Receive(s)
  \/ \E p \in Pages : ReceiveRefresh(p)

Spec == Init /\ [][Next]_vars

\* The server handles and answers what it receives, the browser delivers the
\* answers, and a page with a user keeps making requests
\* (SF: a slot is not always free).
Fairness ==
  /\ \A s \in Slots : WF_vars((Handle(s) /\ UNCHANGED <<cookie, page, slot, left>>)
                              \/ Receive(s))
  /\ \A p \in Pages : WF_vars((Handle(p) /\ UNCHANGED <<cookie, page, slot, left>>)
                              \/ ReceiveRefresh(p))
  /\ \A p \in Pages : SF_vars(\E s \in SlotsOf(p) : Api(s))

FairSpec == Spec /\ Fairness

-----------------------------------------------------------------------------
TypeOK ==
  /\ SessionTypeOK
  /\ cookie \in 0..issued
  /\ token \in [Pages -> 0..issued]
  /\ user \in [Pages -> BOOLEAN]
  /\ open \in [Pages -> BOOLEAN]
  /\ flow \in [Slots -> Flows]
  /\ waiting \in [Slots -> BOOLEAN]
  /\ retried \in [Slots -> BOOLEAN]
  /\ kept \in [Slots -> 0..issued]
  /\ left \in [Pages -> {"never", "now", "before"}]

\* No failure and no logout.
Undisturbed ==
  /\ failures = 0
  /\ \A p \in Pages : left[p] = "never"

\* What the single flight is for: however many requests find their access token
\* expired at once, the browser's cookie is never presented a second time after
\* it was rotated, so the server refuses a refresh of an open page only when there
\* is no cookie or no account any more.
NeverRefusedForNothing ==
  Undisturbed =>
    \A p \in Pages : open[p] =>
      \A x \in {p} \cup SlotsOf(p) :
        (call[x] = "refresh" /\ at[x] = "unauthorized")
          => ~ account \/ sent[x] = NoToken

\* Between requests the cookie is that of a live session, whatever the order in
\* which refreshes rotated it.
CookieIsLive ==
  (/\ Undisturbed
   /\ account
   /\ cookie # NoToken
   /\ \A x \in Exchanges : at[x] = "none") => cookie \in valid

\* "drop local auth so the user is logged out": once a page has logged out and
\* all it was doing is over, it has neither a user nor a token.
LogoutSticks ==
  \A p \in Pages :
    (left[p] = "now" /\ Busy(p) = {} /\ at[p] = "none")
      => ~ user[p] /\ token[p] = NoToken

\* Every request of a page is answered or fails: none waits for a refresh that
\* is over, or is retried for ever.
EveryFlowEnds == \A s \in Slots : flow[s] # "idle" ~> flow[s] = "idle"

\* The shipped client is one of those Session.tla allows.
UsesSession == SessionSpec
=============================================================================
