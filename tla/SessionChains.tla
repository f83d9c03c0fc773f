---------------------------- MODULE SessionChains ----------------------------
(***************************************************************************)
(* What rotation and logout are for, over the whole life of a login        *)
(* (refresh and logout of apps/api/src/auth/auth.service.ts): the sessions *)
(* that refreshes mint from one login, one from the other, are a chain, of *)
(* which one is to live at a time, and none after a logout.  Both hold but *)
(* for one window: refresh looks the jti up, awaits the owner and only then *)
(* deletes the jti, so whatever comes in between finds it still there.     *)
(* History variables beside those of Session.tla and WebAuth.tla say which *)
(* sessions are of one chain, and of which chains that window was hit.     *)
(***************************************************************************)
EXTENDS WebAuth

VARIABLES
  chain,  \* the login each session goes back to, 0 for one not issued
  raced,  \* the chains of which two refreshes presented one session at once
  ended   \* the chains logged out of while no refresh was under way

history == <<chain, raced, ended>>

HistoryInit ==
  /\ chain = [s \in Sessions |-> 0]
  /\ raced = {}
  /\ ended = {}

-----------------------------------------------------------------------------
\* A refresh that has found its session alive and not yet deleted it.
Holds(x) == at[x] \in {"findOwner", "delJti"}

\* A refresh that has deleted its session and not yet issued the next one.
Rotating(x) == at[x] = "issue" /\ call[x] = "refresh"

\* What a step does, as far as chains are concerned.
Passes(x) == at[x] = "redisGet" /\ at'[x] = "findOwner"

Mints(x) == at[x] = "issue" /\ at'[x] = "ok"

Revokes(x) == at[x] = "revoke" /\ at'[x] = "ok" /\ failures' = failures

Origin(x) == IF call[x] = "refresh" THEN chain[sent[x]] ELSE got'[x]

\* Every step is observed.
Observe ==
  /\ chain' = IF \E x \in Exchanges : Mints(x)
              THEN [chain EXCEPT ![issued'] = Origin(CHOOSE x \in Exchanges : Mints(x))]
              ELSE chain
  /\ raced' = raced \cup
       {chain[sent[x]] : x \in {y \in Exchanges :
          Passes(y) /\ \E z \in Exchanges : Holds(z) /\ sent[z] = sent[y]}}
  /\ ended' = ended \cup
       {chain[sent[x]] : x \in {y \in Exchanges :
          /\ Revokes(y) /\ sent[y] \in valid
          /\ \A z \in Exchanges : Holds(z) => sent[z] # sent[y]}}

\* The server with any clients.
ChainSpec ==
  /\ SessionInit /\ HistoryInit
  /\ [][SessionNext /\ Observe]_<<sessionVars, history>>

\* The server with the shipped client.
ShippedChainSpec ==
  /\ Init /\ HistoryInit
  /\ [][Next /\ Observe]_<<vars, history>>

-----------------------------------------------------------------------------
\* The live sessions of chain c, and the refreshes about to issue one.
Live(c) == {s \in valid : chain[s] = c}

Coming(c) == {x \in Exchanges : Rotating(x) /\ chain[sent[x]] = c}

\* A login has one session: however often it is rotated, whatever old tokens are
\* presented and whatever fails, of one chain never two sessions live, or are
\* about to, unless two refreshes had found one session alive before either
\* deleted it.
OneSessionPerLogin ==
  \A c \in Sessions \ raced : Cardinality(Live(c)) + Cardinality(Coming(c)) <= 1

\* Logging out signs out: once a logout has found its session alive, with no
\* refresh of it past its look at the jti, no session of the chain lives or is
\* about to, ever - not the one that was presented and none minted from it.
LogoutEndsChain ==
  \A c \in ended \ raced : Live(c) = {} /\ Coming(c) = {}
=============================================================================
