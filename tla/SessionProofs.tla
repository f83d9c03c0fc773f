---------------------------- MODULE SessionProofs ----------------------------
(***************************************************************************)
(* Proofs about Session.tla, for any number of exchanges, any clients and  *)
(* any order of failures: the type invariant, that a login keeps one       *)
(* session however often it is rotated, and that a logout ends the chain   *)
(* of its session; that the client of WebAuth.tla is one of those clients, *)
(* so that all of it holds of the shipped one; and what the single flight  *)
(* of that client keeps for a page that is alone.                          *)
(***************************************************************************)
EXTENDS SessionChains, FiniteSetTheorems, TLAPS

\* The endpoint a handler belongs to, by what it awaits.  Without it nothing
\* ties an exchange that is about to issue, or is answered, to its token.
HandlersOwnCalls ==
  \A x \in Exchanges :
    /\ at[x] = "findLogin" => call[x] = "login"
    /\ at[x] \in {"redisGet", "findOwner", "delJti", "delGone"} => call[x] = "refresh"
    /\ at[x] = "issue" => call[x] \in {"login", "refresh"}
    /\ at[x] = "revoke" => call[x] = "logout"
    /\ at[x] \in {"guard", "findUser", "update", "serve"}
         => call[x] \in {"me", "profile", "api"}

SessionInv ==
  /\ SessionTypeOK
  /\ HandlersOwnCalls

\* Where a request starts: in a handler of its endpoint, never about to issue,
\* and answered at once only when it came without a token.
LEMMA EntryStarts ==
  ASSUME NEW c \in Endpoints, NEW t
  PROVE  /\ Entry(c, t) \in {"findLogin", "redisGet", "revoke", "guard", "unauthorized", "ok"}
         /\ Entry(c, t) = "findLogin" => c = "login"
         /\ Entry(c, t) = "redisGet" => c = "refresh"
         /\ Entry(c, t) = "revoke" => c = "logout"
         /\ Entry(c, t) = "guard" => c \in {"me", "profile", "api"}
         /\ Entry(c, t) = "ok" => t = NoToken
<1>1. CASE c = "login"
  BY <1>1 DEF Entry
<1>2. CASE c = "refresh"
  BY <1>2 DEF Entry
<1>3. CASE c = "logout"
  BY <1>3 DEF Entry
<1>4. CASE c \in {"me", "profile", "api"}
  BY <1>4 DEF Entry
<1> QED
  BY <1>1, <1>2, <1>3, <1>4 DEF Endpoints

\* The steps of a handler, of time and of failures keep the invariant.
LEMMA ServerKeeps ==
  ASSUME SessionInv, ServerStep
  PROVE  SessionInv'
<1> USE SessionAssumption DEF SessionTypeOK, HandlersOwnCalls, Goto, server, exchange,
        Awaits, Answers, Endpoints
<1>1. ASSUME NEW x \in Exchanges, LoginFind(x) PROVE SessionInv'
  BY <1>1, SMTT(60) DEF SessionInv, LoginFind
<1>2. ASSUME NEW x \in Exchanges, RefreshGet(x) PROVE SessionInv'
  BY <1>2, SMTT(60) DEF SessionInv, RefreshGet
<1>3. ASSUME NEW x \in Exchanges, RefreshFindOwner(x) PROVE SessionInv'
  BY <1>3, SMTT(60) DEF SessionInv, RefreshFindOwner
<1>4. ASSUME NEW x \in Exchanges, RefreshDel(x) PROVE SessionInv'
  <2>1. SessionTypeOK'
    BY <1>4 DEF SessionInv, RefreshDel
  <2>2. HandlersOwnCalls'
    BY <1>4 DEF SessionInv, RefreshDel
  <2> QED
    BY <2>1, <2>2 DEF SessionInv
<1>5. ASSUME NEW x \in Exchanges, RefreshDelGone(x) PROVE SessionInv'
  <2>1. SessionTypeOK'
    BY <1>5 DEF SessionInv, RefreshDelGone
  <2>2. HandlersOwnCalls'
    BY <1>5 DEF SessionInv, RefreshDelGone
  <2> QED
    BY <2>1, <2>2 DEF SessionInv
<1>6. ASSUME NEW x \in Exchanges, IssueSession(x) PROVE SessionInv'
  BY <1>6, SMTT(60) DEF SessionInv, IssueSession
<1>7. ASSUME NEW x \in Exchanges, IssueBound(x) PROVE SessionInv'
  BY <1>7, SMTT(60) DEF SessionInv, IssueBound
<1>8. ASSUME NEW x \in Exchanges, LogoutDel(x) PROVE SessionInv'
  <2>1. SessionTypeOK'
    BY <1>8 DEF SessionInv, LogoutDel
  <2>2. HandlersOwnCalls'
    BY <1>8 DEF SessionInv, LogoutDel
  <2> QED
    BY <2>1, <2>2 DEF SessionInv
<1>9. ASSUME NEW x \in Exchanges, Guard(x) PROVE SessionInv'
  BY <1>9, SMTT(60) DEF SessionInv, Guard
<1>10. ASSUME NEW x \in Exchanges, FindUser(x) PROVE SessionInv'
  BY <1>10, SMTT(60) DEF SessionInv, FindUser
<1>11. ASSUME NEW x \in Exchanges, UpdateProfile(x) PROVE SessionInv'
  BY <1>11, SMTT(60) DEF SessionInv, UpdateProfile
<1>12. ASSUME NEW x \in Exchanges, ServeApi(x) PROVE SessionInv'
  BY <1>12, SMTT(60) DEF SessionInv, ServeApi
<1>13. ASSUME NEW x \in Exchanges, Fail(x) PROVE SessionInv'
  <2>1. SessionTypeOK'
    BY <1>13 DEF SessionInv, Fail, NoToken
  <2>2. HandlersOwnCalls'
    BY <1>13 DEF SessionInv, Fail
  <2> QED
    BY <2>1, <2>2 DEF SessionInv
<1>14. ASSUME Cleanup PROVE SessionInv'
  <2>1. SessionTypeOK'
    BY <1>14 DEF SessionInv, Cleanup
  <2>2. HandlersOwnCalls'
    BY <1>14 DEF SessionInv, Cleanup
  <2> QED
    BY <2>1, <2>2 DEF SessionInv
<1>15. ASSUME ExpireAccess PROVE SessionInv'
  BY <1>15, SMTT(60) DEF SessionInv, ExpireAccess
<1> QED
  BY <1>1, <1>2, <1>3, <1>4, <1>5, <1>6, <1>7, <1>8, <1>9, <1>10, <1>11, <1>12,
     <1>13, <1>14, <1>15 DEF ServerStep, Handle

\* So does whatever a client sends.
LEMMA ClientKeeps ==
  ASSUME SessionInv, ClientStep
  PROVE  SessionInv'
<1> USE DEF ClientStep, server, NoToken
<1>1. \A x \in Exchanges :
        \/ call'[x] = call[x] /\ at'[x] = at[x] /\ sent'[x] = sent[x]
        \/ at'[x] = "none"
        \/ call'[x] \in Endpoints /\ at'[x] = Entry(call'[x], sent'[x])
  OBVIOUS
<1>2. \A x \in Exchanges : at'[x] \in Awaits \cup Answers \cup {"none"}
  BY <1>1, EntryStarts DEF SessionInv, SessionTypeOK, Awaits, Answers
<1>3. SessionTypeOK'
  BY <1>2, SMTT(60) DEF SessionInv, SessionTypeOK
<1>4. HandlersOwnCalls'
  BY <1>1, EntryStarts DEF SessionInv, HandlersOwnCalls
<1> QED
  BY <1>3, <1>4 DEF SessionInv

\* The inductive invariant holds in every reachable state.
THEOREM SessionInvariance == SessionSpec => []SessionInv
<1>1. SessionInit => SessionInv
  BY SessionAssumption DEF SessionInit, SessionInv, SessionTypeOK, HandlersOwnCalls,
     NoToken, Awaits, Answers, Endpoints
<1>2. SessionInv /\ [SessionNext]_sessionVars => SessionInv'
  <2> SUFFICES ASSUME SessionInv, [SessionNext]_sessionVars PROVE SessionInv'
    OBVIOUS
  <2>1. CASE ServerStep
    BY <2>1, ServerKeeps
  <2>2. CASE ClientStep
    BY <2>2, ClientKeeps
  <2>3. CASE UNCHANGED sessionVars
    BY <2>3 DEF SessionInv, SessionTypeOK, HandlersOwnCalls, sessionVars
  <2> QED
    BY <2>1, <2>2, <2>3 DEF SessionNext
<1> QED
  BY <1>1, <1>2, PTL DEF SessionSpec

\* Types, and with them that no token is sent that was not issued.
THEOREM TypeCorrectness == SessionSpec => []SessionTypeOK
BY SessionInvariance, PTL DEF SessionInv

-----------------------------------------------------------------------------
(***************************************************************************)
(* Chains: for a chain that was never raced, at most one of its sessions   *)
(* lives or is about to, and at most one refresh has found it alive.       *)
(***************************************************************************)
Of(x, c) == chain[sent[x]] = c

OneHeir(c) ==
  /\ \A s, t \in valid : chain[s] = c /\ chain[t] = c => s = t
  /\ \A x, y \in Exchanges :
       Rotating(x) /\ Rotating(y) /\ Of(x, c) /\ Of(y, c) => x = y
  /\ \A x \in Exchanges, s \in valid : Rotating(x) /\ Of(x, c) => chain[s] # c

\* A refresh that holds a session holds the only one, and will be its only heir.
OneHolder(c) ==
  \A x \in Exchanges : Holds(x) /\ Of(x, c) =>
    /\ \A s \in valid : chain[s] = c => s = sent[x]
    /\ \A y \in Exchanges : Holds(y) /\ Of(y, c) => y = x
    /\ \A y \in Exchanges : Rotating(y) => ~ Of(y, c)

\* Nothing is left that could bring an ended chain back.
Over(c) ==
  /\ \A s \in valid : chain[s] # c
  /\ \A x \in Exchanges : Holds(x) \/ Rotating(x) => ~ Of(x, c)

ChainInv ==
  /\ chain \in [Sessions -> 0..issued]
  /\ ended \subseteq 0..issued
  /\ \A x \in Exchanges : Holds(x) \/ Rotating(x) => sent[x] \in 1..issued
  /\ \A c \in 0..issued : c \notin raced =>
       OneHeir(c) /\ OneHolder(c) /\ (c \in ended => Over(c))

\* A step that mints and revokes nothing changes no history but raced, which
\* only grows.
LEMMA QuietHistory ==
  ASSUME Observe, \A x \in Exchanges : ~ Mints(x) /\ ~ Revokes(x)
  PROVE  chain' = chain /\ ended' = ended /\ raced \subseteq raced'
BY DEF Observe

\* Sessions that die and refreshes that end leave less to say.
LEMMA LessKeeps ==
  ASSUME ChainInv, SessionInv, chain' = chain, ended' \subseteq 0..issued,
         raced \subseteq raced', issued' = issued, valid' \subseteq valid,
         \A x \in Exchanges : Holds(x)' => Holds(x) /\ sent'[x] = sent[x],
         \A x \in Exchanges : Rotating(x)' => Rotating(x) /\ sent'[x] = sent[x],
         \A c \in 0..issued : c \in ended' \ ended => c \in raced' \/ Over(c)'
  PROVE  ChainInv'
<1>1. /\ chain' \in [Sessions -> 0..issued'] /\ ended' \subseteq 0..issued'
      /\ \A x \in Exchanges : (Holds(x) \/ Rotating(x))' => sent'[x] \in 1..issued'
  BY DEF ChainInv
<1>2. ASSUME NEW c \in 0..issued, c \notin raced'
      PROVE  OneHeir(c)' /\ OneHolder(c)' /\ (c \in ended' => Over(c)')
  <2>1. OneHeir(c) /\ OneHolder(c) /\ (c \in ended => Over(c))
    BY <1>2 DEF ChainInv
  <2>2. \A x \in Exchanges : (Holds(x) \/ Rotating(x))' => (Of(x, c)' <=> Of(x, c))
    BY DEF Of
  <2>3. OneHeir(c)'
    BY <2>1, <2>2 DEF OneHeir
  <2>4. OneHolder(c)'
    BY <2>1, <2>2 DEF OneHolder
  <2>5. c \in ended => Over(c)'
    BY <2>1, <2>2 DEF Over
  <2>. QED BY <1>2, <2>3, <2>4, <2>5
<1>. QED BY <1>1, <1>2 DEF ChainInv

\* One handler takes one step to another await, and no session is touched.
LEMMA GotoKeeps ==
  ASSUME ChainInv, SessionInv, Observe, NEW x \in Exchanges, NEW a,
         at' = [at EXCEPT ![x] = a], UNCHANGED <<issued, valid, call, sent>>,
         at[x] # "issue" \/ a # "ok",
         at[x] # "revoke" \/ a # "ok" \/ failures' # failures,
         a \in {"findOwner", "delJti"} => Holds(x),
         a = "issue" => call[x] = "login"
  PROVE  ChainInv'
<1>1. at'[x] = a /\ \A y \in Exchanges : y # x => at'[y] = at[y]
  BY DEF SessionInv, SessionTypeOK
<1>2. \A y \in Exchanges : ~ Mints(y) /\ ~ Revokes(y)
  BY <1>1 DEF Mints, Revokes
<1>3. \A y \in Exchanges : (Holds(y)' => Holds(y)) /\ (Rotating(y)' => Rotating(y))
  BY <1>1 DEF Holds, Rotating
<1>4. ended \subseteq 0..issued
  BY DEF ChainInv
<1>. QED BY <1>2, <1>3, <1>4, QuietHistory, LessKeeps

\* A refresh finds its session alive: no other does, or the chain is raced.
LEMMA GetKeeps ==
  ASSUME ChainInv, SessionInv, Observe, NEW x \in Exchanges, RefreshGet(x)
  PROVE  ChainInv'
<1> USE DEF Goto, server
<1>1. CASE sent[x] \notin valid
  <2>1. at' = [at EXCEPT ![x] = "unauthorized"] /\ UNCHANGED <<issued, valid, call, sent>>
        /\ at[x] = "redisGet"
    BY <1>1 DEF RefreshGet
  <2>. QED BY <2>1, GotoKeeps
<1>2. CASE sent[x] \in valid
  <2>1. /\ at[x] = "redisGet" /\ at'[x] = "findOwner"
        /\ \A y \in Exchanges : y # x => at'[y] = at[y]
        /\ UNCHANGED <<issued, valid, call, sent>> /\ sent[x] \in 1..issued
    BY <1>2 DEF RefreshGet, SessionInv, SessionTypeOK
  <2>2. \A y \in Exchanges : ~ Mints(y) /\ ~ Revokes(y)
    BY <2>1 DEF Mints, Revokes
  <2>3. chain' = chain /\ ended' = ended /\ raced \subseteq raced'
    BY <2>2, QuietHistory
  <2>4. ASSUME NEW z \in Exchanges, Holds(z), sent[z] = sent[x] PROVE chain[sent[x]] \in raced'
    BY <2>1, <2>4 DEF Observe, Passes
  <2>5. /\ \A y \in Exchanges : Holds(y)' <=> Holds(y) \/ y = x
        /\ \A y \in Exchanges : Rotating(y)' <=> Rotating(y)
        /\ ~ Holds(x) /\ ~ Rotating(x)
    BY <2>1 DEF Holds, Rotating
  <2>6. \A y \in Exchanges, c \in 0..issued : Of(y, c)' <=> Of(y, c)
    BY <2>1, <2>3 DEF Of
  <2>7. ASSUME NEW c \in 0..issued, c \notin raced'
        PROVE  OneHeir(c)' /\ OneHolder(c)' /\ (c \in ended' => Over(c)')
    <3>1. OneHeir(c) /\ OneHolder(c) /\ (c \in ended => Over(c))
      BY <2>3, <2>7 DEF ChainInv
    <3>2. OneHeir(c)'
      BY <2>1, <2>3, <2>5, <2>6, <3>1 DEF OneHeir
    <3>3. CASE ~ Of(x, c)
      <4>1. OneHolder(c)'
        BY <2>1, <2>3, <2>5, <2>6, <3>1, <3>3 DEF OneHolder
      <4>2. c \in ended => Over(c)'
        BY <2>1, <2>3, <2>5, <2>6, <3>1, <3>3 DEF Over
      <4>. QED BY <2>3, <3>2, <4>1, <4>2
    <3>4. CASE Of(x, c)
      <4>1. chain[sent[x]] = c
        BY <3>4 DEF Of
      <4>2. c \notin ended
        BY <1>2, <3>1, <4>1 DEF Over
      <4>3. \A y \in Exchanges : Holds(y) => ~ Of(y, c)
        <5> SUFFICES ASSUME NEW y \in Exchanges, Holds(y), Of(y, c) PROVE FALSE
          OBVIOUS
        <5>1. sent[y] = sent[x]
          BY <1>2, <3>1, <4>1 DEF OneHolder
        <5>. QED BY <2>4, <2>7, <4>1, <5>1
      <4>4. \A s \in valid : chain[s] = c => s = sent[x]
        BY <1>2, <3>1, <4>1 DEF OneHeir
      <4>5. \A y \in Exchanges : Rotating(y) => ~ Of(y, c)
        BY <1>2, <3>1, <4>1 DEF OneHeir
      <4>6. OneHolder(c)'
        BY <2>1, <2>3, <2>5, <2>6, <4>3, <4>4, <4>5 DEF OneHolder
      <4>. QED BY <2>3, <3>2, <4>2, <4>6
    <3>. QED BY <3>3, <3>4
  <2>8. \A y \in Exchanges : (Holds(y) \/ Rotating(y))' => sent'[y] \in 1..issued'
    BY <2>1, <2>5 DEF ChainInv
  <2>. QED BY <2>1, <2>3, <2>7, <2>8 DEF ChainInv
<1>. QED BY <1>1, <1>2

\* It deletes the session it holds, the only one that lived.
LEMMA DelKeeps ==
  ASSUME ChainInv, SessionInv, Observe, NEW x \in Exchanges, RefreshDel(x)
  PROVE  ChainInv'
<1>1. /\ at[x] = "delJti" /\ at'[x] = "issue" /\ call[x] = "refresh"
      /\ \A y \in Exchanges : y # x => at'[y] = at[y]
      /\ valid' = valid \ {sent[x]} /\ UNCHANGED <<issued, call, sent>>
  BY DEF RefreshDel, Goto, SessionInv, SessionTypeOK, HandlersOwnCalls
<1>2. \A y \in Exchanges : ~ Mints(y) /\ ~ Revokes(y)
  BY <1>1 DEF Mints, Revokes
<1>3. chain' = chain /\ ended' = ended /\ raced \subseteq raced'
  BY <1>2, QuietHistory
<1>4. /\ \A y \in Exchanges : Holds(y)' <=> Holds(y) /\ y # x
      /\ \A y \in Exchanges : Rotating(y)' <=> Rotating(y) \/ y = x
      /\ Holds(x) /\ ~ Rotating(x)
  BY <1>1 DEF Holds, Rotating
<1>5. \A y \in Exchanges, c \in 0..issued : Of(y, c)' <=> Of(y, c)
  BY <1>1, <1>3 DEF Of
<1>6. ASSUME NEW c \in 0..issued, c \notin raced'
      PROVE  OneHeir(c)' /\ OneHolder(c)' /\ (c \in ended' => Over(c)')
  <2>1. OneHeir(c) /\ OneHolder(c) /\ (c \in ended => Over(c))
    BY <1>3, <1>6 DEF ChainInv
  <2>2. CASE ~ Of(x, c)
    <3>1. OneHeir(c)'
      BY <1>1, <1>3, <1>4, <1>5, <2>1, <2>2 DEF OneHeir
    <3>2. OneHolder(c)'
      BY <1>1, <1>3, <1>4, <1>5, <2>1, <2>2 DEF OneHolder
    <3>3. c \in ended => Over(c)'
      BY <1>1, <1>3, <1>4, <1>5, <2>1, <2>2 DEF Over
    <3>. QED BY <1>3, <3>1, <3>2, <3>3
  <2>3. CASE Of(x, c)
    <3>1. /\ \A s \in valid : chain[s] = c => s = sent[x]
          /\ \A y \in Exchanges : Holds(y) /\ Of(y, c) => y = x
          /\ \A y \in Exchanges : Rotating(y) => ~ Of(y, c)
      BY <1>4, <2>1, <2>3 DEF OneHolder
    <3>2. OneHeir(c)'
      BY <1>1, <1>3, <1>4, <1>5, <3>1 DEF OneHeir
    <3>3. OneHolder(c)'
      BY <1>1, <1>3, <1>4, <1>5, <3>1 DEF OneHolder
    <3>4. c \notin ended
      BY <1>4, <2>1, <2>3 DEF Over
    <3>. QED BY <1>3, <3>2, <3>3, <3>4
  <2>. QED BY <2>2, <2>3
<1>7. \A y \in Exchanges : (Holds(y) \/ Rotating(y))' => sent'[y] \in 1..issued'
  BY <1>1, <1>4 DEF ChainInv
<1>. QED BY <1>1, <1>3, <1>6, <1>7 DEF ChainInv

\* A session is issued: the first of a chain, or the heir of one that is dead.
LEMMA IssueKeeps ==
  ASSUME ChainInv, SessionInv, Observe, NEW x \in Exchanges, IssueSession(x)
  PROVE  ChainInv'
<1> DEFINE new == issued + 1
<1>1. /\ at[x] = "issue" /\ at'[x] = "ok" /\ got'[x] = new /\ call[x] \in {"login", "refresh"}
      /\ \A y \in Exchanges : y # x => at'[y] = at[y]
      /\ issued' = new /\ valid' = valid \cup {new} /\ UNCHANGED <<call, sent, failures>>
  BY DEF IssueSession, SessionInv, SessionTypeOK, HandlersOwnCalls
<1>2. /\ new \in Sessions /\ new \notin valid /\ valid \subseteq 1..issued /\ issued \in Nat
      /\ \A s \in valid : s \in Sessions
  BY SessionAssumption DEF IssueSession, SessionInv, SessionTypeOK, Sessions
<1>3. /\ \A y \in Exchanges : Mints(y) <=> y = x
      /\ \A y \in Exchanges : ~ Revokes(y)
  BY <1>1 DEF Mints, Revokes
<1>4. ended' = ended /\ raced \subseteq raced' /\ chain' = [chain EXCEPT ![new] = Origin(x)]
  <2>1. (CHOOSE y \in Exchanges : Mints(y)) = x
    BY <1>3
  <2>2. chain' = [chain EXCEPT ![issued'] = Origin(CHOOSE y \in Exchanges : Mints(y))]
    BY <1>3 DEF Observe
  <2>. QED BY <1>1, <1>3, <2>1, <2>2 DEF Observe
<1>5. Origin(x) = IF call[x] = "refresh" THEN chain[sent[x]] ELSE new
  BY <1>1 DEF Origin
<1>6. /\ call[x] = "refresh" => Rotating(x) /\ sent[x] \in 1..issued
      /\ \A y \in Exchanges : Holds(y)' <=> Holds(y)
      /\ \A y \in Exchanges : Rotating(y)' <=> Rotating(y) /\ y # x
      /\ ~ Holds(x)
  BY <1>1 DEF Holds, Rotating, ChainInv
<1>7. /\ chain \in [Sessions -> 0..issued] /\ ended \subseteq 0..issued
      /\ \A y \in Exchanges : Holds(y) \/ Rotating(y) => sent[y] \in 1..issued
  BY DEF ChainInv
<1>8. Origin(x) \in 0..new /\ (call[x] = "refresh" => Origin(x) \in 0..issued)
  BY <1>2, <1>5, <1>6, <1>7, SessionAssumption DEF Sessions, IssueSession
<1>9. /\ chain'[new] = Origin(x)
      /\ \A s \in Sessions : s # new => chain'[s] = chain[s]
      /\ chain' \in [Sessions -> 0..new]
  BY <1>2, <1>4, <1>7, <1>8
<1>10. \A y \in Exchanges : Holds(y) \/ Rotating(y) =>
         /\ sent[y] \in Sessions /\ sent[y] # new /\ chain'[sent[y]] = chain[sent[y]]
         /\ chain[sent[y]] \in 0..issued
  <2>1. 1..issued \subseteq Sessions /\ new \notin 1..issued
    BY <1>2, SessionAssumption DEF Sessions, IssueSession
  <2>. QED BY <1>7, <1>9, <2>1
<1>11. \A s \in valid : s # new /\ chain'[s] = chain[s] /\ chain[s] \in 0..issued
  BY <1>2, <1>7, <1>9
<1> HIDE DEF new
<1>12. \A y \in Exchanges, c \in 0..new : (Holds(y) \/ Rotating(y)) => (Of(y, c)' <=> Of(y, c))
  BY <1>1, <1>10 DEF Of
<1>13. ASSUME NEW c \in 0..issued, c \notin raced', Origin(x) # c
       PROVE  OneHeir(c)' /\ OneHolder(c)' /\ (c \in ended' => Over(c)')
  <2>1. OneHeir(c) /\ OneHolder(c) /\ (c \in ended => Over(c))
    BY <1>4, <1>13 DEF ChainInv
  <2>2. \A y \in Exchanges : (Holds(y) \/ Rotating(y)) => (Of(y, c)' <=> Of(y, c))
    BY <1>1, <1>10 DEF Of
  <2>3. OneHeir(c)'
    BY <1>1, <1>6, <1>9, <1>11, <1>13, <2>1, <2>2 DEF OneHeir
  <2>4. OneHolder(c)'
    BY <1>1, <1>6, <1>9, <1>11, <1>13, <2>1, <2>2 DEF OneHolder
  <2>5. c \in ended => Over(c)'
    BY <1>1, <1>6, <1>9, <1>11, <1>13, <2>1, <2>2 DEF Over
  <2>. QED BY <1>4, <2>3, <2>4, <2>5
<1>14. ASSUME NEW c \in 0..issued, c \notin raced', Origin(x) = c
       PROVE  OneHeir(c)' /\ OneHolder(c)' /\ (c \in ended' => Over(c)')
  <2>1. OneHeir(c) /\ OneHolder(c) /\ (c \in ended => Over(c))
    BY <1>4, <1>14 DEF ChainInv
  <2>2. Rotating(x) /\ Of(x, c)
    <3>1. call[x] = "refresh"
      BY <1>2, <1>5, <1>14 DEF new
    <3>. QED BY <1>5, <1>6, <1>14, <3>1 DEF Of
  <2>3. /\ \A s \in valid : chain[s] # c
        /\ \A y \in Exchanges : Rotating(y) /\ Of(y, c) => y = x
        /\ \A y \in Exchanges : Holds(y) => ~ Of(y, c)
    BY <2>1, <2>2 DEF OneHeir, OneHolder
  <2>4. \A y \in Exchanges : (Holds(y) \/ Rotating(y)) => (Of(y, c)' <=> Of(y, c))
    BY <1>1, <1>10 DEF Of
  <2>5. OneHeir(c)'
    BY <1>1, <1>6, <1>11, <2>3, <2>4 DEF OneHeir
  <2>6. OneHolder(c)'
    BY <1>1, <1>6, <2>3, <2>4 DEF OneHolder
  <2>7. c \notin ended
    BY <2>1, <2>2 DEF Over
  <2>. QED BY <1>4, <2>5, <2>6, <2>7
<1>15. ASSUME NEW c, c = new
       PROVE  OneHeir(c)' /\ OneHolder(c)' /\ (c \in ended' => Over(c)')
  <2>1. c \notin 0..issued /\ c \notin ended'
    BY <1>2, <1>4, <1>7, <1>15 DEF new
  <2>2. \A y \in Exchanges : (Holds(y) \/ Rotating(y))' => ~ Of(y, c)'
    BY <1>1, <1>6, <1>10, <2>1 DEF Of
  <2>3. \A s \in valid' : chain'[s] = c => s = new
    BY <1>1, <1>11, <2>1
  <2>. QED BY <2>1, <2>2, <2>3 DEF OneHeir, OneHolder
<1>16. \A c \in 0..issued' : c \in 0..issued \/ c = new
  BY <1>1, <1>2 DEF new
<1>17. \A y \in Exchanges : (Holds(y) \/ Rotating(y))' => sent'[y] \in 1..issued'
  BY <1>1, <1>2, <1>6, <1>7 DEF new
<1>18. ended' \subseteq 0..issued'
  BY <1>1, <1>2, <1>4, <1>7 DEF new
<1>. QED BY <1>1, <1>9, <1>13, <1>14, <1>15, <1>16, <1>17, <1>18 DEF ChainInv

\* A logout deletes the session it presents: when it lived and no refresh holds
\* it, that was all there was of the chain.
LEMMA LogoutKeeps ==
  ASSUME ChainInv, SessionInv, Observe, NEW x \in Exchanges, LogoutDel(x)
  PROVE  ChainInv'
<1>1. /\ at[x] = "revoke" /\ at'[x] = "ok"
      /\ \A y \in Exchanges : y # x => at'[y] = at[y]
      /\ valid' = valid \ {sent[x]} /\ UNCHANGED <<issued, call, sent, failures>>
  BY DEF LogoutDel, Goto, SessionInv, SessionTypeOK
<1>2. /\ \A y \in Exchanges : ~ Mints(y)
      /\ \A y \in Exchanges : Revokes(y) <=> y = x
  BY <1>1 DEF Mints, Revokes
<1>3. chain' = chain /\ raced \subseteq raced'
  BY <1>2 DEF Observe
<1>4. \A c : c \in ended' \ ended =>
        /\ c = chain[sent[x]] /\ sent[x] \in valid
        /\ \A z \in Exchanges : Holds(z) => sent[z] # sent[x]
  BY <1>2 DEF Observe
<1>5. \A y \in Exchanges : (Holds(y)' <=> Holds(y)) /\ (Rotating(y)' <=> Rotating(y))
  BY <1>1 DEF Holds, Rotating
<1>6. ended' \subseteq 0..issued
  <2>1. sent[x] \in valid => chain[sent[x]] \in 0..issued
    BY SessionAssumption DEF SessionInv, SessionTypeOK, ChainInv, Sessions
  <2>2. ended \subseteq 0..issued
    BY DEF ChainInv
  <2>3. ASSUME NEW c \in ended' PROVE c \in 0..issued
    <3>1. CASE c \in ended
      BY <2>2, <3>1
    <3>2. CASE c \notin ended
      BY <1>4, <2>1, <3>2
    <3>. QED BY <3>1, <3>2
  <2>. QED BY <2>3
<1>7. ASSUME NEW c \in 0..issued, c \in ended' \ ended, c \notin raced'
      PROVE  Over(c)'
  <2>1. OneHeir(c) /\ OneHolder(c)
    BY <1>3, <1>7 DEF ChainInv
  <2>2. /\ c = chain[sent[x]] /\ sent[x] \in valid
        /\ \A z \in Exchanges : Holds(z) => sent[z] # sent[x]
    BY <1>4, <1>7
  <2>3. \A s \in valid' : chain[s] # c
    BY <1>1, <2>1, <2>2 DEF OneHeir
  <2>4. \A y \in Exchanges : Rotating(y) => ~ Of(y, c)
    BY <2>1, <2>2 DEF OneHeir
  <2>5. \A y \in Exchanges : Holds(y) => ~ Of(y, c)
    BY <2>1, <2>2 DEF OneHolder
  <2>. QED BY <1>1, <1>3, <1>5, <2>3, <2>4, <2>5 DEF Over, Of
<1>. QED BY <1>1, <1>3, <1>5, <1>6, <1>7, LessKeeps

\* The other steps of the server.
LEMMA ChainServerKeeps ==
  ASSUME ChainInv, SessionInv, Observe, ServerStep
  PROVE  ChainInv'
<1> USE DEF Goto, server, exchange, SessionInv, SessionTypeOK, HandlersOwnCalls
<1>1. ASSUME NEW x \in Exchanges, LoginFind(x) PROVE ChainInv'
  BY <1>1, GotoKeeps DEF LoginFind
<1>2. ASSUME NEW x \in Exchanges, RefreshFindOwner(x) PROVE ChainInv'
  BY <1>2, GotoKeeps DEF RefreshFindOwner, Holds
<1>3. ASSUME NEW x \in Exchanges, RefreshDelGone(x) PROVE ChainInv'
  <2>1. /\ at[x] = "delGone" /\ at'[x] = "unauthorized"
        /\ \A y \in Exchanges : y # x => at'[y] = at[y]
        /\ valid' \subseteq valid /\ UNCHANGED <<issued, call, sent, failures>>
    BY <1>3 DEF RefreshDelGone
  <2>2. \A y \in Exchanges : ~ Mints(y) /\ ~ Revokes(y)
    BY <2>1 DEF Mints, Revokes
  <2>3. \A y \in Exchanges : (Holds(y)' => Holds(y)) /\ (Rotating(y)' => Rotating(y))
    BY <2>1 DEF Holds, Rotating
  <2>4. ended \subseteq 0..issued
    BY DEF ChainInv
  <2>. QED BY <2>1, <2>2, <2>3, <2>4, QuietHistory, LessKeeps
<1>4. ASSUME NEW x \in Exchanges, IssueBound(x) PROVE ChainInv'
  BY <1>4, GotoKeeps DEF IssueBound
<1>5. ASSUME NEW x \in Exchanges, Guard(x) PROVE ChainInv'
  <2>1. \E a \in {"unauthorized", "findUser", "update", "serve"} : at' = [at EXCEPT ![x] = a]
    BY <1>5 DEF Guard
  <2>. QED BY <1>5, <2>1, GotoKeeps DEF Guard
<1>6. ASSUME NEW x \in Exchanges, FindUser(x) \/ UpdateProfile(x) \/ ServeApi(x) PROVE ChainInv'
  BY <1>6, GotoKeeps DEF FindUser, UpdateProfile, ServeApi
<1>7. ASSUME NEW x \in Exchanges, Fail(x) PROVE ChainInv'
  <2>1. /\ failures' # failures /\ UNCHANGED <<issued, valid, call, sent>>
        /\ \/ at' = [at EXCEPT ![x] = "error"]
           \/ at[x] = "revoke" /\ at' = [at EXCEPT ![x] = "ok"]
    BY <1>7, SessionAssumption DEF Fail
  <2>. QED BY <2>1, GotoKeeps
<1>8. CASE Cleanup \/ ExpireAccess
  <2>1. UNCHANGED <<issued, valid, call, sent, at>>
    BY <1>8 DEF Cleanup, ExpireAccess
  <2>2. \A y \in Exchanges : ~ Mints(y) /\ ~ Revokes(y)
    BY <2>1 DEF Mints, Revokes
  <2>3. \A y \in Exchanges : (Holds(y)' => Holds(y)) /\ (Rotating(y)' => Rotating(y))
    BY <2>1 DEF Holds, Rotating
  <2>4. ended \subseteq 0..issued
    BY DEF ChainInv
  <2>. QED BY <2>1, <2>2, <2>3, <2>4, QuietHistory, LessKeeps
<1>. QED BY <1>1, <1>2, <1>3, <1>4, <1>5, <1>6, <1>7, <1>8, GetKeeps, DelKeeps, IssueKeeps,
            LogoutKeeps DEF ServerStep, Handle

\* Requests hold nothing yet, and answers nothing any more.
LEMMA ChainClientKeeps ==
  ASSUME ChainInv, SessionInv, Observe, ClientStep
  PROVE  ChainInv'
<1>1. UNCHANGED <<issued, valid>>
  BY DEF ClientStep, server
<1>2. \A x \in Exchanges :
        \/ call'[x] = call[x] /\ at'[x] = at[x] /\ sent'[x] = sent[x]
        \/ /\ at[x] \in Answers \cup {"none"}
           /\ \/ at'[x] = "none"
              \/ call'[x] \in Endpoints /\ at'[x] = Entry(call'[x], sent'[x])
  BY DEF ClientStep, Received
<1>3. \A x \in Exchanges :
        \/ call'[x] = call[x] /\ at'[x] = at[x] /\ sent'[x] = sent[x]
        \/ /\ at[x] \in Answers \cup {"none"}
           /\ at'[x] \notin {"findOwner", "delJti", "issue"}
  BY <1>2, EntryStarts
<1>4. \A x \in Exchanges :
        /\ ~ Mints(x) /\ ~ Revokes(x)
        /\ Holds(x)' => Holds(x) /\ sent'[x] = sent[x]
        /\ Rotating(x)' => Rotating(x) /\ sent'[x] = sent[x]
  BY <1>3 DEF Mints, Revokes, Holds, Rotating, Answers
<1>5. ended \subseteq 0..issued
  BY DEF ChainInv
<1>. QED BY <1>1, <1>4, <1>5, QuietHistory, LessKeeps

\* The history of the chains, with any clients.
THEOREM ChainInvariance == ChainSpec => [](SessionInv /\ ChainInv)
<1>1. SessionInit /\ HistoryInit => ChainInv
  <2> SUFFICES ASSUME SessionInit, HistoryInit PROVE ChainInv
    OBVIOUS
  <2>1. /\ chain = [s \in Sessions |-> 0] /\ ended = {} /\ valid = {} /\ issued = 0
        /\ \A x \in Exchanges : ~ Holds(x) /\ ~ Rotating(x)
    BY DEF SessionInit, HistoryInit, Holds, Rotating
  <2>. QED BY <2>1 DEF ChainInv, OneHeir, OneHolder
<1>2. ChainInv /\ SessionInv /\ [SessionNext /\ Observe]_<<sessionVars, history>> => ChainInv'
  <2> SUFFICES ASSUME ChainInv, SessionInv, [SessionNext /\ Observe]_<<sessionVars, history>>
               PROVE  ChainInv'
    OBVIOUS
  <2>1. CASE SessionNext /\ Observe
    BY <2>1, ChainServerKeeps, ChainClientKeeps DEF SessionNext
  <2>2. CASE UNCHANGED <<sessionVars, history>>
    <3>1. UNCHANGED <<valid, issued, call, at, sent, chain, raced, ended>>
      BY <2>2 DEF sessionVars, history
    <3>2. /\ \A x \in Exchanges : (Holds(x)' <=> Holds(x)) /\ (Rotating(x)' <=> Rotating(x))
          /\ ended \subseteq 0..issued
      BY <3>1 DEF Holds, Rotating, ChainInv
    <3>. QED BY <3>1, <3>2, LessKeeps
  <2>. QED BY <2>1, <2>2
<1>3. ChainSpec => SessionSpec
  <2>1. [SessionNext /\ Observe]_<<sessionVars, history>> => [SessionNext]_sessionVars
    OBVIOUS
  <2>. QED BY <2>1, PTL DEF ChainSpec, SessionSpec
<1>. QED BY <1>1, <1>2, <1>3, SessionInvariance, PTL DEF ChainSpec

\* A chain that was not raced has one session, alive or coming, at most; once
\* ended it has none.
LEMMA HeirsAreFew ==
  ASSUME SessionInv, ChainInv
  PROVE  OneSessionPerLogin /\ LogoutEndsChain
<1>1. ASSUME NEW c \in 0..issued, c \notin raced
      PROVE  /\ Cardinality(Live(c)) + Cardinality(Coming(c)) <= 1
             /\ c \in ended => Live(c) = {} /\ Coming(c) = {}
  <2>1. OneHeir(c) /\ (c \in ended => Over(c))
    BY <1>1 DEF ChainInv
  <2>2. Live(c) = {} \/ \E s : Live(c) = {s}
    BY <2>1 DEF OneHeir, Live
  <2>3. Coming(c) = {} \/ \E x : Coming(c) = {x}
    BY <2>1 DEF OneHeir, Coming, Of
  <2>4. Live(c) = {} \/ Coming(c) = {}
    BY <2>1 DEF OneHeir, Coming, Live, Of
  <2>5. /\ Cardinality(Live(c)) \in {0, 1} /\ Cardinality(Coming(c)) \in {0, 1}
        /\ Live(c) = {} => Cardinality(Live(c)) = 0
        /\ Coming(c) = {} => Cardinality(Coming(c)) = 0
    BY <2>2, <2>3, FS_EmptySet, FS_Singleton
  <2>6. c \in ended => Live(c) = {} /\ Coming(c) = {}
    BY <2>1 DEF Over, Live, Coming, Of
  <2>. QED BY <2>4, <2>5, <2>6
<1>2. ASSUME NEW c \in Sessions, c \notin 0..issued
      PROVE  Cardinality(Live(c)) + Cardinality(Coming(c)) <= 1
  <2>1. \A s \in valid : chain[s] \in 0..issued
    BY SessionAssumption DEF SessionInv, SessionTypeOK, ChainInv, Sessions
  <2>2. \A x \in Exchanges : Rotating(x) => chain[sent[x]] \in 0..issued
    BY SessionAssumption DEF SessionInv, SessionTypeOK, ChainInv, Sessions
  <2>3. Live(c) = {} /\ Coming(c) = {}
    BY <1>2, <2>1, <2>2 DEF Live, Coming
  <2>. QED BY <2>3, FS_EmptySet
<1>3. OneSessionPerLogin
  BY <1>1, <1>2 DEF OneSessionPerLogin
<1>4. LogoutEndsChain
  BY <1>1 DEF LogoutEndsChain, ChainInv
<1>. QED BY <1>3, <1>4

\* Whatever clients do with their tokens, of one login never two sessions live,
\* or are about to, but where two refreshes had found one session alive before
\* either deleted it (refresh).
THEOREM LoginHasOneSession == ChainSpec => []OneSessionPerLogin
BY ChainInvariance, HeirsAreFew, PTL

\* A logout that finds its session alive, with no refresh past its look at the
\* jti, leaves nothing of the chain, for ever (logout against refresh).
THEOREM LogoutIsFinal == ChainSpec => []LogoutEndsChain
BY ChainInvariance, HeirsAreFew, PTL
-----------------------------------------------------------------------------
(***************************************************************************)
(* The client of WebAuth.tla is one of the clients of Session.tla          *)
(***************************************************************************)
\* The types of the browser.
ClientTypes ==
  /\ cookie \in 0..issued
  /\ token \in [Pages -> 0..issued]
  /\ flow \in [Slots -> Flows]
  /\ waiting \in [Slots -> BOOLEAN]
  /\ kept \in [Slots -> 0..issued]

\* An exchange under way has an endpoint; that of a page is its refresh.
CallsKnown ==
  \A x \in Exchanges :
    at[x] # "none" => call[x] # "none" /\ (x \in Pages => call[x] = "refresh")

\* A slot that does nothing has no exchange, and one that waits for the refresh
\* has none either but knows what to send again.
SlotsQuiet ==
  \A s \in Slots :
    /\ flow[s] = "idle" => at[s] = "none"
    /\ waiting[s] => at[s] = "none" /\ call[s] # "none" /\ flow[s] # "idle"

WebInv == SessionInv /\ ClientTypes /\ CallsKnown /\ SlotsQuiet

\* No handler wakes an exchange that is over, or changes what it was called for.
LEMMA ServerLeavesIdle ==
  ASSUME SessionInv, ServerStep
  PROVE  /\ call' = call /\ issued \in Nat /\ issued' \in Nat /\ issued <= issued'
         /\ \A x \in Exchanges : at'[x] = "none" <=> at[x] = "none"
<1> USE SessionAssumption DEF SessionInv, SessionTypeOK, Goto, server, exchange, Awaits, Answers
<1>1. ASSUME NEW x \in Exchanges, Handle(x) \/ Fail(x)
      PROVE  /\ call' = call /\ at[x] # "none" /\ issued' \in {issued, issued + 1}
             /\ \E await : await # "none" /\ at' = [at EXCEPT ![x] = await]
  <2>1. CASE LoginFind(x)        BY <2>1 DEF LoginFind
  <2>2. CASE RefreshGet(x)       BY <2>2 DEF RefreshGet
  <2>3. CASE RefreshFindOwner(x) BY <2>3 DEF RefreshFindOwner
  <2>4. CASE RefreshDel(x)       BY <2>4 DEF RefreshDel
  <2>5. CASE RefreshDelGone(x)   BY <2>5 DEF RefreshDelGone
  <2>6. CASE IssueSession(x)     BY <2>6 DEF IssueSession
  <2>7. CASE IssueBound(x)       BY <2>7 DEF IssueBound
  <2>8. CASE LogoutDel(x)        BY <2>8 DEF LogoutDel
  <2>9. CASE Guard(x)            BY <2>9 DEF Guard
  <2>10. CASE FindUser(x)        BY <2>10 DEF FindUser
  <2>11. CASE UpdateProfile(x)   BY <2>11 DEF UpdateProfile
  <2>12. CASE ServeApi(x)        BY <2>12 DEF ServeApi
  <2>13. CASE Fail(x)            BY <2>13 DEF Fail
  <2>. QED BY <1>1, <2>1, <2>2, <2>3, <2>4, <2>5, <2>6, <2>7, <2>8, <2>9, <2>10,
              <2>11, <2>12, <2>13 DEF Handle
<1>2. CASE \E x \in Exchanges : Handle(x) \/ Fail(x)
  BY <1>1, <1>2
<1>3. CASE Cleanup \/ ExpireAccess
  BY <1>3 DEF Cleanup, ExpireAccess
<1>. QED BY <1>2, <1>3 DEF ServerStep

\* A request starts in an awaited call, or is answered at once.
LEMMA EntryAwaits ==
  ASSUME NEW c \in Endpoints, NEW t
  PROVE  Entry(c, t) \in (Awaits \cup Answers) \ {"none"}
BY EntryStarts DEF Awaits, Answers

\* One exchange that is over, or was answered, is over or sent again.
LEMMA OneExchange ==
  ASSUME SessionTypeOK, NEW s \in Exchanges, Received(s),
         NEW c \in Endpoints \cup {"none"}, NEW a, NEW t \in 0..issued, NEW g \in 0..issued,
         a = "none" \/ (c # "none" /\ a = Entry(c, t)),
         call' = [call EXCEPT ![s] = c], at' = [at EXCEPT ![s] = a],
         sent' = [sent EXCEPT ![s] = t], got' = [got EXCEPT ![s] = g],
         UNCHANGED <<server, failures>>
  PROVE  ClientStep
<1>1. /\ call' \in [Exchanges -> Endpoints \cup {"none"}]
      /\ sent' \in [Exchanges -> 0..issued] /\ got' \in [Exchanges -> 0..issued]
  BY DEF SessionTypeOK
<1>2. at' = [x \in Exchanges |-> at'[x]]
  BY DEF SessionTypeOK
<1>3. ASSUME NEW x \in Exchanges, x # s
      PROVE  <<call[x], at[x], sent[x], got[x]>>' = <<call[x], at[x], sent[x], got[x]>>
  BY <1>3 DEF SessionTypeOK
<1>4. call'[s] = c /\ at'[s] = a /\ sent'[s] = t
  BY DEF SessionTypeOK
<1>. QED BY <1>1, <1>2, <1>3, <1>4 DEF ClientStep

\* A request of a free slot.
LEMMA StartKeeps ==
  ASSUME WebInv, NEW s \in Slots, NEW f \in Flows \ {"idle"}, NEW c \in Endpoints,
         NEW t \in 0..issued, Start(s, f, c, t)
  PROVE  /\ ClientStep /\ CallsKnown' /\ SlotsQuiet'
         /\ flow' \in [Slots -> Flows] /\ UNCHANGED <<issued, cookie, waiting, kept>>
<1>0. SessionTypeOK /\ ClientTypes /\ CallsKnown /\ SlotsQuiet
  BY DEF WebInv, SessionInv
<1>1. /\ s \in Exchanges /\ s \notin Pages /\ at[s] = "none" /\ ~ waiting[s]
      /\ 0 \in 0..issued /\ c # "none" /\ c \in Endpoints \cup {"none"}
  BY <1>0, PagesAssumption, SessionAssumption
     DEF SlotsQuiet, SessionTypeOK, Start, Endpoints
<1>2. /\ call' = [call EXCEPT ![s] = c] /\ at' = [at EXCEPT ![s] = Entry(c, t)]
      /\ sent' = [sent EXCEPT ![s] = t] /\ got' = [got EXCEPT ![s] = 0]
      /\ flow' = [flow EXCEPT ![s] = f] /\ issued' = issued
      /\ UNCHANGED <<server, failures, cookie, waiting, kept>>
  BY DEF Start, Send, Request, NoToken, server
<1>3. ClientStep
  BY <1>0, <1>1, <1>2, OneExchange DEF Received
<1>4. CallsKnown'
  BY <1>0, <1>1, <1>2 DEF CallsKnown, SessionTypeOK
<1>5. SlotsQuiet'
  BY <1>0, <1>1, <1>2, PagesAssumption DEF SlotsQuiet, ClientTypes, SessionTypeOK
<1>6. flow' \in [Slots -> Flows]
  BY <1>0, <1>2 DEF ClientTypes
<1>. QED BY <1>2, <1>3, <1>4, <1>5, <1>6

\* The promise of a slot settles with the answer to its exchange.
LEMMA SettleKeeps ==
  ASSUME WebInv, NEW s \in Slots, at[s] \in Answers, Settle(s),
         UNCHANGED <<server, failures>>
  PROVE  /\ ClientStep /\ CallsKnown' /\ SlotsQuiet'
         /\ flow' \in [Slots -> Flows] /\ UNCHANGED <<issued, waiting>>
         /\ kept' \in [Slots -> 0..issued]
<1>0. SessionTypeOK /\ ClientTypes /\ CallsKnown /\ SlotsQuiet
  BY DEF WebInv, SessionInv
<1>1. s \in Exchanges /\ s \notin Pages /\ ~ waiting[s] /\ 0 \in 0..issued
  BY <1>0, PagesAssumption, SessionAssumption DEF SlotsQuiet, Answers, SessionTypeOK
<1>2. /\ call' = [call EXCEPT ![s] = "none"] /\ at' = [at EXCEPT ![s] = "none"]
      /\ sent' = [sent EXCEPT ![s] = 0] /\ got' = [got EXCEPT ![s] = 0]
      /\ flow' = [flow EXCEPT ![s] = "idle"] /\ kept' = [kept EXCEPT ![s] = 0]
      /\ waiting' = waiting /\ issued' = issued
  BY DEF Settle, NoToken, server
<1>3. Received(s)
  BY DEF Received
<1>4. ClientStep
  BY <1>0, <1>1, <1>2, <1>3, OneExchange
<1>5. CallsKnown'
  BY <1>0, <1>1, <1>2 DEF CallsKnown, SessionTypeOK
<1>6. SlotsQuiet'
  BY <1>0, <1>1, <1>2, PagesAssumption DEF SlotsQuiet, ClientTypes, SessionTypeOK
<1>7. flow' \in [Slots -> Flows] /\ kept' \in [Slots -> 0..issued]
  BY <1>0, <1>1, <1>2 DEF ClientTypes, Flows
<1>. QED BY <1>2, <1>4, <1>5, <1>6, <1>7

\* The answer to a login or to the refresh of the bootstrap: getMe follows.
LEMMA GotTokensKeeps ==
  ASSUME WebInv, NEW s \in Slots, GotTokens(s)
  PROVE  ClientStep /\ ClientTypes' /\ CallsKnown' /\ SlotsQuiet'
<1>0. SessionTypeOK /\ ClientTypes /\ CallsKnown /\ SlotsQuiet
  BY DEF WebInv, SessionInv
<1>1. s \in Exchanges /\ s \notin Pages /\ PageOf[s] \in Pages
  BY PagesAssumption
<1>2. got[s] \in 0..issued /\ 0 \in 0..issued /\ at[s] = "ok" /\ ~ waiting[s]
  BY <1>0, <1>1, SessionAssumption DEF SlotsQuiet, SessionTypeOK, GotTokens
<1>3. /\ call' = [call EXCEPT ![s] = "me"] /\ at' = [at EXCEPT ![s] = Entry("me", got[s])]
      /\ sent' = [sent EXCEPT ![s] = got[s]] /\ got' = [got EXCEPT ![s] = 0]
      /\ UNCHANGED <<server, failures, flow, waiting>> /\ issued' = issued
      /\ cookie' = got[s] /\ token' = [token EXCEPT ![PageOf[s]] = got[s]]
      /\ kept' = [kept EXCEPT ![s] = got[s]] /\ flow[s] # "idle"
  BY DEF GotTokens, Send, Request, NoToken, server
<1>4. "me" \in Endpoints /\ "me" # "none" /\ Entry("me", got[s]) # "none"
  BY EntryAwaits DEF Endpoints
<1>5. Received(s)
  BY <1>2 DEF Received, Answers
<1>6. ClientStep
  BY <1>0, <1>1, <1>2, <1>3, <1>4, <1>5, OneExchange
<1>7. ClientTypes'
  BY <1>0, <1>1, <1>2, <1>3 DEF ClientTypes
<1>8. CallsKnown'
  BY <1>0, <1>1, <1>3, <1>4 DEF CallsKnown, SessionTypeOK
<1>9. SlotsQuiet'
  BY <1>0, <1>1, <1>2, <1>3, PagesAssumption DEF SlotsQuiet, SessionTypeOK
<1>. QED BY <1>6, <1>7, <1>8, <1>9

\* A 401 joins the refresh of its page, or starts it.
LEMMA Got401Keeps ==
  ASSUME WebInv, NEW s \in Slots, Got401(s)
  PROVE  ClientStep /\ ClientTypes' /\ CallsKnown' /\ SlotsQuiet'
<1> DEFINE p == PageOf[s]
           alone == at[p] = "none"
<1> USE PagesAssumption
    DEF WebInv, SessionInv, SessionTypeOK, ClientTypes, Got401, Refreshable,
        server, NoToken, page
<1>1. /\ s \in Exchanges /\ p \in Exchanges /\ s # p /\ p \in Pages /\ p \notin Slots
      /\ ~ waiting[s] /\ issued \in Nat /\ call[s] # "none"
  <2>1. s \in Exchanges /\ p \in Pages /\ p \in Exchanges /\ s # p /\ p \notin Slots
    OBVIOUS
  <2>2. at[s] = "unauthorized"
    OBVIOUS
  <2>3. ~ waiting[s] /\ call[s] # "none"
    BY <2>1, <2>2 DEF SlotsQuiet, CallsKnown
  <2>. QED BY <2>1, <2>3, SessionAssumption
<1>2. "refresh" \in Endpoints /\ Entry("refresh", cookie) # "none"
  BY EntryAwaits DEF Endpoints
<1>3. ~ alone => call[p] = "refresh"
  BY <1>1 DEF CallsKnown
<1>4. ClientStep
  <2>1. /\ call' \in [Exchanges -> Endpoints \cup {"none"}]
        /\ sent' \in [Exchanges -> 0..issued] /\ got' \in [Exchanges -> 0..issued]
        /\ at' = [x \in Exchanges |-> at'[x]]
    <3>1. call' \in [Exchanges -> Endpoints \cup {"none"}]
      BY <1>2
    <3>2. sent' \in [Exchanges -> 0..issued]
      BY <1>1
    <3>3. got' \in [Exchanges -> 0..issued] /\ at' = [x \in Exchanges |-> at'[x]]
      OBVIOUS
    <3>. QED BY <3>1, <3>2, <3>3
  <2>2. ASSUME NEW x \in Exchanges
        PROVE  \/ <<call[x], at[x], sent[x], got[x]>>' = <<call[x], at[x], sent[x], got[x]>>
               \/ Received(x) /\ at'[x] = "none"
               \/ Received(x) /\ call'[x] # "none" /\ at'[x] = Entry(call'[x], sent'[x])
    <3>1. CASE x = s
      BY <3>1, <1>1 DEF Received, Answers
    <3>2. CASE x = p
      BY <3>2, <1>1, <1>2, <1>3 DEF Received
    <3>3. CASE x # s /\ x # p
      BY <3>3, <1>1
    <3>. QED BY <3>1, <3>2, <3>3
  <2>. QED BY <2>1, <2>2 DEF ClientStep
<1>5. ClientTypes'
  BY <1>1
<1>6. CallsKnown'
  BY <1>1, <1>2, <1>3 DEF CallsKnown
<1>7. SlotsQuiet'
  BY <1>1, <1>2 DEF SlotsQuiet
<1>. QED BY <1>4, <1>5, <1>6, <1>7

\* The refresh of a page succeeds, and what waited for it is sent again.
LEMMA RefreshedKeeps ==
  ASSUME WebInv, NEW p \in Pages, Refreshed(p)
  PROVE  ClientStep /\ ClientTypes' /\ CallsKnown' /\ SlotsQuiet'
<1> USE PagesAssumption
    DEF WebInv, SessionInv, SessionTypeOK, ClientTypes, Refreshed, Awaiting, SlotsOf,
        server, NoToken
<1>1. /\ p \in Exchanges /\ p \notin Slots /\ issued \in Nat /\ got[p] \in 0..issued
      /\ \A s \in Awaiting(p) :
           s \in Slots /\ s \in Exchanges /\ s # p /\ waiting[s] /\ at[s] = "none"
           /\ call[s] \in Endpoints /\ flow[s] # "idle"
  BY SessionAssumption DEF SlotsQuiet
<1>2. \A s \in Awaiting(p) : Entry(call[s], got[p]) # "none"
  BY <1>1, EntryAwaits
<1>3. \A t, u : Entry("login", t) = Entry("login", u)
  BY DEF Entry
<1>4. ClientStep
  <2>1. /\ call' \in [Exchanges -> Endpoints \cup {"none"}]
        /\ sent' \in [Exchanges -> 0..issued] /\ got' \in [Exchanges -> 0..issued]
        /\ at' = [x \in Exchanges |-> at'[x]]
    BY <1>1
  <2>2. ASSUME NEW x \in Exchanges
        PROVE  \/ <<call[x], at[x], sent[x], got[x]>>' = <<call[x], at[x], sent[x], got[x]>>
               \/ Received(x) /\ at'[x] = "none"
               \/ Received(x) /\ call'[x] # "none" /\ at'[x] = Entry(call'[x], sent'[x])
    <3>1. CASE x = p
      BY <3>1, <1>1 DEF Received, Answers
    <3>2. CASE x \in Awaiting(p)
      <4>1. x # p /\ call'[x] = call[x] /\ at'[x] = Entry(call[x], got[p])
            /\ sent'[x] = (IF call[x] # "login" THEN got[p] ELSE sent[x])
            /\ at[x] = "none" /\ call[x] \in Endpoints
        BY <3>2, <1>1
      <4>2. at'[x] = Entry(call'[x], sent'[x])
        BY <4>1, <1>3
      <4>. QED BY <4>1, <4>2 DEF Received, Endpoints
    <3>3. CASE x # p /\ x \notin Awaiting(p)
      BY <3>3, <1>1
    <3>. QED BY <3>1, <3>2, <3>3
  <2>. QED BY <2>1, <2>2 DEF ClientStep
<1>5. ClientTypes'
  BY <1>1
<1>6. CallsKnown'
  BY <1>1 DEF CallsKnown, Endpoints
<1>7. SlotsQuiet'
  BY <1>1, <1>2 DEF SlotsQuiet
<1>. QED BY <1>4, <1>5, <1>6, <1>7

\* It fails, and what waited for it fails too.
LEMMA RefreshFailedKeeps ==
  ASSUME WebInv, NEW p \in Pages, RefreshFailed(p)
  PROVE  ClientStep /\ ClientTypes' /\ CallsKnown' /\ SlotsQuiet'
<1> USE PagesAssumption
    DEF WebInv, SessionInv, SessionTypeOK, ClientTypes, RefreshFailed, Awaiting, SlotsOf,
        server, NoToken, clearAuth
<1>1. /\ p \in Exchanges /\ p \notin Slots /\ issued \in Nat
      /\ \A s \in Awaiting(p) :
           s \in Slots /\ s \in Exchanges /\ s # p /\ at[s] = "none"
  BY SessionAssumption DEF SlotsQuiet
<1>2. ClientStep
  <2>1. /\ call' \in [Exchanges -> Endpoints \cup {"none"}]
        /\ sent' \in [Exchanges -> 0..issued] /\ got' \in [Exchanges -> 0..issued]
        /\ at' = [x \in Exchanges |-> at'[x]]
    <3>1. call' \in [Exchanges -> Endpoints \cup {"none"}]
      OBVIOUS
    <3>2. sent' \in [Exchanges -> 0..issued]
      BY <1>1
    <3>3. got' \in [Exchanges -> 0..issued] /\ at' = [x \in Exchanges |-> at'[x]]
      OBVIOUS
    <3>. QED BY <3>1, <3>2, <3>3
  <2>2. ASSUME NEW x \in Exchanges
        PROVE  \/ <<call[x], at[x], sent[x], got[x]>>' = <<call[x], at[x], sent[x], got[x]>>
               \/ Received(x) /\ at'[x] = "none"
    BY <1>1 DEF Received, Answers
  <2>. QED BY <2>1, <2>2 DEF ClientStep
<1>3. ClientTypes'
  BY <1>1 DEF Flows
<1>4. CallsKnown'
  BY <1>1 DEF CallsKnown
<1>5. SlotsQuiet'
  BY <1>1 DEF SlotsQuiet
<1>. QED BY <1>2, <1>3, <1>4, <1>5

\* Whatever a page does is a step of some client, and keeps the invariant.
LEMMA PageKeeps ==
  ASSUME WebInv, NEW s \in Slots,
         Boot(s) \/ Login(s) \/ Api(s) \/ updateProfile(s) \/ Logout(s) \/ Receive(s)
  PROVE  ClientStep /\ ClientTypes' /\ CallsKnown' /\ SlotsQuiet'
<1>00. /\ {"boot", "login", "api", "profile", "logout"} \subseteq Flows \ {"idle"}
       /\ {"refresh", "login", "api", "profile", "logout"} \subseteq Endpoints
  BY DEF Flows, Endpoints
<1>0. /\ PageOf[s] \in Pages /\ issued \in Nat /\ cookie \in 0..issued
      /\ NoToken \in 0..issued /\ token[PageOf[s]] \in 0..issued
      /\ kept \in [Slots -> 0..issued] /\ token \in [Pages -> 0..issued] /\ waiting \in [Slots -> BOOLEAN]
  BY PagesAssumption, SessionAssumption
     DEF WebInv, SessionInv, SessionTypeOK, ClientTypes, NoToken
<1>1. CASE Boot(s)
  <2>1. Start(s, "boot", "refresh", cookie) /\ token' \in [Pages -> 0..issued]
    BY <1>1, <1>0 DEF Boot, page
  <2>. QED BY <2>1, <1>0, <1>00, StartKeeps DEF ClientTypes
<1>2. CASE Login(s)
  <2>1. Start(s, "login", "login", NoToken) /\ token' \in [Pages -> 0..issued]
    BY <1>2, <1>0 DEF Login, page
  <2>. QED BY <2>1, <1>0, <1>00, StartKeeps DEF ClientTypes
<1>3. CASE Api(s)
  <2>1. Start(s, "api", "api", token[PageOf[s]]) /\ token' \in [Pages -> 0..issued]
    BY <1>3, <1>0 DEF Api, page
  <2>. QED BY <2>1, <1>0, <1>00, StartKeeps DEF ClientTypes
<1>4. CASE updateProfile(s)
  <2>1. Start(s, "profile", "profile", token[PageOf[s]]) /\ token' \in [Pages -> 0..issued]
    BY <1>4, <1>0 DEF updateProfile, page
  <2>. QED BY <2>1, <1>0, <1>00, StartKeeps DEF ClientTypes
<1>5. CASE Logout(s)
  <2>1. Start(s, "logout", "logout", cookie) /\ token' \in [Pages -> 0..issued]
    BY <1>5, <1>0 DEF Logout, page
  <2>. QED BY <2>1, <1>0, <1>00, StartKeeps DEF ClientTypes
<1>6. CASE GotTokens(s)
  BY <1>6, GotTokensKeeps
<1>7. CASE GotMe(s)
  BY <1>7, <1>0, SettleKeeps DEF GotMe, ClientTypes, Answers
<1>8. CASE GotApi(s)
  BY <1>8, <1>0, SettleKeeps DEF GotApi, ClientTypes, Answers, page
<1>9. CASE GotProfile(s)
  BY <1>9, <1>0, SettleKeeps DEF GotProfile, ClientTypes, Answers
<1>10. CASE LoggedOut(s)
  BY <1>10, <1>0, SettleKeeps DEF LoggedOut, ClientTypes, clearAuth
<1>11. CASE Got401(s)
  BY <1>11, Got401Keeps
<1>12. CASE Rejected(s)
  BY <1>12, <1>0, SettleKeeps DEF Rejected, ClientTypes, Answers, clearAuth, page
<1>. QED BY <1>1, <1>2, <1>3, <1>4, <1>5, <1>6, <1>7, <1>8, <1>9, <1>10, <1>11,
            <1>12 DEF Receive

\* Each step of the composition is one of Session.tla, and keeps the invariant.
LEMMA WebKeeps ==
  ASSUME WebInv, [Next]_vars
  PROVE  [SessionNext]_sessionVars /\ WebInv'
<1>1. CASE ServerStep /\ UNCHANGED <<cookie, page, slot, left>>
  <2>1. SessionInv'
    BY <1>1, ServerKeeps DEF WebInv
  <2>2. ClientTypes'
    BY <1>1, ServerLeavesIdle DEF WebInv, ClientTypes, page, slot
  <2>3. CallsKnown' /\ SlotsQuiet'
    BY <1>1, ServerLeavesIdle, PagesAssumption DEF WebInv, CallsKnown, SlotsQuiet, slot
  <2>. QED BY <1>1, <2>1, <2>2, <2>3 DEF WebInv, SessionNext
<1>2. CASE ClientStep /\ ClientTypes' /\ CallsKnown' /\ SlotsQuiet'
  BY <1>2, ClientKeeps DEF WebInv, SessionNext
<1>3. CASE \E s \in Slots : \/ Boot(s) \/ Login(s) \/ Api(s) \/ updateProfile(s)
                            \/ Logout(s) \/ Receive(s)
  BY <1>2, <1>3, PageKeeps
<1>4. CASE \E p \in Pages : ReceiveRefresh(p)
  BY <1>2, <1>4, RefreshedKeeps, RefreshFailedKeeps DEF ReceiveRefresh
<1>5. CASE UNCHANGED vars
  BY <1>5 DEF vars, sessionVars, page, slot, WebInv, SessionInv, SessionTypeOK,
     HandlersOwnCalls, ClientTypes, CallsKnown,
     SlotsQuiet
<1>. QED BY <1>1, <1>3, <1>4, <1>5 DEF Next

\* Both invariants hold at the start.
LEMMA InitKeeps ==
  ASSUME Init
  PROVE  SessionInit /\ WebInv
BY SessionAssumption, PagesAssumption
   DEF Init, WebInv, SessionInit, SessionInv, SessionTypeOK, HandlersOwnCalls,
       NoToken, Awaits, Answers, Endpoints,
       ClientTypes, CallsKnown, SlotsQuiet, Flows

\* The client the repository ships - single flight, retries, bootstrap, logout -
\* sends nothing that Session.tla does not allow its clients, for any number of
\* pages and requests.
THEOREM ShippedClientIsAClient == Spec => UsesSession
<1>1. Init => SessionInit /\ WebInv
  BY InitKeeps
<1>2. WebInv /\ [Next]_vars => WebInv' /\ [SessionNext]_sessionVars
  BY WebKeeps
<1>. QED BY <1>1, <1>2, PTL DEF Spec, SessionSpec, UsesSession

\* So the server keeps its word to the shipped client, on any number of pages.
COROLLARY ShippedClientRotates ==
  ShippedChainSpec => [](OneSessionPerLogin /\ LogoutEndsChain)
<1>1. Init => SessionInit /\ WebInv
  BY InitKeeps
<1>2. WebInv /\ [Next]_vars => WebInv' /\ [SessionNext]_sessionVars
  BY WebKeeps
<1>3. [Next /\ Observe]_<<vars, history>> => [Next]_vars
  OBVIOUS
<1>4. ASSUME WebInv, [Next /\ Observe]_<<vars, history>>
      PROVE  [SessionNext /\ Observe]_<<sessionVars, history>>
  <2>1. [SessionNext]_sessionVars
    BY <1>4, <1>2
  <2>2. CASE UNCHANGED <<vars, history>>
    BY <2>2 DEF vars
  <2>3. CASE Next /\ Observe /\ SessionNext
    BY <2>3
  <2>4. CASE Next /\ Observe /\ UNCHANGED sessionVars
    <3>1. \A x \in Exchanges : ~ Mints(x) /\ ~ Revokes(x) /\ ~ Passes(x)
      BY <2>4 DEF Mints, Revokes, Passes, sessionVars
    <3>2. UNCHANGED history
      BY <2>4, <3>1 DEF Observe, history
    <3>. QED BY <2>4, <3>2
  <2>. QED BY <1>4, <2>1, <2>2, <2>3, <2>4
<1>5. ShippedChainSpec => ChainSpec
  BY <1>1, <1>2, <1>3, <1>4, PTL DEF ShippedChainSpec, ChainSpec
<1>. QED BY <1>5, LoginHasOneSession, LogoutIsFinal, PTL

-----------------------------------------------------------------------------
(***************************************************************************)
(* The single flight: with one page open, the browser's cookie is that of  *)
(* a live session whenever a refresh presents it.                          *)
(***************************************************************************)
Refreshing(x) == call[x] = "refresh" /\ at[x] # "none"

\* The answers that carry a cookie.
Minted == {y \in Exchanges : call[y] \in {"login", "refresh"} /\ at[y] = "ok"}

\* A page that bootstraps does nothing else; only its bootstrap refreshes without
\* somebody waiting for it; and before its first logout none is under way.
PageInv(p) ==
  /\ \A s \in Slots : flow[s] = "boot" =>
       ~ user[p] /\ \A z \in Slots : z # s => flow[z] = "idle"
  /\ \A s \in Slots : call[s] = "refresh" => flow[s] = "boot" /\ ~ waiting[s]
  /\ at[p] # "none" => \E s \in Slots : waiting[s]
  /\ left[p] = "never" => \A s \in Slots : flow[s] # "logout" /\ call[s] # "logout"

\* Unless a refresh holds it, the cookie is live; what a refresh holds is live
\* until it deletes it; and a session just minted is nobody else's yet.
CookieInv ==
  Undisturbed /\ account =>
    /\ (\A x \in Exchanges : Refreshing(x) => sent[x] = NoToken)
         => cookie = NoToken \/ cookie \in valid
    /\ \A x \in Exchanges : Refreshing(x) =>
         /\ at[x] \in {"redisGet", "findOwner", "delJti"} => sent[x] \in valid
         /\ at[x] = "unauthorized" => sent[x] = NoToken
         /\ at[x] \notin {"error", "delGone"}
    /\ \A y \in Minted :
         /\ got[y] \in valid /\ got[y] # cookie
         /\ \A x \in Exchanges : Refreshing(x) => got[y] # sent[x]
         /\ \A z \in Minted : got[z] = got[y] => z = y

\* The types of what a page shows.
PageKnown ==
  /\ user \in [Pages -> BOOLEAN]
  /\ left \in [Pages -> {"never", "now", "before"}]

\* The one page, and what is known of it.
OnePageInv(p) == Pages = {p} /\ WebInv /\ PageKnown /\ PageInv(p) /\ CookieInv

LEMMA OneRefresh ==
  ASSUME NEW p, OnePageInv(p), NEW x \in Exchanges, NEW y \in Exchanges,
         Refreshing(x), Refreshing(y)
  PROVE  x = y
<1>1. x \in Slots \cup {p} /\ y \in Slots \cup {p} /\ p \notin Slots
  BY PagesAssumption DEF OnePageInv
<1>2. ASSUME NEW s \in Slots, Refreshing(s), Refreshing(p) PROVE FALSE
  <2>1. PICK z \in Slots : waiting[z]
    BY <1>2 DEF OnePageInv, PageInv, Refreshing
  <2>2. flow[z] # "idle"
    BY <2>1 DEF OnePageInv, WebInv, SlotsQuiet
  <2>3. flow[s] = "boot" /\ ~ waiting[s]
    BY <1>2 DEF OnePageInv, PageInv, Refreshing
  <2>. QED BY <2>1, <2>2, <2>3 DEF OnePageInv, PageInv
<1>3. ASSUME NEW s \in Slots, NEW z \in Slots, Refreshing(s), Refreshing(z) PROVE s = z
  <2>1. flow[s] = "boot" /\ flow[z] = "boot"
    BY <1>3 DEF OnePageInv, PageInv, Refreshing
  <2>. QED BY <2>1 DEF OnePageInv, PageInv
<1>. QED BY <1>1, <1>2, <1>3

\* Handlers change no flow and end no exchange.
LEMMA ServerKeepsPage ==
  ASSUME NEW p, OnePageInv(p), ServerStep, UNCHANGED <<cookie, page, slot, left>>
  PROVE  PageInv(p)'
<1>1. call' = call /\ \A x \in Exchanges : at'[x] = "none" <=> at[x] = "none"
  BY ServerLeavesIdle DEF OnePageInv, WebInv
<1>2. p \in Exchanges
  BY PagesAssumption DEF OnePageInv
<1>3. UNCHANGED <<user, flow, waiting, left>>
  BY DEF page, slot
<1>. QED BY <1>1, <1>2, <1>3 DEF OnePageInv, PageInv

\* A handler that neither issues nor deletes: a refresh goes on with a live
\* session in its hand.
LEMMA HandlerKeepsCookie ==
  ASSUME NEW p, OnePageInv(p), NEW x \in Exchanges, NEW a \in Awaits \cup {"ok", "unauthorized", "error"},
         at[x] # "none", at' = [at EXCEPT ![x] = a],
         UNCHANGED <<valid, issued, call, sent, got, failures, cookie, left>>,
         account' => account,
         a = "ok" => call[x] \notin {"login", "refresh"},
         account' /\ Undisturbed /\ call[x] = "refresh" =>
           /\ a \in {"redisGet", "findOwner", "delJti"} => sent[x] \in valid
           /\ a = "unauthorized" => sent[x] = NoToken
           /\ a \notin {"error", "delGone"}
  PROVE  CookieInv'
<1> SUFFICES ASSUME Undisturbed', account' PROVE CookieInv'
  BY DEF CookieInv
<1>0. at \in [Exchanges -> Awaits \cup Answers \cup {"none"}]
  BY DEF OnePageInv, WebInv, SessionInv, SessionTypeOK
<1>1. Undisturbed /\ account /\ CookieInv
  BY DEF Undisturbed, OnePageInv
<1>2. a # "none"
  BY DEF Awaits
<1>3. \A y \in Exchanges : Refreshing(y)' <=> Refreshing(y)
  BY <1>0, <1>2 DEF Refreshing
<1>4. Minted' \subseteq Minted
  BY <1>0 DEF Minted
<1>5. \A y \in Exchanges : Refreshing(y) =>
         /\ at'[y] \in {"redisGet", "findOwner", "delJti"} => sent[y] \in valid
         /\ at'[y] = "unauthorized" => sent[y] = NoToken
         /\ at'[y] \notin {"error", "delGone"}
  BY <1>0, <1>1 DEF CookieInv, Refreshing
<1>. QED BY <1>1, <1>3, <1>4, <1>5 DEF CookieInv

\* A rotation takes the one session that a refresh holds, which is nobody else's.
LEMMA RotationKeepsCookie ==
  ASSUME NEW p, OnePageInv(p), NEW x \in Exchanges, RefreshDel(x),
         UNCHANGED <<cookie, page, slot, left>>
  PROVE  CookieInv'
<1> SUFFICES ASSUME Undisturbed', account' PROVE CookieInv'
  BY DEF CookieInv
<1>0. /\ at \in [Exchanges -> Awaits \cup Answers \cup {"none"}]
      /\ valid \subseteq 1..issued /\ issued \in Nat /\ call[x] = "refresh" /\ at[x] = "delJti"
  BY SessionAssumption
     DEF OnePageInv, WebInv, SessionInv, SessionTypeOK, HandlersOwnCalls, RefreshDel
<1>1. /\ at' = [at EXCEPT ![x] = "issue"] /\ valid' = valid \ {sent[x]}
      /\ UNCHANGED <<account, issued, failures, call, sent, got, cookie, left>>
  BY DEF RefreshDel, Goto
<1>2. Undisturbed /\ account /\ CookieInv
  BY <1>1 DEF Undisturbed, OnePageInv
<1>3. Refreshing(x) /\ sent[x] \in valid /\ sent[x] # NoToken
  BY <1>0, <1>2 DEF CookieInv, Refreshing, NoToken
<1>4. ASSUME NEW y \in Exchanges, Refreshing(y)' PROVE y = x
  <2>1. Refreshing(y)
    BY <1>0, <1>1, <1>4 DEF Refreshing
  <2>. QED BY <2>1, <1>3, OneRefresh
<1>5. Minted' = Minted
  BY <1>0, <1>1 DEF Minted
<1>6. Refreshing(x)' /\ at'[x] = "issue"
  BY <1>0, <1>1 DEF Refreshing
<1>7. ASSUME NEW y \in Minted
      PROVE  /\ got[y] \in valid' /\ got[y] # cookie /\ got[y] # sent[x]
             /\ \A z \in Minted : got[z] = got[y] => z = y
  BY <1>1, <1>2, <1>3, <1>7 DEF CookieInv
<1>. QED BY <1>1, <1>3, <1>4, <1>5, <1>6, <1>7 DEF CookieInv

\* A new session is live, and no cookie, no request and no answer has it yet.
LEMMA IssueKeepsCookie ==
  ASSUME NEW p, OnePageInv(p), NEW x \in Exchanges, IssueSession(x),
         UNCHANGED <<cookie, page, slot, left>>
  PROVE  CookieInv'
<1> SUFFICES ASSUME Undisturbed', account' PROVE CookieInv'
  BY DEF CookieInv
<1> DEFINE h == issued + 1
<1>0. /\ at \in [Exchanges -> Awaits \cup Answers \cup {"none"}]
      /\ got \in [Exchanges -> 0..issued] /\ sent \in [Exchanges -> 0..issued]
      /\ issued \in Nat /\ cookie \in 0..issued /\ at[x] = "issue"
  BY SessionAssumption
     DEF OnePageInv, WebInv, SessionInv, SessionTypeOK, ClientTypes, IssueSession
<1>1. /\ at' = [at EXCEPT ![x] = "ok"] /\ got' = [got EXCEPT ![x] = h]
      /\ valid' = valid \cup {h}
      /\ UNCHANGED <<account, failures, call, sent, cookie, left>>
  BY DEF IssueSession
<1>2. Undisturbed /\ account /\ CookieInv
  BY <1>1 DEF Undisturbed, OnePageInv
<1>3. h # cookie /\ \A y \in Exchanges : got[y] # h /\ sent[y] # h
  BY <1>0
<1>4. \A y \in Exchanges : Refreshing(y)' <=> Refreshing(y)
  BY <1>0, <1>1 DEF Refreshing
<1>5. /\ Minted' \subseteq Minted \cup {x} /\ x \notin Minted /\ Minted \subseteq Exchanges
      /\ got'[x] = h /\ \A y \in Exchanges : y # x => got'[y] = got[y]
  BY <1>0, <1>1 DEF Minted
<1>6. (\A y \in Exchanges : Refreshing(y)' => sent'[y] = NoToken)
        => cookie' = NoToken \/ cookie' \in valid'
  BY <1>1, <1>2, <1>4 DEF CookieInv
<1>7. ASSUME NEW y \in Exchanges, Refreshing(y)'
      PROVE /\ at'[y] \in {"redisGet", "findOwner", "delJti"} => sent'[y] \in valid'
            /\ at'[y] = "unauthorized" => sent'[y] = NoToken
            /\ at'[y] \notin {"error", "delGone"}
  <2>1. Refreshing(y)
    BY <1>4, <1>7
  <2>2. at'[y] = at[y] \/ at'[y] = "ok"
    BY <1>0, <1>1
  <2>. QED BY <2>1, <2>2, <1>1, <1>2 DEF CookieInv
<1>8. ASSUME NEW y \in Minted'
      PROVE  /\ got'[y] \in valid' /\ got'[y] # cookie'
             /\ \A w \in Exchanges : Refreshing(w)' => got'[y] # sent'[w]
             /\ \A z \in Minted' : got'[z] = got'[y] => z = y
  <2>1. CASE y = x
    <3>1. got'[y] = h
      BY <2>1, <1>5
    <3>2. \A z \in Minted' : got'[z] = h => z = x
      BY <1>3, <1>5
    <3>. QED BY <2>1, <3>1, <3>2, <1>1, <1>3
  <2>2. CASE y # x
    <3>1. y \in Minted /\ got'[y] = got[y] /\ got[y] # h
      BY <2>2, <1>3, <1>5, <1>8
    <3>2. \A z \in Minted' : got'[z] = got'[y] => z = y
      BY <3>1, <1>2, <1>5 DEF CookieInv
    <3>. QED BY <3>1, <3>2, <1>1, <1>2, <1>4 DEF CookieInv
  <2>. QED BY <2>1, <2>2
<1>. QED BY <1>6, <1>7, <1>8 DEF CookieInv

\* Every step of the server keeps the cookie live, as long as nothing fails.
LEMMA ServerKeepsCookie ==
  ASSUME NEW p, OnePageInv(p), ServerStep, UNCHANGED <<cookie, page, slot, left>>
  PROVE  CookieInv'
<1> SUFFICES ASSUME Undisturbed', account' PROVE CookieInv'
  BY DEF CookieInv
<1>0. /\ at \in [Exchanges -> Awaits \cup Answers \cup {"none"}]
      /\ HandlersOwnCalls /\ failures \in Nat /\ MaxFailures \in Nat /\ CallsKnown
  BY SessionAssumption DEF OnePageInv, WebInv, SessionInv, SessionTypeOK
<1>00. UNCHANGED <<cookie, left>> /\ failures' = 0
  BY DEF Undisturbed
<1>1. ASSUME NEW x \in Exchanges, LoginFind(x) PROVE CookieInv'
  <2>1. PICK a \in {"issue", "unauthorized"} : at' = [at EXCEPT ![x] = a]
    BY <1>1 DEF LoginFind, Goto
  <2>2. /\ call[x] = "login" /\ at[x] # "none"
        /\ UNCHANGED <<valid, issued, call, sent, got, failures, account>>
    BY <1>0, <1>1 DEF HandlersOwnCalls, LoginFind, Goto, server
  <2>. QED BY <2>1, <2>2, <1>00, HandlerKeepsCookie DEF Awaits
<1>2. ASSUME NEW x \in Exchanges, RefreshGet(x) PROVE CookieInv'
  <2> DEFINE a == IF sent[x] \in valid THEN "findOwner" ELSE "unauthorized"
  <2>1. at' = [at EXCEPT ![x] = a] /\ a \in {"findOwner", "unauthorized"}
    BY <1>2 DEF RefreshGet, Goto
  <2>2. /\ call[x] = "refresh" /\ at[x] = "redisGet"
        /\ UNCHANGED <<valid, issued, call, sent, got, failures, account>>
    BY <1>0, <1>2 DEF HandlersOwnCalls, RefreshGet, Goto, server
  <2>3. Undisturbed /\ account => sent[x] \in valid
    BY <2>2 DEF OnePageInv, CookieInv, Refreshing
  <2>4. a \in Awaits \cup {"ok", "unauthorized", "error"} /\ a \notin {"ok", "error", "delGone"}
    BY <2>1 DEF Awaits
  <2>5. account /\ Undisturbed => sent[x] \in valid /\ a # "unauthorized"
    BY <2>3
  <2> HIDE DEF a
  <2>. QED BY <2>1, <2>2, <2>4, <2>5, <1>00, HandlerKeepsCookie
<1>3. ASSUME NEW x \in Exchanges, RefreshFindOwner(x) PROVE CookieInv'
  <2>1. /\ at' = [at EXCEPT ![x] = "delJti"]
        /\ call[x] = "refresh" /\ at[x] = "findOwner"
        /\ UNCHANGED <<valid, issued, call, sent, got, failures, account>>
    BY <1>0, <1>3 DEF HandlersOwnCalls, RefreshFindOwner, Goto, server
  <2>2. Undisturbed /\ account => sent[x] \in valid
    BY <2>1 DEF OnePageInv, CookieInv, Refreshing
  <2>. QED BY <2>1, <2>2, <1>00, HandlerKeepsCookie DEF Awaits
<1>4. ASSUME NEW x \in Exchanges, RefreshDel(x) PROVE CookieInv'
  BY <1>4, RotationKeepsCookie
<1>5. ASSUME NEW x \in Exchanges, RefreshDelGone(x) PROVE CookieInv'
  <2>1. at[x] = "delGone" /\ call[x] = "refresh" /\ UNCHANGED <<account, failures, left>>
    BY <1>0, <1>5 DEF HandlersOwnCalls, RefreshDelGone
  <2>2. Undisturbed /\ account
    BY <2>1 DEF Undisturbed
  <2>. QED BY <2>1, <2>2 DEF OnePageInv, CookieInv, Refreshing
<1>6. ASSUME NEW x \in Exchanges, IssueSession(x) PROVE CookieInv'
  BY <1>6, IssueKeepsCookie
<1>7. ASSUME NEW x \in Exchanges, IssueBound(x) PROVE CookieInv'
  BY <1>7, <1>0, <1>00 DEF IssueBound
<1>8. ASSUME NEW x \in Exchanges, LogoutDel(x) PROVE CookieInv'
  <2>1. call[x] = "logout" /\ at[x] # "none" /\ UNCHANGED left
    BY <1>0, <1>8 DEF HandlersOwnCalls, LogoutDel
  <2>2. x \in Slots
    BY <2>1, <1>0, PagesAssumption DEF CallsKnown
  <2>3. left[p] = "never"
    BY <2>1 DEF Undisturbed, OnePageInv
  <2>. QED BY <2>1, <2>2, <2>3 DEF OnePageInv, PageInv
<1>9. ASSUME NEW x \in Exchanges, Guard(x) PROVE CookieInv'
  <2>1. PICK a \in {"findUser", "update", "serve", "unauthorized"} : at' = [at EXCEPT ![x] = a]
    BY <1>9 DEF Guard, Goto
  <2>2. /\ call[x] \in {"me", "profile", "api"} /\ at[x] # "none"
        /\ UNCHANGED <<valid, issued, call, sent, got, failures, account>>
    BY <1>0, <1>9 DEF HandlersOwnCalls, Guard, Goto, server
  <2>. QED BY <2>1, <2>2, <1>00, HandlerKeepsCookie DEF Awaits
<1>10. ASSUME NEW x \in Exchanges, FindUser(x) \/ UpdateProfile(x) \/ ServeApi(x)
       PROVE  CookieInv'
  <2>1. PICK a \in {"ok", "error", "unauthorized"} : at' = [at EXCEPT ![x] = a]
    BY <1>10 DEF FindUser, UpdateProfile, ServeApi, Goto
  <2>2. /\ call[x] \in {"me", "profile", "api"} /\ at[x] # "none"
        /\ UNCHANGED <<valid, issued, call, sent, got, failures, account>>
    BY <1>0, <1>10 DEF HandlersOwnCalls, FindUser, UpdateProfile, ServeApi, Goto, server
  <2>. QED BY <2>1, <2>2, <1>00, HandlerKeepsCookie DEF Awaits
<1>11. ASSUME NEW x \in Exchanges, Fail(x) PROVE CookieInv'
  BY <1>11, <1>0, <1>00 DEF Fail
<1>12. CASE Cleanup
  BY <1>12 DEF Cleanup
<1>13. CASE ExpireAccess
  <2>1. UNCHANGED <<account, valid, call, at, sent, got, failures, cookie, left>>
    BY <1>13 DEF ExpireAccess, exchange
  <2>. QED BY <2>1 DEF OnePageInv, CookieInv, Undisturbed, Minted, Refreshing
<1>. QED BY <1>1, <1>2, <1>3, <1>4, <1>5, <1>6, <1>7, <1>8, <1>9, <1>10, <1>11,
            <1>12, <1>13 DEF ServerStep, Handle

\* What the page does may end a refresh that was refused, and may take the answer
\* of a login or a refresh out of the way; the rest is as it was.
LEMMA QuietKeepsCookie ==
  ASSUME NEW p, OnePageInv(p), UNCHANGED <<server, failures, cookie>>,
         Undisturbed' => Undisturbed,
         \A x \in Exchanges : Refreshing(x)' =>
           Refreshing(x) /\ at'[x] = at[x] /\ sent'[x] = sent[x],
         \A x \in Exchanges : Undisturbed /\ account /\ Refreshing(x) =>
           Refreshing(x)' \/ sent[x] = NoToken,
         \A y \in Minted' : y \in Minted /\ got'[y] = got[y]
  PROVE  CookieInv'
<1> SUFFICES ASSUME Undisturbed', account' PROVE CookieInv'
  BY DEF CookieInv
<1>1. Undisturbed /\ account /\ CookieInv /\ UNCHANGED <<valid, cookie>>
  BY DEF OnePageInv, server
<1>2. (\A x \in Exchanges : Refreshing(x)' => sent'[x] = NoToken)
        => \A x \in Exchanges : Refreshing(x) => sent[x] = NoToken
  BY <1>1
<1>3. (\A x \in Exchanges : Refreshing(x)' => sent'[x] = NoToken)
        => cookie = NoToken \/ cookie \in valid
  BY <1>1, <1>2 DEF CookieInv
<1>4. \A x \in Exchanges : Refreshing(x)' =>
         /\ at'[x] \in {"redisGet", "findOwner", "delJti"} => sent'[x] \in valid
         /\ at'[x] = "unauthorized" => sent'[x] = NoToken
         /\ at'[x] \notin {"error", "delGone"}
  BY <1>1 DEF CookieInv
<1>5. ASSUME NEW y \in Minted'
      PROVE  /\ got'[y] \in valid /\ got'[y] # cookie
             /\ \A x \in Exchanges : Refreshing(x)' => got'[y] # sent'[x]
             /\ \A z \in Minted' : got'[z] = got'[y] => z = y
  BY <1>1, <1>5 DEF CookieInv
<1>. QED BY <1>1, <1>3, <1>4, <1>5 DEF CookieInv

\* A new refresh, when there is no other, presents the cookie, which is live.
LEMMA RefreshPresentsCookie ==
  ASSUME NEW p, OnePageInv(p), NEW x \in Exchanges,
         UNCHANGED <<server, failures, cookie, left>>,
         \A y \in Exchanges : ~ Refreshing(y),
         \A y \in Exchanges : Refreshing(y)' => y = x,
         call'[x] = "refresh", at'[x] = Entry("refresh", cookie), sent'[x] = cookie,
         \A y \in Minted' : y \in Minted /\ got'[y] = got[y]
  PROVE  CookieInv'
<1> SUFFICES ASSUME Undisturbed', account' PROVE CookieInv'
  BY DEF CookieInv
<1>1. Undisturbed /\ account /\ CookieInv /\ UNCHANGED <<valid, cookie>>
  BY DEF OnePageInv, server, Undisturbed
<1>2. cookie = NoToken \/ cookie \in valid
  BY <1>1 DEF CookieInv
<1>3. /\ cookie = NoToken => at'[x] = "unauthorized"
      /\ cookie # NoToken => at'[x] = "redisGet"
  BY DEF Entry
<1>4. Refreshing(x)'
  BY <1>3 DEF Refreshing
<1>5. ASSUME NEW y \in Minted'
      PROVE  /\ got'[y] \in valid /\ got'[y] # cookie
             /\ \A z \in Minted' : got'[z] = got'[y] => z = y
  BY <1>1, <1>5 DEF CookieInv
<1>. QED BY <1>1, <1>2, <1>3, <1>4, <1>5 DEF CookieInv

\* The browser takes the cookie of an answer: it is live and nobody else's.
LEMMA AnswerSetsCookie ==
  ASSUME NEW p, OnePageInv(p), NEW x \in Minted, UNCHANGED <<server, failures, left>>,
         cookie' = got[x],
         \A y \in Exchanges : Refreshing(y)' =>
           y # x /\ Refreshing(y) /\ at'[y] = at[y] /\ sent'[y] = sent[y],
         \A y \in Minted' : y # x /\ y \in Minted /\ got'[y] = got[y]
  PROVE  CookieInv'
<1> SUFFICES ASSUME Undisturbed', account' PROVE CookieInv'
  BY DEF CookieInv
<1>1. Undisturbed /\ account /\ CookieInv /\ UNCHANGED valid
  BY DEF OnePageInv, server, Undisturbed
<1>2. cookie' \in valid
  BY <1>1 DEF CookieInv
<1>3. ASSUME NEW y \in Minted'
      PROVE  /\ got'[y] \in valid /\ got'[y] # cookie'
             /\ \A w \in Exchanges : Refreshing(w)' => got'[y] # sent'[w]
             /\ \A z \in Minted' : got'[z] = got'[y] => z = y
  BY <1>1, <1>3 DEF CookieInv
<1>. QED BY <1>1, <1>2, <1>3 DEF CookieInv

\* A request other than a refresh, on a free slot of the page.
LEMMA StartKeepsCookie ==
  ASSUME NEW p, OnePageInv(p), NEW s \in Slots, NEW f, NEW c \in Endpoints \ {"refresh"},
         NEW t, Start(s, f, c, t), Undisturbed' => Undisturbed
  PROVE  CookieInv'
<1>0. /\ at \in [Exchanges -> Awaits \cup Answers \cup {"none"}]
      /\ call \in [Exchanges -> Endpoints \cup {"none"}] /\ got \in [Exchanges -> 0..issued]
      /\ sent \in [Exchanges -> 0..issued] /\ s \in Exchanges
  BY PagesAssumption DEF OnePageInv, WebInv, SessionInv, SessionTypeOK
<1>1. /\ call' = [call EXCEPT ![s] = c] /\ at' = [at EXCEPT ![s] = Entry(c, t)]
      /\ sent' = [sent EXCEPT ![s] = t] /\ got' = [got EXCEPT ![s] = 0]
      /\ UNCHANGED <<server, failures, cookie>>
  BY DEF Start, Send, Request, NoToken
<1>2. at[s] = "none"
  BY DEF Start, OnePageInv, WebInv, SlotsQuiet
<1>3. ~ Refreshing(s) /\ ~ Refreshing(s)'
  BY <1>0, <1>1, <1>2 DEF Refreshing
<1>4. s \notin Minted'
  <2>1. c = "login" => Entry(c, t) # "ok"
    BY DEF Entry
  <2>. QED BY <2>1, <1>0, <1>1 DEF Minted
<1>5. \A x \in Exchanges : x # s =>
        call'[x] = call[x] /\ at'[x] = at[x] /\ sent'[x] = sent[x] /\ got'[x] = got[x]
  BY <1>0, <1>1
<1>6. \A x \in Exchanges : Refreshing(x)' =>
           Refreshing(x) /\ at'[x] = at[x] /\ sent'[x] = sent[x]
  BY <1>3, <1>5 DEF Refreshing
<1>7. \A x \in Exchanges : Refreshing(x) => Refreshing(x)'
  BY <1>3, <1>5 DEF Refreshing
<1>8. \A y \in Minted' : y \in Minted /\ got'[y] = got[y]
  BY <1>4, <1>5 DEF Minted
<1>. QED BY <1>1, <1>6, <1>7, <1>8, QuietKeepsCookie

\* The end of a request, unless it ends a refresh that was not refused.
LEMMA SettleKeepsCookie ==
  ASSUME NEW p, OnePageInv(p), NEW s \in Slots, Settle(s),
         UNCHANGED <<server, failures, cookie, left>>,
         call[s] = "refresh" => at[s] \in {"unauthorized", "error"}
  PROVE  CookieInv'
<1>0. /\ at \in [Exchanges -> Awaits \cup Answers \cup {"none"}]
      /\ call \in [Exchanges -> Endpoints \cup {"none"}] /\ got \in [Exchanges -> 0..issued]
      /\ sent \in [Exchanges -> 0..issued] /\ s \in Exchanges
  BY PagesAssumption DEF OnePageInv, WebInv, SessionInv, SessionTypeOK
<1>1. /\ call' = [call EXCEPT ![s] = "none"] /\ at' = [at EXCEPT ![s] = "none"]
      /\ sent' = [sent EXCEPT ![s] = 0] /\ got' = [got EXCEPT ![s] = 0]
  BY DEF Settle, NoToken
<1>2. ~ Refreshing(s)' /\ s \notin Minted'
  BY <1>0, <1>1 DEF Refreshing, Minted
<1>3. \A x \in Exchanges : x # s =>
        call'[x] = call[x] /\ at'[x] = at[x] /\ sent'[x] = sent[x] /\ got'[x] = got[x]
  BY <1>0, <1>1
<1>4. \A x \in Exchanges : Refreshing(x)' =>
           Refreshing(x) /\ at'[x] = at[x] /\ sent'[x] = sent[x]
  BY <1>2, <1>3 DEF Refreshing
<1>5. Undisturbed /\ account /\ Refreshing(s) => sent[s] = NoToken
  BY <1>0 DEF Refreshing, OnePageInv, CookieInv
<1>6. \A x \in Exchanges : Undisturbed /\ account /\ Refreshing(x) =>
        Refreshing(x)' \/ sent[x] = NoToken
  BY <1>3, <1>5 DEF Refreshing
<1>7. \A y \in Minted' : y \in Minted /\ got'[y] = got[y]
  BY <1>2, <1>3 DEF Minted
<1>8. Undisturbed' => Undisturbed
  BY DEF Undisturbed
<1>. QED BY <1>4, <1>6, <1>7, <1>8, QuietKeepsCookie

\* A page that does nothing has no refresh under way.
LEMMA IdleRefreshesNothing ==
  ASSUME NEW p, OnePageInv(p), \A s \in Slots : flow[s] = "idle"
  PROVE  \A x \in Exchanges : at[x] = "none"
<1>1. \A s \in Slots : at[s] = "none" /\ ~ waiting[s]
  BY DEF OnePageInv, WebInv, SlotsQuiet
<1>2. at[p] = "none"
  BY <1>1 DEF OnePageInv, PageInv
<1>. QED BY <1>1, <1>2, PagesAssumption DEF OnePageInv

\* Somebody waits for the refresh of the page only when nobody bootstraps, and
\* then no slot refreshes on its own.
LEMMA RefreshIsShared ==
  ASSUME NEW p, OnePageInv(p), NEW s \in Slots, flow[s] # "idle", call[s] # "refresh"
  PROVE  \A z \in Slots : ~ Refreshing(z)
<1>1. ASSUME NEW z \in Slots, Refreshing(z) PROVE FALSE
  <2>1. flow[z] = "boot" /\ z # s
    BY <1>1 DEF OnePageInv, PageInv, Refreshing
  <2>. QED BY <2>1 DEF OnePageInv, PageInv
<1>. QED BY <1>1

\* The bootstrap is the first thing the page does.
LEMMA BootKeepsOnePage ==
  ASSUME NEW p, OnePageInv(p), NEW s \in Slots, Boot(s)
  PROVE  PageInv(p)' /\ CookieInv'
<1>0. /\ at \in [Exchanges -> Awaits \cup Answers \cup {"none"}]
      /\ call \in [Exchanges -> Endpoints \cup {"none"}] /\ got \in [Exchanges -> 0..issued]
      /\ sent \in [Exchanges -> 0..issued] /\ flow \in [Slots -> Flows]
      /\ user \in [Pages -> BOOLEAN] /\ p \in Pages /\ user' = [user EXCEPT ![p] = FALSE]
      /\ PageOf[s] = p /\ s \in Exchanges /\ p \in Exchanges /\ s # p
  BY PagesAssumption
     DEF OnePageInv, WebInv, SessionInv, SessionTypeOK, ClientTypes, Boot, PageKnown
<1>1. /\ call' = [call EXCEPT ![s] = "refresh"]
      /\ at' = [at EXCEPT ![s] = Entry("refresh", cookie)]
      /\ sent' = [sent EXCEPT ![s] = cookie] /\ got' = [got EXCEPT ![s] = 0]
      /\ flow' = [flow EXCEPT ![s] = "boot"]
      /\ UNCHANGED <<server, failures, cookie, left, waiting>>
  BY DEF Boot, Start, Send, Request, NoToken
<1>2. \A z \in Slots : flow[z] = "idle"
  <2>1. \A z \in Slots : PageOf[z] = p
    BY PagesAssumption DEF OnePageInv
  <2>. QED BY <2>1, <1>0 DEF Boot, Busy, SlotsOf
<1>3. \A x \in Exchanges : at[x] = "none"
  BY <1>2, IdleRefreshesNothing
<1>4. Entry("refresh", cookie) \in {"redisGet", "unauthorized"}
  BY DEF Entry
<1>5. CookieInv'
  <2>1. \A y \in Exchanges : ~ Refreshing(y)
    BY <1>3 DEF Refreshing
  <2>2. \A y \in Exchanges : Refreshing(y)' => y = s
    BY <1>0, <1>1, <1>3 DEF Refreshing
  <2>3. \A y \in Minted' : y \in Minted /\ got'[y] = got[y]
    BY <1>0, <1>1, <1>3, <1>4 DEF Minted
  <2>4. call'[s] = "refresh" /\ at'[s] = Entry("refresh", cookie) /\ sent'[s] = cookie
    BY <1>0, <1>1
  <2>. QED BY <2>1, <2>2, <2>3, <2>4, <1>0, <1>1, RefreshPresentsCookie
<1>6. PageInv(p)'
  <2>1. \A z \in Slots : ~ waiting[z] /\ (z # s => flow'[z] = "idle" /\ call'[z] # "refresh")
    BY <1>0, <1>1, <1>2 DEF OnePageInv, PageInv, WebInv, SlotsQuiet
  <2>2. ~ user'[p]
    BY <1>0
  <2>3. flow'[s] = "boot" /\ call'[s] = "refresh" /\ at'[p] = "none"
    BY <1>0, <1>1, <1>3
  <2>4. left'[p] = "never" => \A z \in Slots : flow'[z] # "logout" /\ call'[z] # "logout"
    BY <1>0, <1>1, <1>2 DEF OnePageInv, PageInv
  <2>. QED BY <2>1, <2>2, <2>3, <2>4, <1>1 DEF PageInv
<1>. QED BY <1>5, <1>6

\* A request that is not a refresh keeps what is known of the page.
LEMMA StartKeepsPage ==
  ASSUME NEW p, OnePageInv(p), NEW s \in Slots, NEW f \in Flows \ {"idle", "boot"},
         NEW c \in Endpoints \ {"refresh"}, NEW t, Start(s, f, c, t),
         UNCHANGED user, user[p] \/ ~ isBootstrapping(p),
         left'[p] = "never" => left[p] = "never" /\ f # "logout" /\ c # "logout"
  PROVE  PageInv(p)'
<1>0. /\ at \in [Exchanges -> Awaits \cup Answers \cup {"none"}]
      /\ call \in [Exchanges -> Endpoints \cup {"none"}] /\ flow \in [Slots -> Flows]
      /\ s \in Exchanges /\ p \in Exchanges /\ s # p
  BY PagesAssumption
     DEF OnePageInv, WebInv, SessionInv, SessionTypeOK, ClientTypes
<1>1. /\ call' = [call EXCEPT ![s] = c] /\ at' = [at EXCEPT ![s] = Entry(c, t)]
      /\ flow' = [flow EXCEPT ![s] = f] /\ waiting' = waiting
  BY DEF Start, Send, Request
<1>2. \A z \in Slots : flow[z] # "boot"
  <2>1. \A z \in Slots : PageOf[z] = p
    BY PagesAssumption DEF OnePageInv
  <2>2. ~ isBootstrapping(p) => \A z \in Slots : flow[z] # "boot"
    BY <2>1 DEF isBootstrapping, SlotsOf
  <2>3. user[p] => \A z \in Slots : flow[z] # "boot"
    BY DEF OnePageInv, PageInv
  <2>. QED BY <2>2, <2>3
<1>3. \A z \in Slots : flow'[z] # "boot"
  BY <1>0, <1>1, <1>2
<1>4. \A z \in Slots : call'[z] # "refresh"
  BY <1>0, <1>1, <1>2, PagesAssumption DEF OnePageInv, PageInv
<1>5. at'[p] # "none" => \E z \in Slots : waiting'[z]
  BY <1>0, <1>1 DEF OnePageInv, PageInv
<1>6. left'[p] = "never" => \A z \in Slots : flow'[z] # "logout" /\ call'[z] # "logout"
  BY <1>0, <1>1, PagesAssumption DEF OnePageInv, PageInv
<1>. QED BY <1>3, <1>4, <1>5, <1>6 DEF PageInv

\* So does the end of a request, unless the page has a user while it bootstraps.
LEMMA SettleKeepsPage ==
  ASSUME NEW p, OnePageInv(p), NEW s \in Slots, flow[s] # "idle", Settle(s), at[s] # "none",
         UNCHANGED left, user'[p] => user[p] \/ \A z \in Slots : flow'[z] # "boot"
  PROVE  PageInv(p)'
<1>0. /\ at \in [Exchanges -> Awaits \cup Answers \cup {"none"}]
      /\ call \in [Exchanges -> Endpoints \cup {"none"}] /\ flow \in [Slots -> Flows]
      /\ s \in Exchanges /\ p \in Exchanges /\ s # p
  BY PagesAssumption
     DEF OnePageInv, WebInv, SessionInv, SessionTypeOK, ClientTypes
<1>1. /\ call' = [call EXCEPT ![s] = "none"] /\ at' = [at EXCEPT ![s] = "none"]
      /\ flow' = [flow EXCEPT ![s] = "idle"] /\ waiting' = waiting
  BY DEF Settle
<1>2. ASSUME NEW z \in Slots, flow'[z] = "boot"
      PROVE  ~ user'[p] /\ \A w \in Slots : w # z => flow'[w] = "idle"
  <2>1. flow[z] = "boot" /\ z # s
    BY <1>0, <1>1, <1>2
  <2>. QED BY <2>1, <1>0, <1>1, <1>2 DEF OnePageInv, PageInv
<1>3. ASSUME NEW z \in Slots, call'[z] = "refresh" PROVE flow'[z] = "boot" /\ ~ waiting'[z]
  <2>1. call[z] = "refresh" /\ z # s
    BY <1>0, <1>1, <1>3, PagesAssumption
  <2>. QED BY <2>1, <1>0, <1>1 DEF OnePageInv, PageInv
<1>4. at'[p] # "none" => \E z \in Slots : waiting'[z]
  BY <1>0, <1>1 DEF OnePageInv, PageInv
<1>5. left'[p] = "never" => \A z \in Slots : flow'[z] # "logout" /\ call'[z] # "logout"
  BY <1>0, <1>1, PagesAssumption DEF OnePageInv, PageInv
<1>. QED BY <1>2, <1>3, <1>4, <1>5 DEF PageInv

\* The tokens of a login or of the bootstrap.
LEMMA GotTokensKeepsOnePage ==
  ASSUME NEW p, OnePageInv(p), NEW s \in Slots, GotTokens(s)
  PROVE  PageInv(p)' /\ CookieInv'
<1>0. /\ at \in [Exchanges -> Awaits \cup Answers \cup {"none"}]
      /\ call \in [Exchanges -> Endpoints \cup {"none"}] /\ got \in [Exchanges -> 0..issued]
      /\ sent \in [Exchanges -> 0..issued]
      /\ s \in Exchanges /\ p \in Exchanges /\ s # p
  BY PagesAssumption
     DEF OnePageInv, WebInv, SessionInv, SessionTypeOK, ClientTypes
<1>1. /\ call' = [call EXCEPT ![s] = "me"] /\ at' = [at EXCEPT ![s] = Entry("me", got[s])]
      /\ sent' = [sent EXCEPT ![s] = got[s]] /\ got' = [got EXCEPT ![s] = 0]
      /\ cookie' = got[s] /\ s \in Minted
      /\ UNCHANGED <<server, failures, user, flow, waiting, left>>
  BY <1>0 DEF GotTokens, Send, Request, NoToken, Minted
<1>2. CookieInv'
  <2>1. \A y \in Exchanges : Refreshing(y)' =>
           y # s /\ Refreshing(y) /\ at'[y] = at[y] /\ sent'[y] = sent[y]
    BY <1>0, <1>1 DEF Refreshing
  <2>2. \A y \in Minted' : y # s /\ y \in Minted /\ got'[y] = got[y]
    BY <1>0, <1>1 DEF Minted
  <2>. QED BY <2>1, <2>2, <1>1, AnswerSetsCookie
<1>3. \A z \in Slots : call'[z] = "refresh" \/ call'[z] = "logout" => call'[z] = call[z]
  BY <1>0, <1>1, PagesAssumption
<1>4. at'[p] = at[p]
  BY <1>0, <1>1
<1>5. PageInv(p)'
  BY <1>1, <1>3, <1>4 DEF OnePageInv, PageInv
<1>. QED BY <1>2, <1>5

\* A 401: the refresh under way is shared, a new one presents the cookie.
LEMMA Got401KeepsOnePage ==
  ASSUME NEW p, OnePageInv(p), NEW s \in Slots, Got401(s)
  PROVE  PageInv(p)' /\ CookieInv'
<1> DEFINE alone == at[p] = "none"
<1>0. /\ at \in [Exchanges -> Awaits \cup Answers \cup {"none"}]
      /\ call \in [Exchanges -> Endpoints \cup {"none"}]
      /\ sent \in [Exchanges -> 0..issued] /\ waiting \in [Slots -> BOOLEAN]
      /\ s \in Exchanges /\ p \in Exchanges /\ s # p /\ PageOf[s] = p
      /\ p \notin Slots /\ Exchanges = Slots \cup {p} /\ CallsKnown
  BY PagesAssumption
     DEF OnePageInv, WebInv, SessionInv, SessionTypeOK, ClientTypes
<1>1. /\ call' = [call EXCEPT ![p] = "refresh"]
      /\ at' = [at EXCEPT ![s] = "none",
                          ![p] = IF alone THEN Entry("refresh", cookie) ELSE @]
      /\ sent' = [sent EXCEPT ![s] = 0, ![p] = IF alone THEN cookie ELSE @]
      /\ waiting' = [waiting EXCEPT ![s] = TRUE]
      /\ UNCHANGED <<server, failures, got, cookie, user, flow, left>>
      /\ flow[s] # "idle" /\ at[s] = "unauthorized" /\ call[s] # "refresh"
  <2>1. /\ flow[s] # "idle" /\ at[s] = "unauthorized" /\ call[s] # "refresh"
        /\ waiting' = [waiting EXCEPT ![s] = TRUE]
        /\ UNCHANGED <<server, failures, got, cookie, user, flow, left>>
    BY DEF Got401, Refreshable, page
  <2>2. call' = [call EXCEPT ![p] = "refresh"]
    BY <1>0 DEF Got401
  <2>3. at' = [at EXCEPT ![s] = "none",
                         ![p] = IF alone THEN Entry("refresh", cookie) ELSE @]
    BY <1>0 DEF Got401
  <2>4. sent' = [sent EXCEPT ![s] = 0, ![p] = IF alone THEN cookie ELSE @]
    BY <1>0 DEF Got401, NoToken
  <2>. QED BY <2>1, <2>2, <2>3, <2>4
<1>2. \A z \in Slots : ~ Refreshing(z) /\ ~ Refreshing(z)'
  <2>1. \A z \in Slots : ~ Refreshing(z)
    BY <1>1, RefreshIsShared
  <2>. QED BY <2>1, <1>0, <1>1 DEF Refreshing
<1>3. Entry("refresh", cookie) \in {"redisGet", "unauthorized"}
  BY DEF Entry
<1>4. \A y \in Minted' : y \in Minted /\ got'[y] = got[y]
  <2>1. ASSUME NEW y \in Minted' PROVE y \in Minted
    <3>1. CASE y = p
      <4>1. p \in Pages
        BY DEF OnePageInv
      <4>. QED BY <4>1, <2>1, <3>1, <1>0, <1>1, <1>3 DEF Minted, CallsKnown
    <3>2. CASE y # p
      BY <2>1, <3>2, <1>0, <1>1 DEF Minted
    <3>. QED BY <3>1, <3>2
  <2>. QED BY <2>1, <1>1
<1>5. CookieInv'
  <2>1. CASE alone
    <3>1. ~ Refreshing(p)
      BY <2>1 DEF Refreshing
    <3>2. call'[p] = "refresh" /\ at'[p] = Entry("refresh", cookie) /\ sent'[p] = cookie
      BY <2>1, <1>0, <1>1
    <3>. QED BY <3>1, <3>2, <1>0, <1>1, <1>2, <1>4, RefreshPresentsCookie
  <2>2. CASE ~ alone
    <3>1. at'[p] = at[p] /\ sent'[p] = sent[p] /\ Refreshing(p) /\ Refreshing(p)'
      BY <2>2, <1>0, <1>1 DEF CallsKnown, Refreshing, OnePageInv
    <3>2. \A x \in Exchanges : Refreshing(x)' =>
             Refreshing(x) /\ at'[x] = at[x] /\ sent'[x] = sent[x]
      BY <3>1, <1>0, <1>2
    <3>3. \A x \in Exchanges : Refreshing(x) => Refreshing(x)'
      BY <3>1, <1>0, <1>2
    <3>4. Undisturbed' => Undisturbed
      BY <1>1 DEF Undisturbed
    <3>. QED BY <3>2, <3>3, <3>4, <1>1, <1>4, QuietKeepsCookie
  <2>. QED BY <2>1, <2>2
<1>6. PageInv(p)'
  <2>1. \A z \in Slots : call'[z] = call[z]
    BY <1>0, <1>1
  <2>2. waiting'[s] /\ \A z \in Slots : z # s => waiting'[z] = waiting[z]
    BY <1>0, <1>1
  <2>. QED BY <2>1, <2>2, <1>1 DEF OnePageInv, PageInv
<1>. QED BY <1>5, <1>6

\* The refresh of the page succeeds: what waited is sent again with its token.
LEMMA RefreshedKeepsOnePage ==
  ASSUME NEW p, OnePageInv(p), Refreshed(p)
  PROVE  PageInv(p)' /\ CookieInv'
<1>0. /\ at \in [Exchanges -> Awaits \cup Answers \cup {"none"}]
      /\ call \in [Exchanges -> Endpoints \cup {"none"}] /\ got \in [Exchanges -> 0..issued]
      /\ sent \in [Exchanges -> 0..issued] /\ waiting \in [Slots -> BOOLEAN]
      /\ p \in Exchanges /\ p \in Pages /\ p \notin Slots /\ Exchanges = Slots \cup {p}
      /\ CallsKnown /\ Awaiting(p) \subseteq Slots
  BY PagesAssumption
     DEF OnePageInv, WebInv, SessionInv, SessionTypeOK, ClientTypes, Awaiting, SlotsOf
<1>1. /\ at[p] = "ok" /\ cookie' = got[p]
      /\ call' = [call EXCEPT ![p] = "none"] /\ got' = [got EXCEPT ![p] = 0]
      /\ at' = [x \in Exchanges |->
                  IF x = p THEN "none"
                  ELSE IF x \in Awaiting(p) THEN Entry(call[x], got[p]) ELSE at[x]]
      /\ sent' = [x \in Exchanges |->
                    IF x = p THEN 0
                    ELSE IF x \in Awaiting(p) /\ call[x] # "login" THEN got[p]
                    ELSE sent[x]]
      /\ waiting' = [z \in Slots |-> waiting[z] /\ z \notin Awaiting(p)]
      /\ UNCHANGED <<server, failures, user, flow, left>>
  BY DEF Refreshed, NoToken
<1>2. p \in Minted
  BY <1>0, <1>1 DEF CallsKnown, Minted
<1>3. ASSUME NEW z \in Awaiting(p) PROVE call[z] # "refresh" /\ z # p /\ z \in Slots
  <2>1. z \in Slots /\ waiting[z] /\ z # p
    BY <1>0, <1>3 DEF Awaiting
  <2>. QED BY <2>1 DEF OnePageInv, PageInv
<1>4. \A t : Entry("login", t) # "ok"
  BY DEF Entry
<1>5. \A y \in Exchanges : Refreshing(y)' =>
           y # p /\ Refreshing(y) /\ at'[y] = at[y] /\ sent'[y] = sent[y]
  BY <1>0, <1>1, <1>3 DEF Refreshing
<1>6. \A y \in Minted' : y # p /\ y \in Minted /\ got'[y] = got[y]
  BY <1>0, <1>1, <1>3, <1>4 DEF Minted
<1>7. CookieInv'
  BY <1>1, <1>2, <1>5, <1>6, AnswerSetsCookie
<1>8. PageInv(p)'
  <2>1. \A z \in Slots : call'[z] = call[z] /\ (waiting'[z] => waiting[z])
    BY <1>0, <1>1
  <2>2. at'[p] = "none"
    BY <1>0, <1>1
  <2>. QED BY <2>1, <2>2, <1>1 DEF OnePageInv, PageInv
<1>. QED BY <1>7, <1>8

\* It fails: it had no cookie, or it is no longer undisturbed.
LEMMA RefreshFailedKeepsOnePage ==
  ASSUME NEW p, OnePageInv(p), RefreshFailed(p)
  PROVE  PageInv(p)' /\ CookieInv'
<1>0. /\ at \in [Exchanges -> Awaits \cup Answers \cup {"none"}]
      /\ call \in [Exchanges -> Endpoints \cup {"none"}]
      /\ sent \in [Exchanges -> 0..issued] /\ waiting \in [Slots -> BOOLEAN]
      /\ user \in [Pages -> BOOLEAN]
      /\ p \in Exchanges /\ p \in Pages /\ p \notin Slots /\ Exchanges = Slots \cup {p}
      /\ CallsKnown /\ Awaiting(p) \subseteq Slots
  BY PagesAssumption
     DEF OnePageInv, WebInv, SessionInv, SessionTypeOK, ClientTypes, Awaiting, SlotsOf, PageKnown
<1>1. /\ at[p] \in {"unauthorized", "error"}
      /\ user' = [user EXCEPT ![p] = FALSE]
      /\ call' = [x \in Exchanges |->
                    IF x = p \/ x \in Awaiting(p) THEN "none" ELSE call[x]]
      /\ at' = [at EXCEPT ![p] = "none"] /\ sent' = [sent EXCEPT ![p] = 0]
      /\ flow' = [z \in Slots |-> IF z \in Awaiting(p) THEN "idle" ELSE flow[z]]
      /\ waiting' = [z \in Slots |-> waiting[z] /\ z \notin Awaiting(p)]
      /\ UNCHANGED <<server, failures, got, cookie, left>>
  BY DEF RefreshFailed, NoToken, clearAuth
<1>2. Refreshing(p)
  BY <1>0, <1>1 DEF CallsKnown, Refreshing
<1>3. \A z \in Awaiting(p) : at[z] = "none" /\ z # p
  <2>1. \A z \in Awaiting(p) : z \in Slots /\ waiting[z]
    BY <1>0 DEF Awaiting
  <2>. QED BY <2>1, <1>0 DEF OnePageInv, WebInv, SlotsQuiet
<1>4. \A x \in Exchanges : Refreshing(x)' =>
           Refreshing(x) /\ at'[x] = at[x] /\ sent'[x] = sent[x]
  BY <1>0, <1>1 DEF Refreshing
<1>5. Undisturbed /\ account => sent[p] = NoToken
  BY <1>0, <1>1, <1>2 DEF OnePageInv, CookieInv
<1>6. \A x \in Exchanges : Undisturbed /\ account /\ Refreshing(x) =>
        Refreshing(x)' \/ sent[x] = NoToken
  <2>1. \A x \in Exchanges : x # p /\ Refreshing(x) => Refreshing(x)'
    BY <1>0, <1>1, <1>3 DEF Refreshing
  <2>. QED BY <2>1, <1>5
<1>7. \A y \in Minted' : y \in Minted /\ got'[y] = got[y]
  BY <1>0, <1>1 DEF Minted
<1>8. Undisturbed' => Undisturbed
  BY <1>1 DEF Undisturbed
<1>9. CookieInv'
  BY <1>1, <1>4, <1>6, <1>7, <1>8, QuietKeepsCookie
<1>10. PageInv(p)'
  <2>1. at'[p] = "none" /\ ~ user'[p]
    BY <1>0, <1>1
  <2>2. ASSUME NEW z \in Slots
        PROVE  /\ call'[z] = "refresh" => call[z] = "refresh" /\ z \notin Awaiting(p)
               /\ call'[z] = "logout" => call[z] = "logout"
               /\ flow'[z] # "idle" => flow'[z] = flow[z]
               /\ z \notin Awaiting(p) => flow'[z] = flow[z]
               /\ waiting'[z] => waiting[z]
    BY <2>2, <1>0, <1>1
  <2>3. \A z \in Slots : flow'[z] = "logout" => flow[z] = "logout"
    BY <2>2
  <2>4. \A z \in Slots : flow'[z] = "boot" =>
          flow[z] = "boot" /\ \A w \in Slots : w # z => flow'[w] = "idle"
    <3>1. ASSUME NEW z \in Slots, flow'[z] = "boot", NEW w \in Slots, w # z
          PROVE  flow'[w] = "idle"
      <4>1. flow[z] = "boot"
        BY <2>2, <3>1
      <4>2. flow[w] = "idle"
        BY <4>1, <3>1 DEF OnePageInv, PageInv
      <4>. QED BY <4>2, <2>2
    <3>. QED BY <2>2, <3>1
  <2>5. \A z \in Slots : call'[z] = "refresh" => flow'[z] = "boot" /\ ~ waiting'[z]
    BY <2>2 DEF OnePageInv, PageInv
  <2>6. left'[p] = "never" => \A z \in Slots : flow'[z] # "logout" /\ call'[z] # "logout"
    BY <2>2, <2>3, <1>1 DEF OnePageInv, PageInv
  <2>. QED BY <2>1, <2>4, <2>5, <2>6 DEF PageInv
<1>. QED BY <1>9, <1>10

\* Whatever the one page does keeps what is known of it.
LEMMA ClientKeepsOnePage ==
  ASSUME NEW p, OnePageInv(p), NEW s \in Slots,
         Boot(s) \/ Login(s) \/ Api(s) \/ updateProfile(s) \/ Logout(s) \/ Receive(s)
  PROVE  PageInv(p)' /\ CookieInv'
<1>0. /\ PageOf[s] = p /\ Pages = {p} /\ s # p /\ s \in Exchanges
      /\ user \in [Pages -> BOOLEAN] /\ flow \in [Slots -> Flows]
      /\ left \in [Pages -> {"never", "now", "before"}]
  BY PagesAssumption DEF OnePageInv, PageKnown, WebInv, ClientTypes
<1>00. /\ {"login", "api", "profile", "logout"} \subseteq Flows \ {"idle", "boot"}
       /\ {"login", "api", "profile", "logout"} \subseteq Endpoints \ {"refresh"}
  BY DEF Flows, Endpoints
<1>1. CASE Boot(s)
  BY <1>1, BootKeepsOnePage
<1>2. CASE Login(s)
  <2>1. /\ Start(s, "login", "login", NoToken) /\ UNCHANGED user
        /\ ~ isBootstrapping(p)
        /\ left' = [left EXCEPT ![p] = IF @ = "now" THEN "before" ELSE @]
        /\ UNCHANGED failures
    BY <1>0, <1>2 DEF Login, page, Start
  <2>2. left'[p] = "never" => left[p] = "never"
    BY <1>0, <2>1
  <2>3. Undisturbed' => Undisturbed
    BY <1>0, <2>1, <2>2 DEF Undisturbed
  <2>. QED BY <2>1, <2>2, <2>3, <1>00, StartKeepsPage, StartKeepsCookie
<1>3. CASE Api(s)
  <2>1. /\ Start(s, "api", "api", token[p]) /\ UNCHANGED <<user, left>> /\ user[p]
        /\ UNCHANGED failures
    BY <1>0, <1>3 DEF Api, page, Start
  <2>2. Undisturbed' => Undisturbed
    BY <2>1 DEF Undisturbed
  <2>. QED BY <2>1, <2>2, <1>00, StartKeepsPage, StartKeepsCookie
<1>4. CASE updateProfile(s)
  <2>1. /\ Start(s, "profile", "profile", token[p]) /\ UNCHANGED <<user, left>> /\ user[p]
        /\ UNCHANGED failures
    BY <1>0, <1>4 DEF updateProfile, page, Start
  <2>2. Undisturbed' => Undisturbed
    BY <2>1 DEF Undisturbed
  <2>. QED BY <2>1, <2>2, <1>00, StartKeepsPage, StartKeepsCookie
<1>5. CASE Logout(s)
  <2>1. /\ Start(s, "logout", "logout", cookie) /\ UNCHANGED user /\ user[p]
        /\ left'[p] = "now"
    BY <1>0, <1>5 DEF Logout, page
  <2>2. ~ Undisturbed'
    BY <2>1, <1>0 DEF Undisturbed
  <2>3. PageInv(p)'
    BY <2>1, <1>00, StartKeepsPage
  <2>. QED BY <2>2, <2>3 DEF CookieInv
<1>6. CASE GotTokens(s)
  BY <1>6, GotTokensKeepsOnePage
<1>7. CASE GotMe(s)
  <2>1. /\ flow[s] # "idle" /\ Settle(s) /\ at[s] # "none" /\ call[s] = "me"
        /\ UNCHANGED <<server, failures, cookie, left>>
    BY <1>7 DEF GotMe
  <2>2. \A z \in Slots : flow'[z] # "boot"
    BY <1>0, <2>1 DEF Settle, OnePageInv, PageInv
  <2>. QED BY <2>1, <2>2, SettleKeepsPage, SettleKeepsCookie
<1>8. CASE GotApi(s)
  <2>1. /\ flow[s] = "api" /\ Settle(s) /\ at[s] # "none"
        /\ UNCHANGED <<server, failures, cookie, left, user>>
    BY <1>8 DEF GotApi, page
  <2>2. call[s] # "refresh"
    BY <2>1 DEF OnePageInv, PageInv
  <2>. QED BY <2>1, <2>2, SettleKeepsPage, SettleKeepsCookie
<1>9. CASE GotProfile(s)
  <2>1. /\ flow[s] = "profile" /\ Settle(s) /\ at[s] # "none"
        /\ UNCHANGED <<server, failures, cookie, left>>
    BY <1>9 DEF GotProfile
  <2>2. call[s] # "refresh"
    BY <2>1 DEF OnePageInv, PageInv
  <2>3. \A z \in Slots : flow'[z] # "boot"
    BY <1>0, <2>1 DEF Settle, OnePageInv, PageInv
  <2>. QED BY <2>1, <2>2, <2>3, SettleKeepsPage, SettleKeepsCookie
<1>10. CASE LoggedOut(s)
  <2>1. /\ flow[s] = "logout" /\ Settle(s) /\ at[s] # "none" /\ UNCHANGED left
        /\ user' = [user EXCEPT ![p] = FALSE]
    BY <1>0, <1>10 DEF LoggedOut, clearAuth, Answers
  <2>2. left'[p] # "never"
    BY <2>1 DEF OnePageInv, PageInv
  <2>3. ~ Undisturbed' /\ ~ user'[p]
    BY <2>1, <2>2, <1>0 DEF Undisturbed
  <2>4. PageInv(p)'
    BY <2>1, <2>3, SettleKeepsPage
  <2>. QED BY <2>3, <2>4 DEF CookieInv
<1>11. CASE Got401(s)
  BY <1>11, Got401KeepsOnePage
<1>12. CASE Rejected(s)
  <2>1. /\ flow[s] # "idle" /\ Settle(s) /\ at[s] \in {"unauthorized", "error"}
        /\ UNCHANGED <<server, failures, cookie, left>>
    BY <1>12 DEF Rejected
  <2>2. user'[p] => user[p]
    BY <1>0, <1>12 DEF Rejected, clearAuth, page
  <2>. QED BY <2>1, <2>2, SettleKeepsPage, SettleKeepsCookie
<1>. QED BY <1>1, <1>2, <1>3, <1>4, <1>5, <1>6, <1>7, <1>8, <1>9, <1>10, <1>11,
            <1>12 DEF Receive

LEMMA PageStaysKnown ==
  ASSUME PageKnown, [Next]_vars
  PROVE  PageKnown'
<1> USE DEF PageKnown, page, clearAuth
<1>1. ASSUME NEW s \in Slots, Boot(s) \/ Login(s) \/ Api(s) \/ updateProfile(s) \/ Logout(s)
      PROVE  PageKnown'
  <2>1. CASE Boot(s) BY <2>1 DEF Boot
  <2>2. CASE Login(s)
    <3>1. \A q \in Pages : (IF left[q] = "now" THEN "before" ELSE left[q]) \in {"never", "now", "before"}
      OBVIOUS
    <3>. QED BY <2>2, <3>1 DEF Login
  <2>3. CASE Api(s) \/ updateProfile(s) BY <2>3 DEF Api, updateProfile
  <2>4. CASE Logout(s) BY <2>4 DEF Logout
  <2>. QED BY <1>1, <2>1, <2>2, <2>3, <2>4
<1>2. ASSUME NEW s \in Slots, Receive(s) PROVE PageKnown'
  <2>1. CASE GotTokens(s) \/ GotApi(s) \/ Got401(s)
    BY <2>1 DEF GotTokens, GotApi, Got401
  <2>2. CASE GotMe(s) \/ GotProfile(s)
    BY <2>2 DEF GotMe, GotProfile
  <2>3. CASE LoggedOut(s) \/ Rejected(s)
    BY <2>3 DEF LoggedOut, Rejected
  <2>. QED BY <1>2, <2>1, <2>2, <2>3 DEF Receive
<1>3. ASSUME NEW q \in Pages, ReceiveRefresh(q) PROVE PageKnown'
  BY <1>3 DEF ReceiveRefresh, Refreshed, RefreshFailed
<1>4. CASE UNCHANGED <<page, left>>
  BY <1>4
<1>. QED BY <1>1, <1>2, <1>3, <1>4 DEF Next, vars

\* The single flight of one page is an invariant of every order of its requests,
\* the expiries of its tokens and the answers of the server.
LEMMA OnePageInvariance ==
  ASSUME NEW p, Pages = {p}
  PROVE  Spec => []OnePageInv(p)
<1>1. Init => OnePageInv(p)
  <2> SUFFICES ASSUME Init PROVE OnePageInv(p)
    OBVIOUS
  <2>1. WebInv
    BY SessionAssumption, PagesAssumption
       DEF Init, WebInv, SessionInit, SessionInv, SessionTypeOK, HandlersOwnCalls,
           NoToken, Awaits, Answers, Endpoints,
           ClientTypes, CallsKnown, SlotsQuiet, Flows
  <2>2. PageKnown /\ PageInv(p) /\ CookieInv
    BY PagesAssumption
       DEF Init, SessionInit, PageKnown, PageInv, CookieInv, Minted, Refreshing, NoToken
  <2>. QED BY <2>1, <2>2 DEF OnePageInv
<1>2. OnePageInv(p) /\ [Next]_vars => OnePageInv(p)'
  <2> SUFFICES ASSUME OnePageInv(p), [Next]_vars PROVE OnePageInv(p)'
    OBVIOUS
  <2>1. WebInv' /\ PageKnown'
    BY WebKeeps, PageStaysKnown DEF OnePageInv
  <2>2. CASE ServerStep /\ UNCHANGED <<cookie, page, slot, left>>
    BY <2>2, ServerKeepsPage, ServerKeepsCookie, <2>1 DEF OnePageInv
  <2>3. CASE \E s \in Slots : \/ Boot(s) \/ Login(s) \/ Api(s) \/ updateProfile(s)
                              \/ Logout(s) \/ Receive(s)
    BY <2>3, ClientKeepsOnePage, <2>1 DEF OnePageInv
  <2>4. CASE \E q \in Pages : ReceiveRefresh(q)
    <3>1. Refreshed(p) \/ RefreshFailed(p)
      BY <2>4 DEF ReceiveRefresh, OnePageInv
    <3>. QED BY <3>1, RefreshedKeepsOnePage, RefreshFailedKeepsOnePage, <2>1 DEF OnePageInv
  <2>5. CASE UNCHANGED vars
    <3>1. PageInv(p)' /\ CookieInv'
      BY <2>5 DEF OnePageInv, PageInv, CookieInv, Undisturbed, Minted, Refreshing,
         vars, sessionVars, page, slot
    <3>. QED BY <3>1, <2>1 DEF OnePageInv
  <2>. QED BY <2>2, <2>3, <2>4, <2>5 DEF Next
<1>. QED BY <1>1, <1>2, PTL DEF Spec

\* While one page is open, its single flight presents each cookie once: the
\* server refuses a refresh only without a cookie or an account, for any number
\* of requests that find their token expired at once.  With two pages it is false.
THEOREM SingleFlightIsNeverRefused ==
  ASSUME NEW p, Pages = {p}
  PROVE  Spec => []NeverRefusedForNothing
<1>1. OnePageInv(p) => NeverRefusedForNothing
  BY PagesAssumption DEF SlotsOf, OnePageInv, CookieInv, NeverRefusedForNothing, Refreshing
<1>. QED BY <1>1, OnePageInvariance, PTL

\* Between the requests of the one page the cookie is that of a live session.
THEOREM CookieStaysLive ==
  ASSUME NEW p, Pages = {p}
  PROVE  Spec => []CookieIsLive
<1>1. OnePageInv(p) => CookieIsLive
  BY DEF OnePageInv, CookieInv, CookieIsLive, Refreshing
<1>. QED BY <1>1, OnePageInvariance, PTL
=============================================================================
