------------------------- MODULE RegistrationProofs -------------------------
(***************************************************************************)
(* Theorems about Registration.tla, for any number of requests, codes,     *)
(* mails, crashes and lost connections: its type invariant, how often a    *)
(* mail is sent, how many wrong guesses are counted for an issued code,    *)
(* and what holds of the code on file while requests come one at a time.   *)
(***************************************************************************)
EXTENDS Registration, FiniteSetTheorems, TLAPS

USE ActivationAssumption, MailAssumption DEF store, history, Goto, Answer

\* From generating a code to handing its mail over.
Holding == {"clearAttempts", "armCooldown", "mail"}

Issuing == {"regFind", "regCreate", "checkCooldown", "findPending", "setCode"}

\* A request that holds a code is the only one that does, and for each that is
\* going to generate one there is a code left.
CodesInv ==
  /\ issued \in SUBSET Codes
  /\ pc \in [Requests -> Calls]
  /\ mine \in [Requests -> issued \cup {NoCode}]
  /\ \A r \in Requests : pc[r] \in Holding <=> mine[r] # NoCode
  /\ \A q, r \in Requests : mine[q] = mine[r] /\ mine[q] # NoCode => q = r
  /\ Cardinality(issued) + Cardinality(WillIssue) <= Cardinality(Codes)

\* A code not generated yet, or not handed over yet.
Fresh(j) == j \notin issued \/ \E r \in Requests : mine[r] = j

\* CopiesExplained counts the faults of the whole system; a mail that is queued
\* can still be sent once more, so it has had one fault less, and that is kept
\* because nobody enqueues a mail twice.
MailInv ==
  /\ MailTypeOK
  /\ \A j \in Jobs :
       /\ copies[j] <= 1 + faults
       /\ at[j] = "queued" => copies[j] <= faults
       /\ at[j] = "sent" => channel = "open"
       /\ Fresh(j) => at[j] = "none" /\ copies[j] = 0

-----------------------------------------------------------------------------
(***************************************************************************)
(* The requests                                                            *)
(***************************************************************************)
LEMMA Counts ==
  /\ IsFiniteSet(WillIssue) /\ Cardinality(WillIssue) \in Nat
  /\ IsFiniteSet(WillIssue') /\ Cardinality(WillIssue') \in Nat
  /\ Cardinality(Codes) \in Nat
<1>1. WillIssue \subseteq Requests /\ WillIssue' \subseteq Requests
  BY DEF WillIssue
<1>. QED BY <1>1, FS_Subset, FS_CardinalityType

LEMMA IssuedCount ==
  ASSUME CodesInv PROVE IsFiniteSet(issued) /\ Cardinality(issued) \in Nat
BY FS_Subset, FS_CardinalityType DEF CodesInv

LEMMA NoMoreIssuing ==
  ASSUME CodesInv, issued' = issued, WillIssue' \subseteq WillIssue
  PROVE  Cardinality(issued') + Cardinality(WillIssue') <= Cardinality(Codes)
<1>1. Cardinality(WillIssue') <= Cardinality(WillIssue)
  BY Counts, FS_Subset
<1>. QED BY <1>1, Counts, IssuedCount DEF CodesInv

LEMMA AnswerKeeps ==
  ASSUME CodesInv, NEW r \in Requests, Answer(r), issued' = issued
  PROVE  CodesInv' /\ \A j : Fresh(j)' => Fresh(j) /\ (j \in issued => j # mine[r])
<1>1. WillIssue' \subseteq WillIssue
  BY DEF CodesInv, WillIssue
<1>2. CodesInv'
  BY <1>1, NoMoreIssuing DEF CodesInv, Calls, Holding
<1>3. \A j : Fresh(j)' => Fresh(j) /\ (j \in issued => j # mine[r])
  BY DEF CodesInv, Fresh
<1>. QED BY <1>2, <1>3

\* A request goes on and keeps what it holds.
LEMMA AdvanceKeeps ==
  ASSUME CodesInv, NEW r \in Requests, NEW call \in Calls, Goto(r, call),
         UNCHANGED <<mine, issued>>,
         call \in Holding <=> pc[r] \in Holding,
         call \in Issuing => pc[r] \in Issuing
  PROVE  CodesInv' /\ \A j : Fresh(j)' => Fresh(j)
<1>1. WillIssue' \subseteq WillIssue
  BY DEF CodesInv, WillIssue, Issuing
<1>2. CodesInv'
  BY <1>1, NoMoreIssuing DEF CodesInv
<1>3. \A j : Fresh(j)' => Fresh(j)
  BY DEF Fresh
<1>. QED BY <1>2, <1>3

\* The bound on the codes leaves one to whoever is about to generate it.
LEMMA CodeLeft ==
  ASSUME CodesInv, NEW r \in Requests, pc[r] = "setCode"
  PROVE  Codes \ issued # {}
<1>1. r \in WillIssue
  BY DEF WillIssue
<1>2. Cardinality(WillIssue) # 0
  BY <1>1, Counts, FS_EmptySet
<1>3. Cardinality(issued) < Cardinality(Codes)
  BY <1>2, Counts, IssuedCount DEF CodesInv
<1>4. CASE Codes \ issued = {}
  <2>1. issued = Codes
    BY <1>4 DEF CodesInv
  <2>. QED BY <1>3, <2>1, Counts
<1>. QED BY <1>4

LEMMA SetCodeKeeps ==
  ASSUME CodesInv, NEW r \in Requests, SetCode(r)
  PROVE  CodesInv' /\ \A j : Fresh(j)' => Fresh(j)
<1> DEFINE c == CHOOSE c \in Codes \ issued : TRUE
<1>1. r \in WillIssue
  BY DEF SetCode, WillIssue
<1>4. Codes \ issued # {}
  BY CodeLeft DEF SetCode
<1>5. c \in Codes \ issued
  BY <1>4
<1>6. /\ issued' = issued \cup {c} /\ mine' = [mine EXCEPT ![r] = c]
      /\ pc' = [pc EXCEPT ![r] = "clearAttempts"] /\ pc[r] = "setCode"
  BY DEF SetCode
<1> HIDE DEF c
<1>7. Cardinality(issued') = Cardinality(issued) + 1
  BY <1>5, <1>6, IssuedCount, FS_AddElement
<1>8. WillIssue' = WillIssue \ {r}
  BY <1>6 DEF CodesInv, WillIssue
<1>9. Cardinality(WillIssue') = Cardinality(WillIssue) - 1
  BY <1>1, <1>8, Counts, FS_RemoveElement
<1>10. c # NoCode /\ \A q \in Requests : mine[q] # c
  BY <1>5 DEF CodesInv
<1>11. \A q, s \in Requests : mine'[q] = mine'[s] /\ mine'[q] # NoCode => q = s
  BY <1>6, <1>10 DEF CodesInv
<1>12. /\ issued' \in SUBSET Codes
       /\ pc' \in [Requests -> Calls]
       /\ mine' \in [Requests -> issued' \cup {NoCode}]
       /\ \A q \in Requests : pc'[q] \in Holding <=> mine'[q] # NoCode
  BY <1>5, <1>6, <1>10 DEF CodesInv, Calls, Provisioning, Holding
<1>13. CodesInv'
  BY <1>7, <1>9, <1>11, <1>12, Counts, IssuedCount DEF CodesInv
<1>14. \A j : Fresh(j)' => Fresh(j)
  BY <1>5, <1>6 DEF CodesInv, Fresh
<1>. QED BY <1>13, <1>14

LEMMA StartKeeps ==
  ASSUME CodesInv, NEW r \in Requests, StartRegister(r) \/ StartResend(r)
  PROVE  CodesInv' /\ \A j : Fresh(j)' => Fresh(j)
<1>1. PICK call \in {"regFind", "checkCooldown"} : Start(r, call)
  BY DEF StartRegister, StartResend
<1>2. /\ pc[r] = "idle" /\ pc' = [pc EXCEPT ![r] = call]
      /\ UNCHANGED <<mine, issued>>
      /\ Cardinality(issued) + Cardinality(WillIssue) < Cardinality(Codes)
  BY <1>1 DEF Start, Arrive
<1>3. r \notin WillIssue /\ WillIssue' = WillIssue \cup {r}
  BY <1>2 DEF CodesInv, WillIssue
<1>4. Cardinality(WillIssue') = Cardinality(WillIssue) + 1
  BY <1>3, Counts, FS_AddElement
<1>5. Cardinality(issued') + Cardinality(WillIssue') <= Cardinality(Codes)
  BY <1>2, <1>4, Counts, IssuedCount
<1>6. CodesInv'
  BY <1>2, <1>5 DEF CodesInv, Calls, Holding
<1>7. \A j : Fresh(j)' => Fresh(j)
  BY <1>2 DEF Fresh
<1>. QED BY <1>6, <1>7

LEMMA StartActivateKeeps ==
  ASSUME CodesInv, NEW r \in Requests, StartActivate(r)
  PROVE  CodesInv' /\ \A j : Fresh(j)' => Fresh(j)
<1>1. /\ pc[r] = "idle" /\ Goto(r, "getCode") /\ UNCHANGED <<mine, issued>>
  BY DEF StartActivate, Arrive
<1>. QED BY <1>1, AdvanceKeeps DEF Calls, Holding, Issuing

LEMMA StoreCallKeeps ==
  ASSUME CodesInv, NEW r \in Requests, StoreCall(r)
  PROVE  CodesInv' /\ \A j : Fresh(j)' => Fresh(j)
<1>1. CASE SetCode(r)
  BY <1>1, SetCodeKeeps
<1>2. CASE ClearAttempts(r) \/ ArmCooldown(r)
  <2>1. PICK call \in {"armCooldown", "mail"} :
          pc[r] \in Holding /\ Goto(r, call) /\ UNCHANGED <<mine, issued>>
    BY <1>2 DEF ClearAttempts, ArmCooldown, Holding
  <2>. QED BY <2>1, AdvanceKeeps DEF Calls, Provisioning, Holding, Issuing
<1>3. CASE \/ RegisterFind(r) \/ RegisterCreate(r) \/ CheckCooldown(r)
           \/ FindPending(r) \/ ArmOnly(r)
  <2>1. CASE Answer(r)
    <3>1. issued' = issued
      BY <1>3 DEF RegisterFind, RegisterCreate, CheckCooldown, FindPending, ArmOnly
    <3>. QED BY <2>1, <3>1, AnswerKeeps
  <2>2. CASE ~ Answer(r)
    <3>1. PICK call \in {"regCreate", "findPending", "armOnly", "setCode"} :
            /\ pc[r] \in Issuing /\ pc[r] \notin Holding
            /\ Goto(r, call) /\ UNCHANGED <<mine, issued>>
      BY <1>3, <2>2 DEF RegisterFind, RegisterCreate, CheckCooldown,
                        FindPending, ArmOnly, Issuing, Holding
    <3>. QED BY <3>1, AdvanceKeeps DEF Calls, Provisioning, Holding
  <2>. QED BY <2>1, <2>2
<1>4. CASE \/ GetCode(r) \/ CountMiss(r) \/ Burn(r) \/ FindUser(r)
           \/ SetActive(r) \/ DropCode(r)
  <2>1. CASE Answer(r)
    <3>1. issued' = issued
      BY <1>4 DEF GetCode, CountMiss, Burn, FindUser, SetActive, DropCode
    <3>. QED BY <2>1, <3>1, AnswerKeeps
  <2>2. CASE ~ Answer(r)
    <3>1. PICK call \in {"countMiss", "findUser", "burn", "setActive", "dropCode"} :
            /\ pc[r] \notin Holding
            /\ Goto(r, call) /\ UNCHANGED <<mine, issued>>
      BY <1>4, <2>2 DEF GetCode, CountMiss, Burn, FindUser, SetActive, DropCode,
                        Holding
    <3>. QED BY <3>1, AdvanceKeeps DEF Calls, Holding, Issuing
  <2>. QED BY <2>1, <2>2
<1>. QED BY <1>1, <1>2, <1>3, <1>4 DEF StoreCall

\* What happens with no mail handed over.
LEMMA QuietKeeps ==
  ASSUME CodesInv,
         \/ \E r \in Requests : StoreCall(r)
         \/ Environment
         \/ UNCHANGED vars
  PROVE  CodesInv' /\ \A j : Fresh(j)' => Fresh(j)
<1>1. CASE \E r \in Requests : StoreCall(r)
  BY <1>1, StoreCallKeeps
<1>2. ASSUME NEW r \in Requests, Fail(r)
      PROVE  CodesInv' /\ \A j : Fresh(j)' => Fresh(j)
  BY <1>2, AnswerKeeps DEF Fail
<1>3. CASE ExpireCode \/ ExpireCooldown \/ UNCHANGED vars
  BY <1>3 DEF ExpireCode, ExpireCooldown, vars, CodesInv, Fresh, WillIssue
<1>. QED BY <1>1, <1>2, <1>3, StartKeeps, StartActivateKeeps DEF Environment

-----------------------------------------------------------------------------
(***************************************************************************)
(* The mails                                                               *)
(***************************************************************************)
\* A step that hands no mail over.
LEMMA MailUntouched ==
  ASSUME MailInv, UNCHANGED mail, \A j : Fresh(j)' => Fresh(j)
  PROVE  MailInv'
BY DEF mail, MailInv, MailTypeOK

LEMMA ConsumeKeeps ==
  ASSUME CodesInv, MailInv, NEW j \in Jobs, Consume(j), UNCHANGED vars
  PROVE  MailInv'
<1>1. \A k : Fresh(k)' <=> Fresh(k)
  BY DEF vars, Fresh
<1>2. CASE Send(j)
  BY <1>1, <1>2 DEF Send, SendMail, Move, MailInv, MailTypeOK, Places
<1>3. CASE SendFails(j)
  BY <1>1, <1>3 DEF SendFails, Move, Fault, MailInv, MailTypeOK, Places
<1>4. CASE Ack(j)
  BY <1>1, <1>4 DEF Ack, Move, MailInv, MailTypeOK, Places
<1>. QED BY <1>2, <1>3, <1>4 DEF Consume

\* The broker queues again what was not acknowledged: a fault, except that after
\* a closed channel there is nothing left to queue.
LEMMA RequeueKeeps ==
  ASSUME CodesInv, MailInv, Close \/ Restart, \A j : Fresh(j)' => Fresh(j)
  PROVE  MailInv'
<1>1. /\ channel' \in {"none", "open", "closed"}
      /\ at' \in [Jobs -> Places] /\ copies' = copies
      /\ faults' \in 0..MaxFaults
  BY DEF Close, Restart, Requeue, Fault, MailInv, MailTypeOK, Places
<1>2. ASSUME NEW j \in Jobs
      PROVE  /\ copies'[j] <= 1 + faults'
             /\ at'[j] = "queued" => copies'[j] <= faults'
             /\ at'[j] = "sent" => channel' = "open"
             /\ Fresh(j)' => at'[j] = "none" /\ copies'[j] = 0
  BY <1>1 DEF Close, Restart, Requeue, Fault, MailInv, MailTypeOK
<1>. QED BY <1>1, <1>2 DEF MailInv, MailTypeOK

\* The code handed over was fresh, and no more is.
LEMMA HandOverKeeps ==
  ASSUME CodesInv, MailInv, NEW r \in Requests, pc[r] = "mail", Answer(r),
         issued' = issued, Enqueue(mine[r]) \/ EnqueueThrows(mine[r])
  PROVE  MailInv'
<1> DEFINE m == mine[r]
<1>1. \A j : Fresh(j)' => Fresh(j) /\ j # m
  <2>1. m \in issued
    BY DEF CodesInv, Holding
  <2>. QED BY <2>1, AnswerKeeps
<1>2. m \in Jobs => at[m] = "none" /\ copies[m] = 0
  BY DEF MailInv, Fresh
<1>3. /\ channel' = channel
      /\ at' = at \/ (channel = "open" /\ at' = [at EXCEPT ![m] = "queued"])
      /\ copies' = copies \/ copies' = [copies EXCEPT ![m] = @ + 1]
      /\ faults' = faults \/ (faults' = faults + 1 /\ faults' \in 0..MaxFaults)
      /\ at' # at /\ copies' # copies => faults' = faults + 1
  BY DEF Enqueue, EnqueueThrows, Move, SendMail, Fault, MailInv, MailTypeOK
<1> HIDE DEF m
<1>4. MailTypeOK'
  BY <1>3 DEF MailInv, MailTypeOK, Places
<1>5. ASSUME NEW j \in Jobs
      PROVE  /\ copies'[j] <= 1 + faults'
             /\ at'[j] = "queued" => copies'[j] <= faults'
             /\ at'[j] = "sent" => channel' = "open"
             /\ Fresh(j)' => at'[j] = "none" /\ copies'[j] = 0
  <2>1. CASE j = m
    BY <1>1, <1>2, <1>3, <2>1 DEF MailInv, MailTypeOK
  <2>2. CASE j # m
    <3>1. at'[j] = at[j] /\ copies'[j] = copies[j] /\ faults' >= faults
      BY <1>3, <2>2 DEF MailInv, MailTypeOK
    <3>. QED BY <1>1, <1>3, <3>1 DEF MailInv, MailTypeOK
  <2>. QED BY <2>1, <2>2
<1>. QED BY <1>4, <1>5 DEF MailInv

-----------------------------------------------------------------------------
RInv == CodesInv /\ MailInv

LEMMA InitRInv == RegistrationInit => RInv
<1> SUFFICES ASSUME RegistrationInit PROVE RInv
  OBVIOUS
<1>1. WillIssue = {} /\ issued = {}
  BY DEF RegistrationInit, Init, WillIssue
<1>2. Cardinality(issued) + Cardinality(WillIssue) <= Cardinality(Codes)
  BY <1>1, Counts, FS_EmptySet
<1>3. CodesInv
  BY <1>2 DEF RegistrationInit, Init, CodesInv, Calls, Holding
<1>4. MailInv
  BY DEF RegistrationInit, MailInit, MailInv, MailTypeOK, Places
<1>. QED BY <1>3, <1>4 DEF RInv

LEMMA StepKeepsRInv == RInv /\ [RegistrationNext]_all => RInv'
<1> SUFFICES ASSUME CodesInv, MailInv, [RegistrationNext]_all PROVE RInv'
  BY DEF RInv
<1>1. ASSUME NEW r \in Requests, Request(r) PROVE RInv'
  <2>1. CASE StoreCall(r) /\ UNCHANGED mail
    BY <2>1, QuietKeeps, MailUntouched DEF RInv
  <2>2. CASE MailCode(r) \/ MailCodeThrows(r)
    <3>1. /\ pc[r] = "mail" /\ Answer(r) /\ issued' = issued
          /\ Enqueue(mine[r]) \/ EnqueueThrows(mine[r])
      BY <2>2 DEF MailCode, Mail, MailCodeThrows
    <3>2. CodesInv'
      BY <3>1, AnswerKeeps
    <3>3. MailInv'
      BY <3>1, HandOverKeeps
    <3>. QED BY <3>2, <3>3 DEF RInv
  <2>. QED BY <1>1, <2>1, <2>2 DEF Request
<1>2. CASE Environment /\ UNCHANGED mail
  BY <1>2, QuietKeeps, MailUntouched DEF RInv
<1>3. CASE (\E j \in Jobs : Consume(j)) /\ UNCHANGED vars
  BY <1>3, QuietKeeps, ConsumeKeeps DEF RInv
<1>4. CASE Close /\ UNCHANGED vars
  BY <1>4, QuietKeeps, RequeueKeeps DEF RInv
<1>5. CASE ProcessRestarts
  <2>1. /\ pc' = [r \in Requests |-> "idle"]
        /\ mine' = [r \in Requests |-> NoCode]
        /\ issued' = issued /\ Restart
    BY <1>5 DEF ProcessRestarts
  <2>2. WillIssue' \subseteq WillIssue
    BY <2>1 DEF WillIssue
  <2>3. CodesInv'
    BY <2>1, <2>2, NoMoreIssuing DEF CodesInv, Calls, Holding
  <2>4. \A j : Fresh(j)' => Fresh(j)
    BY <2>1 DEF Fresh, CodesInv
  <2>. QED BY <2>1, <2>3, <2>4, RequeueKeeps DEF RInv
<1>6. CASE UNCHANGED all
  BY <1>6, QuietKeeps, MailUntouched DEF all, RInv
<1>. QED BY <1>1, <1>2, <1>3, <1>4, <1>5, <1>6 DEF RegistrationNext

\* No two requests hold one code, and a mail that may still be sent has had a
\* fault fewer than it may have (provisionCode, MailConsumer).
THEOREM RegistrationInvariance == RegistrationSpec => []RInv
BY InitRInv, StepKeepsRInv, PTL DEF RegistrationSpec

\* A code is mailed once, and once more for each fault at most: a full buffer, a
\* failed sending, a crash or a connection lost before the acknowledgement
\* (MailProducer.enqueue and handleJob).
THEOREM MailsAreExplained == RegistrationSpec => []CopiesExplained
<1>1. RInv => CopiesExplained
  BY DEF RInv, MailInv, CopiesExplained
<1>. QED BY <1>1, RegistrationInvariance, PTL

-----------------------------------------------------------------------------
(***************************************************************************)
(* Types                                                                   *)
(***************************************************************************)
LEMMA StoreCallTypes ==
  ASSUME CodesInv, TypeOK, NEW r \in Requests, StoreCall(r)
  PROVE  TypeOK'
<1>1. /\ pc' \in [Requests -> Calls] /\ issued' \subseteq Codes
      /\ mine' \in [Requests -> Codes \cup {NoCode}]
  BY StoreCallKeeps DEF CodesInv
<1>2. CASE SetCode(r)
  <2>1. PICK c \in Codes : code' = c
    BY <1>2, CodeLeft DEF SetCode
  <2>. QED BY <1>1, <1>2, <2>1 DEF SetCode, TypeOK
<1>3. CASE \/ RegisterFind(r) \/ RegisterCreate(r) \/ ClearAttempts(r)
           \/ ArmCooldown(r) \/ CheckCooldown(r) \/ FindPending(r) \/ ArmOnly(r)
  <2>1. guess' \in [Requests -> Codes \cup {NoCode}]
    BY <1>3 DEF RegisterFind, RegisterCreate, ClearAttempts,
                ArmCooldown, CheckCooldown, FindPending, ArmOnly, TypeOK
  <2>2. /\ account' \in {account, "PENDING"} /\ code' = code
        /\ attempts' \in {attempts, 0}
        /\ UNCHANGED <<misses, failures>>
    BY <1>3 DEF RegisterFind, RegisterCreate, ClearAttempts,
                ArmCooldown, CheckCooldown, FindPending, ArmOnly
  <2>3. cooldown' \in BOOLEAN /\ orderly' \in BOOLEAN
    BY <1>3 DEF RegisterFind, RegisterCreate, ClearAttempts,
                ArmCooldown, CheckCooldown, FindPending, ArmOnly, TypeOK
  <2>. QED BY <1>1, <2>1, <2>2, <2>3 DEF TypeOK
<1>4. CASE \/ GetCode(r) \/ CountMiss(r) \/ Burn(r) \/ FindUser(r)
           \/ SetActive(r) \/ DropCode(r)
  <2>1. guess' \in [Requests -> Codes \cup {NoCode}]
    BY <1>4 DEF GetCode, CountMiss, Burn, FindUser, SetActive, DropCode, TypeOK
  <2>2. /\ account' \in {account, "ACTIVE"} /\ code' \in {code, NoCode}
        /\ attempts' \in {attempts, attempts + 1, 0}
        /\ misses' \in {misses, misses + 1, 0}
        /\ UNCHANGED failures
    BY <1>4 DEF GetCode, CountMiss, Burn, FindUser, SetActive, DropCode
  <2>3. cooldown' \in BOOLEAN /\ orderly' \in BOOLEAN
    BY <1>4 DEF GetCode, CountMiss, Burn, FindUser, SetActive, DropCode, TypeOK
  <2>. QED BY <1>1, <2>1, <2>2, <2>3 DEF TypeOK
<1>. QED BY <1>2, <1>3, <1>4 DEF StoreCall

LEMMA EnvironmentTypes ==
  ASSUME CodesInv, TypeOK, Environment
  PROVE  TypeOK'
<1>1. /\ pc' \in [Requests -> Calls] /\ issued' \subseteq Codes
      /\ mine' \in [Requests -> Codes \cup {NoCode}]
  BY QuietKeeps DEF CodesInv
<1>2. ASSUME NEW r \in Requests,
             StartRegister(r) \/ StartResend(r) \/ StartActivate(r)
      PROVE  TypeOK'
  <2>1. guess' \in [Requests -> Codes \cup {NoCode}]
    BY <1>2 DEF StartRegister, StartResend, StartActivate, Start, TypeOK
  <2>2. UNCHANGED <<account, code, attempts, misses, failures>>
    BY <1>2 DEF StartRegister, StartResend, StartActivate, Start, Arrive
  <2>3. cooldown' \in BOOLEAN /\ orderly' \in BOOLEAN
    BY <1>2 DEF StartRegister, StartResend, StartActivate, Start, Arrive, TypeOK
  <2>. QED BY <1>1, <2>1, <2>2, <2>3 DEF TypeOK
<1>3. ASSUME NEW r \in Requests, Fail(r)
      PROVE  TypeOK'
  <2>1. guess' \in [Requests -> Codes \cup {NoCode}] /\ failures' \in 0..MaxFailures
    BY <1>3 DEF Fail, TypeOK
  <2>2. UNCHANGED <<account, code, attempts, misses>>
    BY <1>3 DEF Fail
  <2>3. cooldown' \in BOOLEAN /\ orderly' \in BOOLEAN
    BY <1>3 DEF Fail, TypeOK
  <2>. QED BY <1>1, <2>1, <2>2, <2>3 DEF TypeOK
<1>4. CASE ExpireCode \/ ExpireCooldown
  <2>1. /\ code' \in {code, NoCode} /\ misses' \in {misses, 0}
        /\ UNCHANGED <<account, attempts, guess, failures>>
    BY <1>4 DEF ExpireCode, ExpireCooldown
  <2>2. cooldown' \in BOOLEAN /\ orderly' \in BOOLEAN
    BY <1>4 DEF ExpireCode, ExpireCooldown, TypeOK
  <2>. QED BY <1>1, <2>1, <2>2 DEF TypeOK
<1>. QED BY <1>2, <1>3, <1>4 DEF Environment

LEMMA StepKeepsTypes == RInv /\ TypeOK /\ [RegistrationNext]_all => TypeOK'
<1> SUFFICES ASSUME CodesInv, TypeOK, [RegistrationNext]_all PROVE TypeOK'
  BY DEF RInv
<1>1. ASSUME NEW r \in Requests, Request(r) PROVE TypeOK'
  <2>1. CASE MailCode(r) \/ MailCodeThrows(r)
    <3>1. /\ Answer(r) /\ UNCHANGED <<account, code, attempts, issued, misses, failures>>
      BY <2>1 DEF MailCode, Mail, MailCodeThrows
    <3>2. cooldown' \in BOOLEAN /\ orderly' \in BOOLEAN
      BY <2>1 DEF MailCode, Mail, MailCodeThrows, TypeOK
    <3>. QED BY <3>1, <3>2 DEF TypeOK, Calls
  <2>. QED BY <1>1, <2>1, StoreCallTypes DEF Request
<1>2. CASE ProcessRestarts
  <2>1. cooldown' \in BOOLEAN /\ orderly' \in BOOLEAN
    BY <1>2 DEF ProcessRestarts, TypeOK
  <2>. QED BY <1>2, <2>1 DEF ProcessRestarts, TypeOK, Calls
<1>3. CASE UNCHANGED vars
  BY <1>3 DEF vars, TypeOK
<1>4. CASE Environment
  BY <1>4, EnvironmentTypes
<1>5. UNCHANGED all => UNCHANGED vars
  BY DEF all
<1>. QED BY <1>1, <1>2, <1>3, <1>4, <1>5 DEF RegistrationNext

LEMMA InitTypes == RegistrationInit => TypeOK
<1> SUFFICES ASSUME RegistrationInit PROVE TypeOK
  OBVIOUS
<1>1. cooldown \in BOOLEAN /\ orderly \in BOOLEAN
  BY DEF RegistrationInit, Init
<1>2. /\ account = "none" /\ code = NoCode /\ attempts = 0 /\ issued = {}
      /\ misses = 0 /\ failures = 0
      /\ pc = [r \in Requests |-> "idle"]
      /\ guess = [r \in Requests |-> NoCode]
      /\ mine = [r \in Requests |-> NoCode]
  BY DEF RegistrationInit, Init
<1>. QED BY <1>1, <1>2 DEF TypeOK, Calls

\* Every row, key and call keeps its type (auth.service.ts register, activate,
\* resendCode; mail.producer.ts).
THEOREM TypeCorrectness == RegistrationSpec => []RegistrationTypeOK
<1>1. RegistrationSpec => []TypeOK
  BY RegistrationInvariance, InitTypes, StepKeepsTypes, PTL DEF RegistrationSpec
<1>2. RInv => MailTypeOK
  BY DEF RInv, MailInv
<1>. QED BY <1>1, <1>2, RegistrationInvariance, PTL DEF RegistrationTypeOK

-----------------------------------------------------------------------------
(***************************************************************************)
(* How many wrong guesses a code survives.  The counter can be reset under *)
(* a code by the requests that set an earlier one; each such reset hides   *)
(* less than the cap, and a guess that is being compared, or was lost with *)
(* its request, has not been counted.                                      *)
(***************************************************************************)
\* The requests that will not reset the counter under the code on file.
Past == {r \in Requests : pc[r] # "clearAttempts"}

Comparing == {r \in Requests : pc[r] \in {"countMiss", "burn"}}

\* Counting up to the cap is what makes a request burn the code.
Counted == IF attempts < MaxCodeAttempts THEN attempts ELSE MaxCodeAttempts - 1

\* The crashes there can have been: one fault each, and a restart after a closed
\* channel is no fault of its own.
Crashes == IF channel = "closed" THEN faults - 1 ELSE faults

Lost == failures + Cardinality(Requests) * Crashes

Allowance ==
  (MaxCodeAttempts - 1) * Cardinality(Past) + Counted + Cardinality(Comparing) + Lost

MissesInv ==
  /\ channel = "closed" => faults > 0
  /\ misses > 0 => misses + MaxCodeAttempts - 1 <= Allowance

LEMMA ProductGrows ==
  ASSUME NEW m \in Nat, NEW p \in Nat, NEW q \in Nat, p <= q
  PROVE  m * p <= m * q
OBVIOUS

LEMMA ProductStep ==
  ASSUME NEW m \in Nat, NEW p \in Nat
  PROVE  m * p \in Nat /\ m * (p + 1) = m * p + m
OBVIOUS

LEMMA Sizes ==
  /\ Cardinality(Requests) \in Nat
  /\ IsFiniteSet(Past) /\ Cardinality(Past) \in Nat
  /\ IsFiniteSet(Comparing) /\ Cardinality(Comparing) \in Nat
  /\ Cardinality(Comparing) <= Cardinality(Past)
  /\ Cardinality(Past) <= Cardinality(Requests)
<1>1. Past \subseteq Requests /\ Comparing \subseteq Past
  BY DEF Past, Comparing
<1>. QED BY <1>1, FS_Subset, FS_CardinalityType

LEMMA SizesAfter ==
  /\ IsFiniteSet(Past') /\ Cardinality(Past') \in Nat
  /\ IsFiniteSet(Comparing') /\ Cardinality(Comparing') \in Nat
  /\ Cardinality(Past') <= Cardinality(Requests)
<1>1. Past' \subseteq Requests /\ Comparing' \subseteq Requests
  BY DEF Past, Comparing
<1>. QED BY <1>1, FS_Subset, FS_CardinalityType

\* A request that was not going to reset the counter goes on, and is not.
LEMMA MovePast ==
  ASSUME TypeOK, NEW r \in Requests, NEW call, Goto(r, call),
         call # "clearAttempts"
  PROVE  Cardinality(Past') =
           Cardinality(Past) + (IF pc[r] = "clearAttempts" THEN 1 ELSE 0)
<1>. pc \in [Requests -> Calls]
  BY DEF TypeOK
<1>1. CASE pc[r] = "clearAttempts"
  <2>1. Past' = Past \cup {r} /\ r \notin Past
    BY <1>1 DEF Past
  <2>. QED BY <1>1, <2>1, Sizes, FS_AddElement
<1>2. CASE pc[r] # "clearAttempts"
  <2>1. Past' = Past
    BY <1>2 DEF Past
  <2>. QED BY <1>2, <2>1, Sizes
<1>. QED BY <1>1, <1>2

LEMMA CompareNeither ==
  ASSUME TypeOK, NEW r \in Requests, NEW call, Goto(r, call),
         pc[r] \in {"countMiss", "burn"} <=> call \in {"countMiss", "burn"}
  PROVE  Cardinality(Comparing') = Cardinality(Comparing) + 0
<1>1. Comparing' = Comparing
  BY DEF Comparing, TypeOK
<1>. QED BY <1>1, Sizes

LEMMA CompareBegins ==
  ASSUME TypeOK, NEW r \in Requests, Goto(r, "countMiss"),
         pc[r] \notin {"countMiss", "burn"}
  PROVE  Cardinality(Comparing') = Cardinality(Comparing) + 1
<1>1. Comparing' = Comparing \cup {r} /\ r \notin Comparing
  BY DEF Comparing, TypeOK
<1>. QED BY <1>1, Sizes, FS_AddElement

LEMMA CompareEnds ==
  ASSUME TypeOK, NEW r \in Requests, Goto(r, "idle"), pc[r] \in {"countMiss", "burn"}
  PROVE  Cardinality(Comparing') = Cardinality(Comparing) + (-1)
<1>1. Comparing' = Comparing \ {r} /\ r \in Comparing
  BY DEF Comparing, TypeOK
<1>2. Cardinality(Comparing') = Cardinality(Comparing) - 1
  BY <1>1, Sizes, FS_RemoveElement
<1>. QED BY <1>2, Sizes

LEMMA CountedType ==
  ASSUME TypeOK PROVE Counted \in Nat /\ Counted <= MaxCodeAttempts - 1
BY DEF TypeOK, Counted

LEMMA LostType ==
  ASSUME TypeOK, MailTypeOK, MissesInv
  PROVE  Crashes \in Nat /\ Lost \in Nat /\ failures \in Nat /\ faults \in Nat
<1>1. Crashes \in Nat /\ failures \in Nat /\ faults \in Nat
  BY DEF TypeOK, MailTypeOK, MissesInv, Crashes
<1>. QED BY <1>1, Sizes, ProductStep DEF Lost

\* Requests that fail and crashes raise what can have been lost by as much.
LEMMA LostGrows ==
  ASSUME TypeOK, MailTypeOK, MissesInv,
         NEW i \in Nat, failures' = failures + i, NEW j \in Nat, Crashes' = Crashes + j
  PROVE  \E h \in Nat : /\ Lost' = Lost + h
                        /\ h >= i
                        /\ j > 0 => h >= Cardinality(Requests)
<1>1. PICK n \in Nat, k \in Nat : n = Cardinality(Requests) /\ k = Crashes
  BY Sizes, LostType
<1>2. n * k \in Nat /\ n * j \in Nat /\ n * (k + j) = n * k + n * j
  BY ProductStep
<1>3. j > 0 => n * j >= n
  <2>1. n * 1 = n /\ (j > 0 => n * 1 <= n * j)
    BY ProductGrows
  <2>. QED BY <1>2, <2>1
<1>4. Lost' = Lost + (i + n * j)
  BY <1>1, <1>2, LostType DEF Lost
<1>. QED BY <1>1, <1>2, <1>3, <1>4

LEMMA MailCrashes ==
  ASSUME TypeOK, MailTypeOK, MissesInv,
         \/ channel' = channel /\ faults' \in {faults, faults + 1}
         \/ Close
  PROVE  /\ channel' = "closed" => faults' > 0
         /\ \E j \in Nat : Crashes' = Crashes + j
<1>1. faults \in Nat
  BY LostType
<1>2. CASE channel' = channel /\ faults' = faults
  <2>1. Crashes' = Crashes + 0
    BY <1>2, LostType DEF Crashes
  <2>. QED BY <1>2, <2>1 DEF MissesInv
<1>3. CASE channel' = channel /\ faults' = faults + 1
  <2>1. Crashes' = Crashes + 1
    BY <1>1, <1>3 DEF Crashes
  <2>. QED BY <1>1, <1>3, <2>1
<1>4. CASE Close
  <2>1. channel = "open" /\ channel' = "closed" /\ faults' = faults + 1
    BY <1>4 DEF Close, Fault
  <2>2. Crashes' = Crashes + 0
    BY <1>1, <2>1 DEF Crashes
  <2>. QED BY <1>1, <2>1, <2>2
<1>. QED BY <1>2, <1>3, <1>4

LEMMA RestartCrashes ==
  ASSUME TypeOK, MailTypeOK, MissesInv, Restart
  PROVE  channel' # "closed" /\ Crashes' = Crashes + 1
<1>1. faults \in Nat
  BY LostType
<1>2. CASE channel = "closed"
  BY <1>1, <1>2 DEF Restart, Crashes
<1>3. CASE channel # "closed"
  BY <1>1, <1>3 DEF Restart, Fault, Crashes
<1>. QED BY <1>2, <1>3

LEMMA NothingMissed ==
  ASSUME misses' = 0, channel' = "closed" => faults' > 0 PROVE MissesInv'
BY DEF MissesInv

\* The parts of the allowance make up for each other.
LEMMA AllowanceGrows ==
  ASSUME TypeOK, MailTypeOK, MissesInv,
         channel' = "closed" => faults' > 0,
         NEW a \in Nat, Cardinality(Past') = Cardinality(Past) + a,
         NEW b \in Int, Cardinality(Comparing') = Cardinality(Comparing) + b,
         NEW g \in Int, Counted' = Counted + g,
         NEW h \in Nat, Lost' = Lost + h,
         \/ misses' = misses /\ b + g + h >= 0
         \/ misses' = misses /\ a = 1 /\ b + h >= 0 /\ Counted + g >= 0
         \/ misses' = misses + 1 /\ Cardinality(Past) > 0 /\ b = 1 /\ g = 0
  PROVE  MissesInv'
<1>1. PICK m \in Nat : m = MaxCodeAttempts - 1
  OBVIOUS
<1>2. PICK p \in Nat, c \in Nat : p = Cardinality(Past) /\ c = Cardinality(Comparing)
  BY Sizes
<1>3. PICK x \in Nat, e \in Nat, k \in Nat : x = misses /\ e = Counted /\ k = Lost
  BY CountedType, LostType DEF TypeOK
<1>4. PICK u \in Nat, v \in Nat : u = m * p /\ v = m * (p + a)
  BY ProductStep
<1>5. u <= v /\ (a = 1 => v = u + m) /\ (p > 0 => m <= v)
  <2>1. u <= v
    BY <1>4, ProductGrows
  <2>2. a = 1 => v = u + m
    BY <1>4, ProductStep
  <2>3. m * 1 = m /\ (p > 0 => m * 1 <= m * (p + a))
    BY ProductGrows
  <2>. QED BY <1>4, <2>1, <2>2, <2>3
<1>6. e <= m
  BY <1>1, <1>3, CountedType
<1>7. x > 0 => x + m <= u + e + c + k
  BY <1>1, <1>2, <1>3, <1>4 DEF MissesInv, Allowance
<1>8. Allowance' = v + (e + g) + (c + b) + (k + h)
  BY <1>1, <1>2, <1>3, <1>4 DEF Allowance
<1>9. CASE misses' = misses /\ b + g + h >= 0
  BY <1>1, <1>3, <1>5, <1>7, <1>8, <1>9 DEF MissesInv
<1>10. CASE misses' = misses /\ a = 1 /\ b + h >= 0 /\ Counted + g >= 0
  BY <1>1, <1>3, <1>5, <1>6, <1>7, <1>8, <1>10 DEF MissesInv
<1>11. CASE misses' = misses + 1 /\ Cardinality(Past) > 0 /\ b = 1 /\ g = 0
  BY <1>1, <1>2, <1>3, <1>5, <1>7, <1>8, <1>11 DEF MissesInv
<1>. QED BY <1>9, <1>10, <1>11

\* A request that compares no code goes on to a call that does not either.
LEMMA MovesOn ==
  ASSUME TypeOK, MailTypeOK, MissesInv,
         channel' = "closed" => faults' > 0, NEW h \in Nat, Lost' = Lost + h,
         NEW r \in Requests, NEW call, Goto(r, call), call # "clearAttempts",
         {pc[r], call} \cap {"countMiss", "burn"} = {},
         UNCHANGED <<misses, attempts>>
  PROVE  MissesInv'
<1>1. PICK a \in Nat : Cardinality(Past') = Cardinality(Past) + a
  BY MovePast
<1>2. Cardinality(Comparing') = Cardinality(Comparing) + 0
  BY CompareNeither
<1>3. Counted' = Counted + 0
  BY CountedType DEF Counted
<1>. QED BY <1>1, <1>2, <1>3, AllowanceGrows

\* A request fails with a guess it had not counted: it is one of the failures.
LEMMA FailKeeps ==
  ASSUME TypeOK, MailTypeOK, MissesInv, NEW r \in Requests, Fail(r), UNCHANGED mail
  PROVE  MissesInv'
<1>1. /\ pc' = [pc EXCEPT ![r] = "idle"] /\ failures' = failures + 1
      /\ UNCHANGED <<misses, attempts, channel, faults>>
  BY DEF Fail, mail
<1>2. PICK h \in Nat : Lost' = Lost + h /\ h >= 1
  <2>1. Crashes' = Crashes + 0
    BY <1>1, LostType DEF Crashes
  <2>. QED BY <1>1, <2>1, LostGrows
<1>3. PICK a \in Nat : Cardinality(Past') = Cardinality(Past) + a
  BY <1>1, MovePast
<1>4. PICK b \in {0, -1} : Cardinality(Comparing') = Cardinality(Comparing) + b
  <2>1. CASE pc[r] \in {"countMiss", "burn"}
    BY <1>1, <2>1, CompareEnds
  <2>2. CASE pc[r] \notin {"countMiss", "burn"}
    BY <1>1, <2>2, CompareNeither
  <2>. QED BY <2>1, <2>2
<1>5. Counted' = Counted + 0
  BY <1>1, CountedType DEF Counted
<1>6. channel' = "closed" => faults' > 0
  BY <1>1 DEF MissesInv
<1>. QED BY <1>1, <1>2, <1>3, <1>4, <1>5, <1>6, AllowanceGrows

\* A guess that does not match is being compared from now on.
LEMMA GetCodeMisses ==
  ASSUME TypeOK, MailTypeOK, MissesInv, NEW r \in Requests, UNCHANGED mail,
         pc[r] = "getCode", Goto(r, "countMiss"), misses' = misses + 1,
         UNCHANGED <<attempts, failures>>
  PROVE  MissesInv'
<1>1. Cardinality(Past') = Cardinality(Past) + 0 /\ Cardinality(Past) > 0
  <2>1. r \in Past
    BY DEF Past
  <2>2. Cardinality(Past) > 0
    BY <2>1, Sizes, FS_EmptySet
  <2>3. Cardinality(Past') = Cardinality(Past) + 0
    BY MovePast, Sizes
  <2>. QED BY <2>2, <2>3
<1>2. Cardinality(Comparing') = Cardinality(Comparing) + 1
  BY CompareBegins
<1>3. Counted' = Counted + 0 /\ Lost' = Lost + 0
  BY CountedType, LostType DEF Counted, Lost, Crashes, mail
<1>4. channel' = "closed" => faults' > 0
  BY DEF MissesInv, mail
<1>. QED BY <1>1, <1>2, <1>3, <1>4, AllowanceGrows

\* Below the cap the guess is counted; at the cap the request is about to burn.
LEMMA CountMissKeeps ==
  ASSUME TypeOK, MailTypeOK, MissesInv, NEW r \in Requests, CountMiss(r), UNCHANGED mail
  PROVE  MissesInv'
<1>1. /\ pc[r] = "countMiss" /\ attempts' = attempts + 1
      /\ UNCHANGED <<misses, failures, channel, faults>>
  BY DEF CountMiss, mail
<1>2. Lost' = Lost + 0
  BY <1>1, LostType DEF Lost, Crashes
<1>3. channel' = "closed" => faults' > 0
  BY <1>1 DEF MissesInv
<1>4. CASE attempts + 1 >= MaxCodeAttempts
  <2>1. pc' = [pc EXCEPT ![r] = "burn"]
    BY <1>1, <1>4 DEF CountMiss
  <2>2. Cardinality(Past') = Cardinality(Past) + 0
    BY <1>1, <2>1, MovePast, Sizes
  <2>3. Cardinality(Comparing') = Cardinality(Comparing) + 0
    BY <1>1, <2>1, CompareNeither
  <2>4. PICK g \in Nat : Counted' = Counted + g
    <3>1. Counted' = MaxCodeAttempts - 1
      BY <1>1, <1>4 DEF Counted, TypeOK
    <3>2. MaxCodeAttempts - 1 - Counted \in Nat
      BY CountedType
    <3>. QED BY <3>1, <3>2, CountedType
  <2>. QED BY <1>1, <1>2, <1>3, <2>2, <2>3, <2>4, AllowanceGrows
<1>5. CASE ~ attempts + 1 >= MaxCodeAttempts
  <2>1. pc' = [pc EXCEPT ![r] = "idle"]
    BY <1>1, <1>5 DEF CountMiss
  <2>2. Cardinality(Past') = Cardinality(Past) + 0
    BY <1>1, <2>1, MovePast, Sizes
  <2>3. Cardinality(Comparing') = Cardinality(Comparing) + (-1)
    BY <1>1, <2>1, CompareEnds
  <2>4. Counted' = Counted + 1
    BY <1>1, <1>5 DEF Counted, TypeOK
  <2>. QED BY <1>1, <1>2, <1>3, <2>2, <2>3, <2>4, AllowanceGrows
<1>. QED BY <1>4, <1>5

\* One that resets the counter will not do it again.
LEMMA ClearAttemptsKeeps ==
  ASSUME TypeOK, MailTypeOK, MissesInv, NEW r \in Requests, ClearAttempts(r), UNCHANGED mail
  PROVE  MissesInv'
<1>1. /\ pc[r] = "clearAttempts" /\ pc' = [pc EXCEPT ![r] = "armCooldown"]
      /\ attempts' = 0 /\ UNCHANGED <<misses, failures, channel, faults>>
  BY DEF ClearAttempts, mail
<1>2. Lost' = Lost + 0
  BY <1>1, LostType DEF Lost, Crashes
<1>3. channel' = "closed" => faults' > 0
  BY <1>1 DEF MissesInv
<1>4. Cardinality(Past') = Cardinality(Past) + 1
  BY <1>1, MovePast, Sizes
<1>5. Cardinality(Comparing') = Cardinality(Comparing) + 0
  BY <1>1, CompareNeither
<1>6. PICK g \in Int : Counted' = Counted + g /\ Counted + g >= 0
  <2>1. Counted' = 0
    BY <1>1 DEF Counted
  <2>2. - Counted \in Int /\ Counted + (- Counted) = 0
    BY CountedType
  <2>. QED BY <2>1, <2>2
<1>. QED BY <1>1, <1>2, <1>3, <1>4, <1>5, <1>6, AllowanceGrows

\* Nothing happens, or something happens to a mail.
LEMMA MailKeeps ==
  ASSUME TypeOK, MailTypeOK, MissesInv,
         \/ channel' = channel /\ faults' \in {faults, faults + 1}
         \/ Close,
         UNCHANGED <<pc, misses, attempts, failures>>
  PROVE  MissesInv'
<1>1. channel' = "closed" => faults' > 0
  BY MailCrashes
<1>2. PICK h \in Nat : Lost' = Lost + h
  <2>1. failures' = failures + 0
    BY LostType
  <2>. QED BY <2>1, MailCrashes, LostGrows
<1>3. /\ Cardinality(Past') = Cardinality(Past) + 0
      /\ Cardinality(Comparing') = Cardinality(Comparing) + 0
  <2>1. Past' = Past /\ Comparing' = Comparing
    BY DEF Past, Comparing
  <2>. QED BY <2>1, Sizes
<1>4. Counted' = Counted + 0
  BY CountedType DEF Counted
<1>. QED BY <1>1, <1>2, <1>3, <1>4, AllowanceGrows

\* A code is handed over to the mail, or that throws.
LEMMA MailCodeKeeps ==
  ASSUME TypeOK, MailTypeOK, MissesInv, NEW r \in Requests, MailCode(r) \/ MailCodeThrows(r)
  PROVE  MissesInv'
<1>1. /\ pc[r] = "mail" /\ Goto(r, "idle") /\ UNCHANGED <<attempts, misses, failures>>
      /\ channel' = channel /\ faults' \in {faults, faults + 1}
  BY DEF MailCode, Mail, MailCodeThrows, Enqueue, EnqueueThrows, Fault
<1>2. channel' = "closed" => faults' > 0
  BY <1>1, MailCrashes
<1>3. PICK h \in Nat : Lost' = Lost + h
  <2>1. failures' = failures + 0
    BY <1>1, LostType
  <2>. QED BY <1>1, <2>1, MailCrashes, LostGrows
<1>. QED BY <1>1, <1>2, <1>3, MovesOn

\* A crash loses what each request compared: as many as there are requests.
LEMMA RestartKeeps ==
  ASSUME TypeOK, MailTypeOK, MissesInv, ProcessRestarts
  PROVE  MissesInv'
<1>1. /\ Restart /\ pc' = [r \in Requests |-> "idle"]
      /\ UNCHANGED <<misses, attempts, failures>>
  BY DEF ProcessRestarts
<1>2. channel' # "closed"
  BY <1>1, RestartCrashes
<1>3. PICK h \in Nat : Lost' = Lost + h /\ h >= Cardinality(Requests)
  <2>1. failures' = failures + 0
    BY <1>1, LostType
  <2>2. Crashes' = Crashes + 1
    BY <1>1, RestartCrashes
  <2>. QED BY <2>1, <2>2, LostGrows
<1>4. PICK a \in Nat : Cardinality(Past') = Cardinality(Past) + a
  <2>1. Past' = Requests
    BY <1>1 DEF Past
  <2>2. Cardinality(Requests) - Cardinality(Past) \in Nat
    BY Sizes
  <2>. QED BY <2>1, <2>2, Sizes
<1>5. PICK b \in Int : Cardinality(Comparing') = Cardinality(Comparing) + b
                       /\ b >= - Cardinality(Requests)
  <2>1. Cardinality(Comparing') = 0
    <3>1. Comparing' = {}
      BY <1>1 DEF Comparing
    <3>. QED BY <3>1, FS_EmptySet
  <2>2. /\ - Cardinality(Comparing) \in Int
        /\ Cardinality(Comparing) + (- Cardinality(Comparing)) = 0
        /\ - Cardinality(Comparing) >= - Cardinality(Requests)
    BY Sizes
  <2>. QED BY <2>1, <2>2
<1>6. Counted' = Counted + 0
  BY <1>1, CountedType DEF Counted
<1>7. b + 0 + h >= 0
  BY <1>3, <1>5, Sizes
<1>. QED BY <1>1, <1>2, <1>3, <1>4, <1>5, <1>6, <1>7, AllowanceGrows

LEMMA StoreCallMisses ==
  ASSUME TypeOK, MailTypeOK, MissesInv, NEW r \in Requests, StoreCall(r), UNCHANGED mail
  PROVE  MissesInv'
<1>1. /\ UNCHANGED <<channel, faults, failures>>
      /\ channel' = "closed" => faults' > 0
  BY DEF mail, MissesInv, StoreCall, RegisterFind, RegisterCreate, SetCode, ClearAttempts,
         ArmCooldown, CheckCooldown, FindPending, ArmOnly, GetCode, CountMiss, Burn,
         FindUser, SetActive, DropCode
<1>2. Lost' = Lost + 0
  BY <1>1, LostType DEF Lost, Crashes
<1>3. CASE SetCode(r) \/ Burn(r) \/ DropCode(r)
  BY <1>1, <1>3, NothingMissed DEF SetCode, Burn, DropCode
<1>4. CASE CountMiss(r) \/ ClearAttempts(r)
  BY <1>4, CountMissKeeps, ClearAttemptsKeeps
<1>5. CASE \/ RegisterFind(r) \/ RegisterCreate(r) \/ ArmCooldown(r) \/ CheckCooldown(r)
           \/ FindPending(r) \/ ArmOnly(r) \/ FindUser(r) \/ SetActive(r)
  <2>1. PICK call \in {"idle", "regCreate", "setCode", "mail", "findPending", "armOnly",
                       "dropCode", "setActive"} : Goto(r, call)
    BY <1>5 DEF RegisterFind, RegisterCreate, ArmCooldown, CheckCooldown,
                FindPending, ArmOnly, FindUser, SetActive
  <2>2. /\ pc[r] \notin {"countMiss", "burn"}
        /\ UNCHANGED <<misses, attempts>>
    BY <1>5 DEF RegisterFind, RegisterCreate, ArmCooldown, CheckCooldown,
                FindPending, ArmOnly, FindUser, SetActive
  <2>. QED BY <1>1, <1>2, <2>1, <2>2, MovesOn
<1>6. CASE GetCode(r)
  <2>1. CASE misses' = misses
    <3>1. PICK call \in {"idle", "findUser"} : Goto(r, call)
      BY <1>6, <2>1 DEF GetCode, TypeOK
    <3>2. pc[r] = "getCode" /\ UNCHANGED <<misses, attempts>>
      BY <1>6, <2>1 DEF GetCode
    <3>. QED BY <1>1, <1>2, <3>1, <3>2, MovesOn
  <2>2. CASE misses' # misses
    <3>1. /\ pc[r] = "getCode" /\ Goto(r, "countMiss") /\ misses' = misses + 1
          /\ UNCHANGED <<attempts, failures>>
      BY <1>6, <2>2 DEF GetCode
    <3>. QED BY <3>1, GetCodeMisses
  <2>. QED BY <2>1, <2>2
<1>. QED BY <1>3, <1>4, <1>5, <1>6 DEF StoreCall

LEMMA EnvironmentMisses ==
  ASSUME TypeOK, MailTypeOK, MissesInv, Environment, UNCHANGED mail
  PROVE  MissesInv'
<1>1. /\ UNCHANGED <<channel, faults>>
      /\ channel' = "closed" => faults' > 0
  BY DEF mail, MissesInv
<1>2. ASSUME NEW r \in Requests,
             StartRegister(r) \/ StartResend(r) \/ StartActivate(r)
      PROVE  MissesInv'
  <2>1. PICK call \in {"regFind", "checkCooldown", "getCode"} : Goto(r, call)
    BY <1>2 DEF StartRegister, StartResend, StartActivate, Start, Arrive
  <2>2. pc[r] = "idle" /\ UNCHANGED <<misses, attempts, failures>>
    BY <1>2 DEF StartRegister, StartResend, StartActivate, Start, Arrive
  <2>3. Lost' = Lost + 0
    BY <1>1, <2>2, LostType DEF Lost, Crashes
  <2>. QED BY <1>1, <2>1, <2>2, <2>3, MovesOn
<1>3. CASE ExpireCode
  BY <1>1, <1>3, NothingMissed DEF ExpireCode
<1>4. CASE ExpireCooldown
  BY <1>1, <1>4, MailKeeps DEF ExpireCooldown
<1>. QED BY <1>2, <1>3, <1>4, FailKeeps DEF Environment

LEMMA StepKeepsMisses ==
  TypeOK /\ MailTypeOK /\ MissesInv /\ [RegistrationNext]_all => MissesInv'
<1> SUFFICES ASSUME TypeOK, MailTypeOK, MissesInv, [RegistrationNext]_all PROVE MissesInv'
  OBVIOUS
<1>1. ASSUME NEW r \in Requests, Request(r) PROVE MissesInv'
  BY <1>1, StoreCallMisses, MailCodeKeeps DEF Request
<1>2. CASE Environment /\ UNCHANGED mail
  BY <1>2, EnvironmentMisses
<1>3. CASE (\E j \in Jobs : Consume(j)) /\ UNCHANGED vars
  <2>1. /\ channel' = channel /\ faults' \in {faults, faults + 1}
        /\ UNCHANGED <<pc, misses, attempts, failures>>
    BY <1>3 DEF Consume, Send, SendFails, Ack, Fault, vars
  <2>. QED BY <2>1, MailKeeps
<1>4. CASE Close /\ UNCHANGED vars
  <2>1. UNCHANGED <<pc, misses, attempts, failures>>
    BY <1>4 DEF vars
  <2>. QED BY <1>4, <2>1, MailKeeps
<1>5. CASE UNCHANGED all
  <2>1. /\ channel' = channel /\ faults' = faults
        /\ UNCHANGED <<pc, misses, attempts, failures>>
    BY <1>5 DEF all, vars, mail
  <2>. QED BY <2>1, MailKeeps
<1>. QED BY <1>1, <1>2, <1>3, <1>4, <1>5, RestartKeeps DEF RegistrationNext

LEMMA InitMisses == RegistrationInit => MissesInv
BY DEF RegistrationInit, Init, MailInit, MissesInv

\* However activations and resends overlap, fail and crash, the wrong guesses a
\* code survives are bounded: the counter that activate() resets under the code on
\* file hides less than the cap for each request that set a code.
THEOREM MissesAreBounded == RegistrationSpec => []MissesBounded
<1>1. RInv => MailTypeOK
  BY DEF RInv, MailInv
<1>2. RegistrationSpec => [](TypeOK /\ MailTypeOK /\ MissesInv)
  BY <1>1, RegistrationInvariance, InitTypes, StepKeepsTypes, InitMisses, StepKeepsMisses,
     PTL DEF RegistrationSpec
<1>3. ASSUME TypeOK, MailTypeOK, MissesInv PROVE MissesBounded
  <2>1. PICK n \in Nat, p \in Nat, c \in Nat :
          /\ n = Cardinality(Requests) /\ p = Cardinality(Past)
          /\ c = Cardinality(Comparing) /\ p <= n /\ c <= p
    BY Sizes
  <2>2. PICK x \in Nat, e \in Nat, k \in Nat, i \in Nat, f \in Nat :
          /\ x = misses /\ e = Counted /\ k = Crashes /\ i = failures /\ f = faults
          /\ k <= f
    <3>1. misses \in Nat
      BY <1>3 DEF TypeOK
    <3>2. Crashes \in Nat /\ failures \in Nat /\ faults \in Nat /\ Counted \in Nat
      BY <1>3, CountedType, LostType
    <3>3. Crashes <= faults
      BY <3>2 DEF Crashes
    <3>. QED BY <3>1, <3>2, <3>3
  <2>3. PICK m \in Nat : m = MaxCodeAttempts - 1 /\ e <= m
    BY <1>3, <2>2, CountedType
  <2>4. m * p \in Nat /\ m * n \in Nat /\ n * k \in Nat /\ n * f \in Nat /\ MaxCodeAttempts * n \in Nat
    BY ProductStep
  <2>5. m * p <= m * n /\ n * k <= n * f
    BY <2>1, <2>2, ProductGrows
  <2>6. n * (m + 1) = n * m + n /\ n * m = m * n /\ MaxCodeAttempts * n = n * (m + 1)
    <3>1. MaxCodeAttempts = m + 1
      BY <2>3
    <3>. QED BY <3>1, ProductStep
  <2>7. x > 0 => x + m <= m * p + e + c + (i + n * k)
    BY <1>3, <2>1, <2>2, <2>3 DEF MissesInv, Allowance, Lost
  <2>8. x <= MaxCodeAttempts * n + i + n * f
    BY <2>1, <2>3, <2>4, <2>5, <2>6, <2>7
  <2>. QED BY <2>1, <2>2, <2>8 DEF MissesBounded
<1>. QED BY <1>2, <1>3, PTL

-----------------------------------------------------------------------------
(***************************************************************************)
(* While requests do not overlap: what the one under way knows is still so *)
(* when it acts on it.                                                     *)
(***************************************************************************)
Alone == \A q, r \in Requests : pc[q] # "idle" /\ pc[r] # "idle" => q = r

\* Only a pending account is given a code, and an active one loses its code.
ActiveInv ==
  /\ \A r \in Requests : pc[r] = "setCode" => account = "PENDING"
  /\ account = "ACTIVE" /\ code # NoCode => \E r \in Requests : pc[r] = "dropCode"

\* The counter counts guesses of the code on file, once it has been reset.
CountInv ==
  /\ \A r \in Requests : pc[r] = "burn" => attempts >= MaxCodeAttempts
  /\ code # NoCode =>
       /\ attempts <= misses \/ \E r \in Requests : pc[r] = "clearAttempts"
       /\ \A r \in Requests : pc[r] = "countMiss" => attempts < misses

\* The code on file is held by the request that will mail it, or was mailed.
MailedInv ==
  code # NoCode =>
    \/ \E r \in Requests : mine[r] = code
    \/ Received(code)
    \/ at[code] \in {"queued", "dropped"}

OrderlyInv == orderly => Alone /\ ActiveInv /\ CountInv /\ MailedInv

OneRequest(r) == \A q \in Requests : q # r => pc[q] = "idle"

\* The parts of the invariant for the one request there is.
LEMMA OneSuffices ==
  ASSUME TypeOK, NEW r \in Requests, OneRequest(r),
         pc' \in [Requests -> Calls], \A q \in Requests : q # r => pc'[q] = pc[q],
         pc'[r] = "setCode" => account' = "PENDING",
         account' = "ACTIVE" /\ code' # NoCode => pc'[r] = "dropCode",
         pc'[r] = "burn" => attempts' >= MaxCodeAttempts,
         code' # NoCode => attempts' <= misses' \/ pc'[r] = "clearAttempts",
         code' # NoCode /\ pc'[r] = "countMiss" => attempts' < misses',
         MailedInv'
  PROVE  OrderlyInv'
<1>1. \A q \in Requests : q # r => pc'[q] = "idle"
  BY DEF OneRequest
<1>2. Alone'
  BY <1>1 DEF Alone
<1>3. ActiveInv'
  BY <1>1 DEF ActiveInv
<1>4. CountInv'
  BY <1>1 DEF CountInv
<1>. QED BY <1>2, <1>3, <1>4 DEF OrderlyInv

\* A mail that is held stays held, and a request that ends held none.
LEMMA MailedKept ==
  ASSUME MailedInv, code' \in {code, NoCode}, UNCHANGED <<mine, mail>>
  PROVE  MailedInv'
BY DEF MailedInv, Received, mail

LEMMA MailedKeptByAnswer ==
  ASSUME CodesInv, MailedInv, NEW r \in Requests, pc[r] \notin Holding,
         code' \in {code, NoCode}, Answer(r), UNCHANGED mail
  PROVE  MailedInv'
<1>1. mine[r] = NoCode
  BY DEF CodesInv
<1>2. mine' = mine
  BY <1>1 DEF CodesInv
<1>. QED BY <1>2, MailedKept

LEMMA StoreCallOrderly ==
  ASSUME CodesInv, TypeOK, orderly, OrderlyInv, NEW r \in Requests, StoreCall(r),
         UNCHANGED mail
  PROVE  OrderlyInv'
<1>1. pc[r] # "idle"
  BY DEF StoreCall, RegisterFind, RegisterCreate, SetCode, ClearAttempts, ArmCooldown,
         CheckCooldown, FindPending, ArmOnly, GetCode, CountMiss, Burn, FindUser,
         SetActive, DropCode
<1>2. OneRequest(r)
  BY <1>1 DEF OrderlyInv, Alone, OneRequest
<1>3. pc' \in [Requests -> Calls]
  BY StoreCallKeeps DEF CodesInv
<1>4. \A q \in Requests : q # r => pc'[q] = pc[q]
  BY DEF TypeOK, StoreCall, RegisterFind, RegisterCreate, SetCode, ClearAttempts,
         ArmCooldown, CheckCooldown, FindPending, ArmOnly, GetCode, CountMiss, Burn,
         FindUser, SetActive, DropCode
<1>5. /\ pc[r] = "setCode" => account = "PENDING"
      /\ account = "ACTIVE" /\ code # NoCode => pc[r] = "dropCode"
      /\ pc[r] = "burn" => attempts >= MaxCodeAttempts
      /\ code # NoCode => attempts <= misses \/ pc[r] = "clearAttempts"
      /\ code # NoCode /\ pc[r] = "countMiss" => attempts < misses
      /\ MailedInv
  BY <1>2 DEF OrderlyInv, ActiveInv, CountInv, OneRequest
<1>6. CASE RegisterFind(r) \/ RegisterCreate(r)
  <2>1. MailedInv'
    BY <1>5, <1>6, MailedKept, MailedKeptByAnswer DEF RegisterFind, RegisterCreate, Holding
  <2>. QED BY <1>2, <1>3, <1>4, <1>5, <1>6, <2>1, OneSuffices
           DEF RegisterFind, RegisterCreate, TypeOK
<1>7. CASE SetCode(r)
  <2>1. PICK c \in Codes : code' = c /\ mine' = [mine EXCEPT ![r] = c]
    BY <1>7, CodeLeft DEF SetCode
  <2>2. MailedInv'
    BY <2>1 DEF MailedInv, TypeOK
  <2>. QED BY <1>2, <1>3, <1>4, <1>5, <1>7, <2>2, OneSuffices DEF SetCode, TypeOK
<1>8. CASE ClearAttempts(r)
  <2>1. MailedInv'
    BY <1>5, <1>8, MailedKept DEF ClearAttempts
  <2>. QED BY <1>2, <1>3, <1>4, <1>5, <1>8, <2>1, OneSuffices DEF ClearAttempts, TypeOK
<1>9. CASE \/ ArmCooldown(r) \/ CheckCooldown(r) \/ FindPending(r) \/ ArmOnly(r)
  <2>1. MailedInv'
    BY <1>5, <1>9, MailedKept, MailedKeptByAnswer
       DEF ArmCooldown, CheckCooldown, FindPending, ArmOnly, Holding
  <2>. QED BY <1>2, <1>3, <1>4, <1>5, <1>9, <2>1, OneSuffices
           DEF ArmCooldown, CheckCooldown, FindPending, ArmOnly, TypeOK
<1>10. CASE GetCode(r)
  <2>1. MailedInv'
    BY <1>5, <1>10, MailedKept, MailedKeptByAnswer DEF GetCode, Holding
  <2>. QED BY <1>2, <1>3, <1>4, <1>5, <1>10, <2>1, OneSuffices DEF GetCode, TypeOK
<1>11. CASE CountMiss(r)
  <2>1. MailedInv'
    BY <1>5, <1>11, MailedKept, MailedKeptByAnswer DEF CountMiss, Holding
  <2>. QED BY <1>2, <1>3, <1>4, <1>5, <1>11, <2>1, OneSuffices DEF CountMiss, TypeOK
<1>12. CASE Burn(r) \/ DropCode(r)
  <2>1. MailedInv'
    BY <1>12 DEF Burn, DropCode, MailedInv
  <2>. QED BY <1>2, <1>3, <1>4, <1>5, <1>12, <2>1, OneSuffices DEF Burn, DropCode, TypeOK
<1>13. CASE FindUser(r) \/ SetActive(r)
  <2>1. MailedInv'
    BY <1>5, <1>13, MailedKept DEF FindUser, SetActive
  <2>. QED BY <1>2, <1>3, <1>4, <1>5, <1>13, <2>1, OneSuffices DEF FindUser, SetActive, TypeOK
<1>. QED BY <1>6, <1>7, <1>8, <1>9, <1>10, <1>11, <1>12, <1>13 DEF StoreCall

\* A request that comes alone.
LEMMA ArrivalOrderly ==
  ASSUME TypeOK, orderly, OrderlyInv, NEW r \in Requests, orderly',
         StartRegister(r) \/ StartResend(r) \/ StartActivate(r), UNCHANGED mail
  PROVE  OrderlyInv'
<1>1. PICK call \in {"regFind", "checkCooldown", "getCode"} : Arrive(r, call)
  BY DEF StartRegister, StartResend, StartActivate, Start
<1>2. \A q \in Requests : pc[q] = "idle"
  BY <1>1 DEF Arrive
<1>3. /\ pc' = [pc EXCEPT ![r] = call]
      /\ UNCHANGED <<account, code, attempts, mine, misses>>
  BY <1>1 DEF Arrive
<1>4. /\ account = "ACTIVE" => code = NoCode
      /\ code # NoCode => attempts <= misses
      /\ MailedInv
  BY <1>2 DEF OrderlyInv, ActiveInv, CountInv
<1>5. MailedInv'
  BY <1>3, <1>4, MailedKept
<1>6. OneRequest(r)
  BY <1>2 DEF OneRequest
<1>7. /\ pc' \in [Requests -> Calls]
      /\ \A q \in Requests : q # r => pc'[q] = pc[q]
      /\ pc'[r] \in {"regFind", "checkCooldown", "getCode"}
  BY <1>3 DEF TypeOK, Calls
<1>. QED BY <1>3, <1>4, <1>5, <1>6, <1>7, OneSuffices DEF TypeOK

\* The code held is queued, or sent at once.
LEMMA MailCodeOrderly ==
  ASSUME CodesInv, TypeOK, MailTypeOK, orderly, OrderlyInv, NEW r \in Requests, MailCode(r)
  PROVE  OrderlyInv'
<1>1. /\ pc[r] = "mail" /\ Answer(r) /\ Enqueue(mine[r])
      /\ UNCHANGED <<account, code, attempts, misses>>
  BY DEF MailCode, Mail
<1>2. OneRequest(r)
  BY <1>1 DEF OrderlyInv, Alone, OneRequest
<1>3. /\ account = "ACTIVE" => code = NoCode
      /\ code # NoCode => attempts <= misses
      /\ MailedInv
  BY <1>1, <1>2 DEF OrderlyInv, ActiveInv, CountInv, OneRequest
<1>4. \A q \in Requests : q # r => mine[q] = NoCode
  BY <1>2 DEF CodesInv, OneRequest, Holding
<1>5. code \in Codes \cup {NoCode} /\ mine[r] \in Codes
  BY <1>1 DEF CodesInv, TypeOK, Holding
<1>6. MailedInv'
  <2>1. code # NoCode => mine[r] = code \/ Received(code) \/ at[code] \in {"queued", "dropped"}
    BY <1>3, <1>4 DEF MailedInv
  <2>2. ASSUME code # NoCode, mine[r] = code
        PROVE  Received(code)' \/ at'[code] = "queued"
    BY <1>1, <1>5, <2>2, RegistrationAssumption DEF Enqueue, Move, SendMail, Received, MailTypeOK
  <2>3. ASSUME code # NoCode, mine[r] # code,
               Received(code) \/ at[code] \in {"queued", "dropped"}
        PROVE  Received(code)' \/ at'[code] \in {"queued", "dropped"}
    <3>1. code \in Jobs /\ mine[r] \in Jobs
      BY <1>5, <2>3, RegistrationAssumption
    <3>2. copies'[code] = copies[code] /\ at'[code] = at[code]
      BY <1>1, <2>3, <3>1 DEF Enqueue, Move, SendMail, MailTypeOK
    <3>. QED BY <1>1, <2>3, <3>1, <3>2 DEF Received
  <2>. QED BY <1>1, <2>1, <2>2, <2>3 DEF MailedInv
<1>7. /\ pc' \in [Requests -> Calls] /\ pc'[r] = "idle"
      /\ \A q \in Requests : q # r => pc'[q] = pc[q]
  BY <1>1 DEF TypeOK, Calls
<1>. QED BY <1>1, <1>2, <1>3, <1>6, <1>7, OneSuffices DEF TypeOK

\* A mail queued is sent, dropped or queued again.
LEMMA ConsumedOrderly ==
  ASSUME TypeOK, MailTypeOK, orderly, OrderlyInv, UNCHANGED vars,
         (\E j \in Jobs : Consume(j)) \/ Close \/ UNCHANGED mail
  PROVE  OrderlyInv'
<1>1. UNCHANGED <<account, code, attempts, pc, mine, misses, orderly>>
  BY DEF vars
<1>2. Alone' /\ ActiveInv' /\ CountInv'
  BY <1>1 DEF OrderlyInv, Alone, ActiveInv, CountInv
<1>3. MailedInv'
  <2>1. CASE UNCHANGED mail
    BY <1>1, <2>1, MailedKept DEF OrderlyInv
  <2>2. ASSUME code # NoCode, Received(code) \/ at[code] \in {"queued", "dropped"},
               (\E j \in Jobs : Consume(j)) \/ Close
        PROVE  Received(code)' \/ at'[code] \in {"queued", "dropped"}
    <3>1. code \in Jobs
      BY <2>2, RegistrationAssumption DEF TypeOK
    <3>2. CASE Close
      BY <1>1, <2>2, <3>1, <3>2 DEF Close, Requeue, Received, MailTypeOK
    <3>3. ASSUME NEW j \in Jobs, Consume(j)
          PROVE  Received(code)' \/ at'[code] \in {"queued", "dropped"}
      <4>1. CASE Send(j)
        BY <1>1, <2>2, <3>1, <4>1 DEF Send, SendMail, Move, Received, MailTypeOK
      <4>2. CASE SendFails(j)
        BY <1>1, <2>2, <3>1, <4>2 DEF SendFails, Move, Received, MailTypeOK
      <4>3. CASE Ack(j)
        BY <1>1, <2>2, <3>1, <4>3 DEF Ack, Move, Received, MailTypeOK
      <4>. QED BY <3>3, <4>1, <4>2, <4>3 DEF Consume
    <3>. QED BY <2>2, <3>2, <3>3
  <2>. QED BY <1>1, <2>1, <2>2 DEF OrderlyInv, MailedInv
<1>. QED BY <1>2, <1>3 DEF OrderlyInv

LEMMA ExpiryOrderly ==
  ASSUME TypeOK, orderly, OrderlyInv, ExpireCode \/ ExpireCooldown, UNCHANGED mail
  PROVE  OrderlyInv'
<1>1. /\ UNCHANGED <<account, attempts, pc, mine>>
      /\ code' = NoCode \/ (code' = code /\ misses' = misses)
  BY DEF ExpireCode, ExpireCooldown
<1>2. Alone' /\ ActiveInv' /\ CountInv'
  BY <1>1 DEF OrderlyInv, Alone, ActiveInv, CountInv
<1>3. MailedInv'
  BY <1>1, MailedKept DEF OrderlyInv
<1>. QED BY <1>2, <1>3 DEF OrderlyInv

LEMMA StepKeepsOrderly ==
  RInv /\ TypeOK /\ OrderlyInv /\ [RegistrationNext]_all => OrderlyInv'
<1> SUFFICES ASSUME RInv, TypeOK, OrderlyInv, [RegistrationNext]_all, orderly'
             PROVE  OrderlyInv'
  BY DEF OrderlyInv
<1>. CodesInv /\ MailTypeOK
  BY DEF RInv, MailInv
<1>1. ASSUME NEW r \in Requests, Request(r) PROVE OrderlyInv'
  <2>1. CASE StoreCall(r) /\ UNCHANGED mail
    <3>1. orderly
      BY <2>1 DEF StoreCall, RegisterFind, RegisterCreate, SetCode, ClearAttempts,
           ArmCooldown, CheckCooldown, FindPending, ArmOnly, GetCode, CountMiss, Burn,
           FindUser, SetActive, DropCode
    <3>. QED BY <2>1, <3>1, StoreCallOrderly
  <2>2. CASE MailCode(r)
    <3>1. orderly
      BY <2>2 DEF MailCode, Mail
    <3>. QED BY <2>2, <3>1, MailCodeOrderly
  <2>3. CASE MailCodeThrows(r)
    BY <2>3 DEF MailCodeThrows
  <2>. QED BY <1>1, <2>1, <2>2, <2>3 DEF Request
<1>2. CASE Environment /\ UNCHANGED mail
  <2>1. ASSUME NEW r \in Requests, StartRegister(r) \/ StartResend(r) \/ StartActivate(r)
        PROVE  OrderlyInv'
    <3>1. orderly
      BY <2>1 DEF StartRegister, StartResend, StartActivate, Start, Arrive
    <3>. QED BY <1>2, <2>1, <3>1, ArrivalOrderly
  <2>2. ASSUME NEW r \in Requests, Fail(r) PROVE OrderlyInv'
    BY <2>2 DEF Fail
  <2>3. CASE ExpireCode \/ ExpireCooldown
    <3>1. orderly
      BY <2>3 DEF ExpireCode, ExpireCooldown
    <3>. QED BY <1>2, <2>3, <3>1, ExpiryOrderly
  <2>. QED BY <1>2, <2>1, <2>2, <2>3 DEF Environment
<1>3. CASE UNCHANGED vars /\ ((\E j \in Jobs : Consume(j)) \/ Close \/ UNCHANGED mail)
  <2>1. orderly
    BY <1>3 DEF vars
  <2>. QED BY <1>3, <2>1, ConsumedOrderly
<1>4. CASE ProcessRestarts
  BY <1>4 DEF ProcessRestarts
<1>5. UNCHANGED all => UNCHANGED vars /\ UNCHANGED mail
  BY DEF all
<1>. QED BY <1>1, <1>2, <1>3, <1>4, <1>5 DEF RegistrationNext

LEMMA InitOrderly == RegistrationInit => OrderlyInv
BY DEF RegistrationInit, Init, OrderlyInv, Alone, ActiveInv, CountInv, MailedInv

LEMMA OrderlyInvariance == RegistrationSpec => [](RInv /\ TypeOK /\ OrderlyInv)
BY RegistrationInvariance, InitTypes, StepKeepsTypes, InitOrderly, StepKeepsOrderly,
   PTL DEF RegistrationSpec

\* Between requests an active account has no code on file: activate() deletes it
\* last, and provisionCode is only reached for a pending account.
THEOREM ActiveAccountsHaveNoCode == RegistrationSpec => []ActiveHasNoCode
<1>1. OrderlyInv => ActiveHasNoCode
  BY DEF OrderlyInv, ActiveInv, ActiveHasNoCode, Quiet
<1>. QED BY <1>1, OrderlyInvariance, PTL

\* Between requests, none of which failed, the code on file is with the user, on
\* its way, or its mail was dropped (provisionCode and MailProducer.enqueue).
THEOREM CodesOnFileAreOnTheirWay == RegistrationSpec => []CodeOnFileIsOnItsWay
<1>1. RInv /\ OrderlyInv => CodeOnFileIsOnItsWay
  BY DEF RInv, CodesInv, Holding, OrderlyInv, MailedInv, CodeOnFileIsOnItsWay, Quiet
<1>. QED BY <1>1, OrderlyInvariance, PTL

\* While requests do not overlap, activate() burns a code only after as many wrong
\* guesses of it as the cap.
THEOREM OnlyExhaustedCodesAreBurnt == RegistrationSpec => BurnsOnlyExhaustedCodes
<1>1. TypeOK /\ OrderlyInv =>
        \A r \in Requests :
          (orderly /\ pc[r] = "burn" /\ code # NoCode /\ code' = NoCode)
            => misses >= MaxCodeAttempts
  <2> SUFFICES ASSUME TypeOK, OrderlyInv, NEW r \in Requests,
                      orderly, pc[r] = "burn", code # NoCode
               PROVE  misses >= MaxCodeAttempts
    OBVIOUS
  <2>1. \A q \in Requests : pc[q] # "clearAttempts"
    BY DEF OrderlyInv, Alone
  <2>2. attempts >= MaxCodeAttempts /\ attempts <= misses
    BY <2>1 DEF OrderlyInv, CountInv
  <2>. QED BY <2>2 DEF TypeOK
<1>. QED BY <1>1, OrderlyInvariance, PTL DEF BurnsOnlyExhaustedCodes
=============================================================================
