----------------------------- MODULE Activation -----------------------------
(***************************************************************************)
(* Registration, the activation code and its resending: AuthService        *)
(* register, activate, resendCode and provisionCode                        *)
(* (apps/api/src/auth/auth.service.ts), over the User row and the three    *)
(* Redis keys of one e-mail address.  Keys and rows of different addresses *)
(* never meet, so one address is modelled.  One action is one awaited call *)
(* to PostgreSQL, Redis or the mail producer.                              *)
(***************************************************************************)
EXTENDS Integers, FiniteSets

CONSTANTS
  Requests,        \* slots for the requests about this address
  Codes,           \* bound: the codes that can be generated, each once
  NoCode,          \* no activation code on file
  MaxCodeAttempts, \* MAX_CODE_ATTEMPTS
  MaxFailures      \* bound: requests that fail between two calls

ASSUME ActivationAssumption ==
  /\ IsFiniteSet(Requests)
  /\ IsFiniteSet(Codes)
  /\ NoCode \notin Codes
  /\ MaxCodeAttempts \in Nat \ {0}
  /\ MaxFailures \in Nat

VARIABLES
  account,   \* the status of the User row, "none" without one
  code,      \* activation:code
  attempts,  \* activation:attempts, 0 where there is no key
  cooldown,  \* whether activation:cooldown exists
  pc,        \* the call each request awaits
  guess,     \* the code an activation presents
  mine,      \* the code a request read, or generated
  issued,    \* history: the codes generated so far
  misses,    \* history: wrong codes compared with the one on file
  failures,  \* history: requests that failed
  orderly    \* history: no two requests overlapped, and none failed

store == <<account, code, attempts, cooldown>>

history == <<issued, misses, failures, orderly>>

vars == <<account, code, attempts, cooldown, pc, guess, mine,
          issued, misses, failures, orderly>>

Provisioning == {"setCode", "clearAttempts", "armCooldown", "mail"}

Calls ==
  {"idle", "regFind", "regCreate", "checkCooldown", "findPending", "armOnly",
   "getCode", "countMiss", "burn", "findUser", "setActive", "dropCode"}
  \cup Provisioning

Init ==
  /\ account = "none"
  /\ code = NoCode
  /\ attempts = 0
  /\ cooldown = FALSE
  /\ pc = [r \in Requests |-> "idle"]
  /\ guess = [r \in Requests |-> NoCode]
  /\ mine = [r \in Requests |-> NoCode]
  /\ issued = {}
  /\ misses = 0
  /\ failures = 0
  /\ orderly = TRUE

-----------------------------------------------------------------------------
Goto(r, call) == pc' = [pc EXCEPT ![r] = call]

Answer(r) ==
  /\ Goto(r, "idle")
  /\ guess' = [guess EXCEPT ![r] = NoCode]
  /\ mine' = [mine EXCEPT ![r] = NoCode]

\* The requests that may still generate a code.
WillIssue ==
  {r \in Requests : pc[r] \in {"regFind", "regCreate", "checkCooldown",
                               "findPending", "setCode"}}

\* A request arrives: one that is not alone overlaps.
Arrive(r, call) ==
  /\ pc[r] = "idle"
  /\ orderly' = (orderly /\ \A q \in Requests : pc[q] = "idle")
  /\ Goto(r, call)
  /\ UNCHANGED <<store, mine, issued, misses, failures>>

Start(r, call) ==
  /\ Cardinality(issued) + Cardinality(WillIssue) < Cardinality(Codes)
  /\ Arrive(r, call)
  /\ UNCHANGED guess

StartRegister(r) == Start(r, "regFind")

StartResend(r) == Start(r, "checkCooldown")

StartActivate(r) ==
  /\ Arrive(r, "getCode")
  /\ \E c \in Codes : guess' = [guess EXCEPT ![r] = c]

-----------------------------------------------------------------------------
(***************************************************************************)
(* register                                                                *)
(***************************************************************************)
\* 409 when the address has an account.
RegisterFind(r) ==
  /\ pc[r] = "regFind"
  /\ IF account = "none"
     THEN Goto(r, "regCreate") /\ UNCHANGED <<guess, mine>>
     ELSE Answer(r)
  /\ UNCHANGED <<store, history>>

\* The unique e-mail column refuses the second of two rows.
RegisterCreate(r) ==
  /\ pc[r] = "regCreate"
  /\ IF account = "none"
     THEN account' = "PENDING" /\ Goto(r, "setCode") /\ UNCHANGED <<guess, mine>>
     ELSE Answer(r) /\ UNCHANGED account
  /\ UNCHANGED <<code, attempts, cooldown, history>>

-----------------------------------------------------------------------------
(***************************************************************************)
(* provisionCode, and the mail its callers queue                           *)
(***************************************************************************)
\* Defect: the caller mails a code generated a second time.
SetCodeTwice(r) ==
  /\ pc[r] = "setCode"
  /\ \E c, d \in Codes \ issued :
       /\ code' = c
       /\ mine' = [mine EXCEPT ![r] = d]
       /\ issued' = issued \cup {c, d}
  /\ misses' = 0
  /\ Goto(r, "clearAttempts")
  /\ UNCHANGED <<account, attempts, cooldown, guess,
                 failures, orderly>>

\* Which code it is does not matter, so any one of those left will do.
SetCode(r) ==
  /\ pc[r] = "setCode"
  /\ LET c == CHOOSE c \in Codes \ issued : TRUE IN
       /\ code' = c
       /\ mine' = [mine EXCEPT ![r] = c]
       /\ issued' = issued \cup {c}
  /\ misses' = 0
  /\ Goto(r, "clearAttempts")
  /\ UNCHANGED <<account, attempts, cooldown, guess,
                 failures, orderly>>

ClearAttempts(r) ==
  /\ pc[r] = "clearAttempts"
  /\ attempts' = 0
  /\ Goto(r, "armCooldown")
  /\ UNCHANGED <<account, code, cooldown, guess, mine, history>>

ArmCooldown(r) ==
  /\ pc[r] = "armCooldown"
  /\ cooldown' = TRUE
  /\ Goto(r, "mail")
  /\ UNCHANGED <<account, code, attempts, guess, mine,
                 issued, misses, failures, orderly>>

Mail(r) ==
  /\ pc[r] = "mail"
  /\ Answer(r)
  /\ UNCHANGED <<store, issued, misses, failures, orderly>>

-----------------------------------------------------------------------------
(***************************************************************************)
(* resendCode                                                              *)
(***************************************************************************)
\* 429 while the cooldown lasts.
CheckCooldown(r) ==
  /\ pc[r] = "checkCooldown"
  /\ IF cooldown
     THEN Answer(r)
     ELSE Goto(r, "findPending") /\ UNCHANGED <<guess, mine>>
  /\ UNCHANGED <<store, history>>

\* Defect: any account is sent a code.
FindPendingAnyAccount(r) ==
  /\ pc[r] = "findPending"
  /\ Goto(r, IF account # "none" THEN "setCode" ELSE "armOnly")
  /\ UNCHANGED <<store, guess, mine, history>>

\* Defect: while a code is on file nothing is sent, be its mail lost or not.
FindPendingWithoutCode(r) ==
  /\ pc[r] = "findPending"
  /\ Goto(r, IF account = "PENDING" /\ code = NoCode
             THEN "setCode" ELSE "armOnly")
  /\ UNCHANGED <<store, guess, mine, history>>

FindPending(r) ==
  /\ pc[r] = "findPending"
  /\ Goto(r, IF account = "PENDING" THEN "setCode" ELSE "armOnly")
  /\ UNCHANGED <<store, guess, mine, history>>

\* Not a pending account: a cooldown all the same.
ArmOnly(r) ==
  /\ pc[r] = "armOnly"
  /\ cooldown' = TRUE
  /\ Answer(r)
  /\ UNCHANGED <<account, code, attempts, history>>

-----------------------------------------------------------------------------
(***************************************************************************)
(* activate                                                                *)
(***************************************************************************)
\* The code is read once and compared; what follows acts on that reading.
GetCode(r) ==
  /\ pc[r] = "getCode"
  /\ IF code = NoCode
     THEN Answer(r) /\ UNCHANGED misses
     ELSE IF code = guess[r]
     THEN Goto(r, "findUser") /\ UNCHANGED <<guess, mine, misses>>
     ELSE /\ Goto(r, "countMiss")
          /\ misses' = misses + 1
          /\ UNCHANGED <<guess, mine>>
  /\ UNCHANGED <<store, issued, failures, orderly>>

\* Defect: one wrong code too many is let through.
CountMissLate(r) ==
  /\ pc[r] = "countMiss"
  /\ attempts' = attempts + 1
  /\ IF attempts' > MaxCodeAttempts
     THEN Goto(r, "burn") /\ UNCHANGED <<guess, mine>>
     ELSE Answer(r)
  /\ UNCHANGED <<account, code, cooldown, history>>

\* Defect: the code is burnt one wrong code early.
CountMissEarly(r) ==
  /\ pc[r] = "countMiss"
  /\ attempts' = attempts + 1
  /\ IF attempts' >= MaxCodeAttempts - 1
     THEN Goto(r, "burn") /\ UNCHANGED <<guess, mine>>
     ELSE Answer(r)
  /\ UNCHANGED <<account, code, cooldown, history>>

CountMiss(r) ==
  /\ pc[r] = "countMiss"
  /\ attempts' = attempts + 1
  /\ IF attempts' >= MaxCodeAttempts
     THEN Goto(r, "burn") /\ UNCHANGED <<guess, mine>>
     ELSE Answer(r)
  /\ UNCHANGED <<account, code, cooldown, history>>

\* Too many wrong codes: the code on file and the counter are deleted together.
Burn(r) ==
  /\ pc[r] = "burn"
  /\ code' = NoCode
  /\ attempts' = 0
  /\ misses' = 0
  /\ Answer(r)
  /\ UNCHANGED <<account, cooldown, issued, failures, orderly>>

\* The account exists: a code is only ever provisioned for one, and only test
\* accounts, which have none, are deleted.
FindUser(r) ==
  /\ pc[r] = "findUser"
  /\ Goto(r, IF account = "ACTIVE" THEN "dropCode" ELSE "setActive")
  /\ UNCHANGED <<store, guess, mine, history>>

SetActive(r) ==
  /\ pc[r] = "setActive"
  /\ account' = "ACTIVE"
  /\ Goto(r, "dropCode")
  /\ UNCHANGED <<code, attempts, cooldown, guess, mine, history>>

\* One DEL of the code, the counter and the cooldown; the session follows.
DropCode(r) ==
  /\ pc[r] = "dropCode"
  /\ code' = NoCode
  /\ attempts' = 0
  /\ cooldown' = FALSE
  /\ misses' = 0
  /\ Answer(r)
  /\ UNCHANGED <<account, issued, failures, orderly>>

-----------------------------------------------------------------------------
(***************************************************************************)
(* Redis expiry, and requests that end early                               *)
(***************************************************************************)
\* CODE_TTL_SECONDS after it was set; the counter has no expiry of its own.
ExpireCode ==
  /\ code # NoCode
  /\ code' = NoCode
  /\ misses' = 0
  /\ UNCHANGED <<account, attempts, cooldown, pc, guess, mine,
                 issued, failures, orderly>>

\* COOLDOWN_TTL_SECONDS after it was armed.
ExpireCooldown ==
  /\ cooldown
  /\ cooldown' = FALSE
  /\ UNCHANGED <<account, code, attempts, pc, guess, mine,
                 issued, misses, failures, orderly>>

\* A call to the database, Redis or the mail server throws, or the process dies.
Fail(r) ==
  /\ pc[r] # "idle"
  /\ failures < MaxFailures
  /\ failures' = failures + 1
  /\ Answer(r)
  /\ UNCHANGED <<store, issued, misses>>
  /\ orderly' = FALSE

StoreCall(r) ==
  \/ RegisterFind(r)
  \/ RegisterCreate(r)
  \/ SetCode(r)
  \/ ClearAttempts(r)
  \/ ArmCooldown(r)
  \/ CheckCooldown(r)
  \/ FindPending(r)
  \/ ArmOnly(r)
  \/ GetCode(r)
  \/ CountMiss(r)
  \/ Burn(r)
  \/ FindUser(r)
  \/ SetActive(r)
  \/ DropCode(r)

-----------------------------------------------------------------------------
TypeOK ==
  /\ account \in {"none", "PENDING", "ACTIVE"}
  /\ code \in Codes \cup {NoCode}
  /\ attempts \in Nat
  /\ cooldown \in BOOLEAN
  /\ pc \in [Requests -> Calls]
  /\ guess \in [Requests -> Codes \cup {NoCode}]
  /\ mine \in [Requests -> Codes \cup {NoCode}]
  /\ issued \subseteq Codes
  /\ misses \in Nat
  /\ failures \in 0..MaxFailures
  /\ orderly \in BOOLEAN

\* Between requests, when each has been answered before the next came.
Quiet == orderly /\ \A r \in Requests : pc[r] = "idle"

\* Between requests an active account has no code left to activate with.
ActiveHasNoCode == (Quiet /\ account = "ACTIVE") => code = NoCode

\* MAX_CODE_ATTEMPTS: "Max verification attempts before a code is invalidated" -
\* as long as requests do not overlap, a code is burnt by that many wrong guesses
\* of itself, not of an earlier one.
BurnsOnlyExhaustedCodes ==
  [][\A r \in Requests :
       (orderly /\ pc[r] = "burn" /\ code # NoCode /\ code' = NoCode)
         => misses >= MaxCodeAttempts]_vars

=============================================================================
