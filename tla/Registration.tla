---------------------------- MODULE Registration ----------------------------
(***************************************************************************)
(* Registration with its mails: the requests of Activation.tla put the     *)
(* code they generated on the way of MailQueue.tla, in one process that    *)
(* may die and takes with it the requests in flight and the sendings.      *)
(*                                                                         *)
(* Only mails with a code are followed.  The welcome mail a registration   *)
(* queues before takes the same way; that it can throw, and then the code  *)
(* is not mailed, is a failure of the request (Fail).                      *)
(***************************************************************************)
EXTENDS Activation, MailQueue

\* The mails followed are at least those of the codes.
ASSUME RegistrationAssumption == Codes \subseteq Jobs

all == <<vars, mail>>

RegistrationInit == Init /\ MailInit

\* Bound: at most MaxFailures requests and mails fail, together.
FaultsBounded == failures' + faults' <= MaxFailures

\* The user is told of no account but a mail: enqueueActivationCodeEmail.
MailCode(r) == Mail(r) /\ Enqueue(mine[r])

\* The request fails with the code on file and its mail not queued, or queued.
MailCodeThrows(r) ==
  /\ pc[r] = "mail"
  /\ EnqueueThrows(mine[r])
  /\ Answer(r)
  /\ orderly' = FALSE
  /\ UNCHANGED <<store, issued, misses, failures>>

Request(r) ==
  \/ StoreCall(r) /\ UNCHANGED mail
  \/ MailCode(r)
  \/ MailCodeThrows(r)

\* Every request in flight ends where it is.
ProcessRestarts ==
  /\ Restart
  /\ pc' = [r \in Requests |-> "idle"]
  /\ guess' = [r \in Requests |-> NoCode]
  /\ mine' = [r \in Requests |-> NoCode]
  /\ orderly' = FALSE
  /\ UNCHANGED <<store, issued, misses, failures>>

Environment ==
  \/ \E r \in Requests :
       StartRegister(r) \/ StartResend(r) \/ StartActivate(r) \/ Fail(r)
  \/ ExpireCode
  \/ ExpireCooldown

RegistrationNext ==
  /\ \/ \E r \in Requests : Request(r)
     \/ Environment /\ UNCHANGED mail
     \/ (\E j \in Jobs : Consume(j)) /\ UNCHANGED vars
     \/ Close /\ UNCHANGED vars
     \/ ProcessRestarts
  /\ FaultsBounded

RegistrationSpec == RegistrationInit /\ [][RegistrationNext]_all

\* As in Activation.tla, and: the broker delivers what is queued, the consumer
\* goes on, a sending ends.
RegistrationFairSpec ==
  /\ RegistrationSpec
  /\ \A r \in Requests :
       /\ WF_all(Request(r) /\ FaultsBounded)
       /\ SF_all(StartResend(r) /\ UNCHANGED mail)
  /\ \A j \in Jobs : WF_all((Send(j) \/ Ack(j)) /\ UNCHANGED vars)
  /\ WF_all(ExpireCooldown /\ UNCHANGED mail)

-----------------------------------------------------------------------------
RegistrationTypeOK == TypeOK /\ MailTypeOK

\* However activations and resends overlap, a code survives fewer wrong guesses
\* than the cap for each request that can still reset the counter under it, plus
\* those being compared when the cap is reached and those whose request ended
\* before it counted them.
MissesBounded ==
  misses <= MaxCodeAttempts * Cardinality(Requests)
              + failures + Cardinality(Requests) * faults

Received(c) == c \in Jobs /\ copies[c] > 0

\* Between requests, none of which failed, the code on file is in the user's
\* hands or on its way there, unless the sending of just that mail failed.
CodeOnFileIsOnItsWay ==
  (Quiet /\ code # NoCode) =>
    Received(code) \/ at[code] \in {"queued", "dropped"}

\* A code nobody is going to be mailed: its request ended before it queued the
\* mail, the sending failed, or the process that runs has no broker to take it from.
NeverMailed(c) ==
  /\ c \in issued
  /\ \A r \in Requests : mine[r] # c
  /\ ~ Received(c)
  /\ (at[c] = "queued" => channel = "none") /\ at[c] # "sent"

\* A registration that fails half-way, and a mail that is lost, are made up by
\* resending: whoever has a pending account is mailed a code in the end, or has
\* used one - as long as the producer has not lost its broker, and not each of
\* the codes there are has been lost.
PendingGetsTheMail ==
  account = "PENDING" ~>
    \/ \E j \in Jobs : Received(j)
    \/ account = "ACTIVE"
    \/ channel = "closed"
    \/ \A c \in Codes : NeverMailed(c)
=============================================================================
