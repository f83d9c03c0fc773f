----------------------------- MODULE MailQueue -----------------------------
(***************************************************************************)
(* The way of a mail: MailProducer's channel to the broker, the durable    *)
(* queue, its consumer in the same process, and the sending                *)
(* (apps/api/src/mail/mail.producer.ts, mail.service.ts).  The broker      *)
(* redelivers what was not acknowledged when its channel closes or the     *)
(* process dies; the producer looks for a broker when it starts and never  *)
(* again, and it is not told when its channel closes.                      *)
(***************************************************************************)
EXTENDS Integers, FiniteSets

CONSTANTS
  Jobs,       \* the mails there are, each enqueued at most once
  MaxFaults   \* bound: crashes, closed channels, full buffers, failed sendings

ASSUME MailAssumption == MaxFaults \in Nat

VARIABLES
  channel,   \* MailProducer.channel: "none" is null, "closed" no longer works
  at,        \* where the message of each mail is
  copies,    \* how often the SMTP server took each mail
  faults     \* history: the faults so far

mail == <<channel, at, copies, faults>>

Places == {"none", "queued", "sent", "done", "dropped"}

\* connect: a broker may be there or not.
MailInit ==
  /\ channel \in {"none", "open"}
  /\ at = [j \in Jobs |-> "none"]
  /\ copies = [j \in Jobs |-> 0]
  /\ faults = 0

Move(j, place) == at' = [at EXCEPT ![j] = place]

\* transport.sendMail resolves.
SendMail(j) == copies' = [copies EXCEPT ![j] = @ + 1]

Fault == faults < MaxFaults /\ faults' = faults + 1

-----------------------------------------------------------------------------
\* Defect: the early return after a successful publish forgotten.
EnqueueAlwaysInline(j) ==
  /\ channel # "closed"
  /\ IF channel = "open" THEN Move(j, "queued") ELSE UNCHANGED at
  /\ SendMail(j)
  /\ UNCHANGED <<channel, faults>>

\* enqueue returns: published; published to a full buffer and sent as well; or
\* sent because there is no channel.
Enqueue(j) ==
  /\ UNCHANGED channel
  /\ \/ /\ channel = "open"
        /\ Move(j, "queued")
        /\ UNCHANGED <<copies, faults>>
     \/ /\ channel = "open"
        /\ Move(j, "queued")
        /\ SendMail(j)
        /\ Fault
     \/ /\ channel = "none"
        /\ SendMail(j)
        /\ UNCHANGED <<at, faults>>

\* enqueue throws: sendToQueue does on a closed channel, and nothing catches a
\* failed inline sending.
EnqueueThrows(j) ==
  /\ UNCHANGED <<channel, copies>>
  /\ \/ channel = "closed" /\ UNCHANGED <<at, faults>>
     \/ channel = "none" /\ UNCHANGED at /\ Fault
     \/ channel = "open" /\ Move(j, "queued") /\ Fault

-----------------------------------------------------------------------------
\* The consumer takes a message and handleJob sends the mail.  Up to five may be
\* at it (prefetch), so the order is any; a channel that closes meanwhile finds
\* the message as one that closes before the acknowledgement does.
Send(j) ==
  /\ channel = "open"
  /\ at[j] = "queued"
  /\ SendMail(j)
  /\ Move(j, "sent")
  /\ UNCHANGED <<channel, faults>>

\* A failed job is dropped: nack without requeue.
SendFails(j) ==
  /\ channel = "open"
  /\ at[j] = "queued"
  /\ Move(j, "dropped")
  /\ Fault
  /\ UNCHANGED <<channel, copies>>

Ack(j) ==
  /\ at[j] = "sent"
  /\ Move(j, "done")
  /\ UNCHANGED <<channel, copies, faults>>

\* The broker queues again what was not acknowledged.
Requeue == at' = [j \in Jobs |-> IF at[j] = "sent" THEN "queued" ELSE at[j]]

\* The broker shuts the connection down.
Close ==
  /\ channel = "open"
  /\ channel' = "closed"
  /\ Requeue
  /\ Fault
  /\ UNCHANGED copies

\* The process dies and starts again; after a closed channel it always may.
Restart ==
  /\ channel' \in {"none", "open"}
  /\ Requeue
  /\ IF channel = "closed" THEN UNCHANGED faults ELSE Fault
  /\ UNCHANGED copies

Consume(j) == Send(j) \/ SendFails(j) \/ Ack(j)

-----------------------------------------------------------------------------
MailTypeOK ==
  /\ channel \in {"none", "open", "closed"}
  /\ at \in [Jobs -> Places]
  /\ copies \in [Jobs -> Nat]
  /\ faults \in 0..MaxFaults

\* Nobody is mailed twice without a fault: a copy more for a full buffer, for a
\* crash after the sending and for a connection lost under it, and none else.
CopiesExplained == \A j \in Jobs : copies[j] <= 1 + faults

=============================================================================
