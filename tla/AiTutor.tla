------------------------------- MODULE AiTutor -------------------------------
(***************************************************************************)
(* The turns of the AI tutor on one block by one user: AiService.askStream *)
(* (apps/api/src/ai/ai.service.ts), the retries of                         *)
(* LlmService.completeStream underneath it (llm.service.ts) and the event  *)
(* stream the controller writes (ai.controller.ts).  Quota rows of         *)
(* different users and blocks never meet.  The turns of one learner        *)
(* overlap when the page is reloaded or opened twice; a client that goes   *)
(* away does not stop its turn, the controller drains the generator all    *)
(* the same.                                                               *)
(***************************************************************************)
EXTENDS Integers, FiniteSets

CONSTANTS
  Turns,       \* slots for the turns served at a time
  Cap,         \* AI_QUESTIONS_PER_BLOCK
  MaxRetries,  \* MAX_RETRIES: attempts after the first
  MaxTokens,   \* bound: tokens of one attempt
  Configured,  \* whether an LLM provider is configured
  CanFail      \* whether a turn may fail between two database calls

ASSUME TutorAssumption ==
  /\ IsFiniteSet(Turns)
  /\ Cap \in Nat \ {0}
  /\ MaxRetries \in Nat
  /\ MaxTokens \in Nat \ {0}
  /\ Configured \in BOOLEAN
  /\ CanFail \in BOOLEAN

VARIABLES
  used,      \* UserBlockAiUsage.questionsUsed, 0 without a row
  pc,        \* what each turn awaits
  seen,      \* the usage each turn last read
  attempt,   \* the attempt of each turn, from 0
  tokens,    \* tokensYielded: the tokens of this attempt
  sent,      \* the tokens written to the client, of all attempts
  answered,  \* history: turns that ended with a reply of at least one token
  lost       \* history: turns that failed after their reply was charged

account == <<used, answered, lost>>

vars == <<used, pc, seen, attempt, tokens, sent, answered, lost>>

Streaming == {"stream", "backoff"}

\* A turn the quota let through.
Admitted == {"findBlock", "increment", "done"} \cup Streaming

Calls == {"idle", "readUsed"} \cup Admitted

\* The turns whose reply has been charged and not finished.
Charged == {r \in Turns : pc[r] = "done" /\ sent[r] > 0}

Init ==
  /\ used = 0
  /\ pc = [r \in Turns |-> "idle"]
  /\ seen = [r \in Turns |-> 0]
  /\ attempt = [r \in Turns |-> 0]
  /\ tokens = [r \in Turns |-> 0]
  /\ sent = [r \in Turns |-> 0]
  /\ answered = 0
  /\ lost = 0

-----------------------------------------------------------------------------
Goto(r, call) == pc' = [pc EXCEPT ![r] = call]

\* The response ends: with a done event, an error event, or a JSON error.
End(r) ==
  /\ Goto(r, "idle")
  /\ seen' = [seen EXCEPT ![r] = 0]
  /\ attempt' = [attempt EXCEPT ![r] = 0]
  /\ tokens' = [tokens EXCEPT ![r] = 0]
  /\ sent' = [sent EXCEPT ![r] = 0]

Ask(r) ==
  /\ pc[r] = "idle"
  /\ Goto(r, "readUsed")
  /\ UNCHANGED <<account, seen, attempt, tokens, sent>>

\* Defect: the comparison with the cap is off by one.
ReadUsedLate(r) ==
  /\ pc[r] = "readUsed"
  /\ IF ~ Configured \/ used > Cap
     THEN End(r)
     ELSE /\ seen' = [seen EXCEPT ![r] = used]
          /\ Goto(r, "findBlock")
          /\ UNCHANGED <<attempt, tokens, sent>>
  /\ UNCHANGED account

\* Without a provider, or with the quota exhausted, a done event with a canned
\* refusal; the usage is read in each case.
ReadUsed(r) ==
  /\ pc[r] = "readUsed"
  /\ IF ~ Configured \/ used >= Cap
     THEN End(r)
     ELSE /\ seen' = [seen EXCEPT ![r] = used]
          /\ Goto(r, "findBlock")
          /\ UNCHANGED <<attempt, tokens, sent>>
  /\ UNCHANGED account

\* The block's theory and tasks, for the prompt.
FindBlock(r) ==
  /\ pc[r] = "findBlock"
  /\ Goto(r, "stream")
  /\ UNCHANGED <<account, seen, attempt, tokens, sent>>

\* A chunk with content, forwarded as a token event at once.
Token(r) ==
  /\ pc[r] = "stream"
  /\ tokens[r] < MaxTokens
  /\ tokens' = [tokens EXCEPT ![r] = @ + 1]
  /\ sent' = [sent EXCEPT ![r] = @ + 1]
  /\ UNCHANGED <<account, pc, seen, attempt>>

\* Defect: an empty reply is charged.
StreamEndAlwaysCharges(r) ==
  /\ pc[r] = "stream"
  /\ Goto(r, "increment")
  /\ UNCHANGED <<account, seen, attempt, tokens, sent>>

\* The provider's stream ends.  A reply without a token is not counted.
StreamEnd(r) ==
  /\ pc[r] = "stream"
  /\ Goto(r, IF sent[r] > 0 THEN "increment" ELSE "done")
  /\ UNCHANGED <<account, seen, attempt, tokens, sent>>

\* Defect: a stream that was interrupted after some tokens is retried.
StreamErrorRetriesAll(r) ==
  /\ pc[r] = "stream"
  /\ IF attempt[r] < MaxRetries
     THEN /\ Goto(r, "backoff")
          /\ UNCHANGED <<seen, attempt, tokens, sent>>
     ELSE End(r)
  /\ UNCHANGED account

\* Defect: one attempt too many.
StreamErrorOneMore(r) ==
  /\ pc[r] = "stream"
  /\ IF tokens[r] = 0 /\ attempt[r] <= MaxRetries
     THEN /\ Goto(r, "backoff")
          /\ UNCHANGED <<seen, attempt, tokens, sent>>
     ELSE End(r)
  /\ UNCHANGED account

\* The request or its stream fails: once a token was yielded, or when there is
\* no attempt left, the turn ends with an error event; otherwise it backs off.
StreamError(r) ==
  /\ pc[r] = "stream"
  /\ IF tokens[r] = 0 /\ attempt[r] < MaxRetries
     THEN /\ Goto(r, "backoff")
          /\ UNCHANGED <<seen, attempt, tokens, sent>>
     ELSE End(r)
  /\ UNCHANGED account

\* MAX_RETRIES is counted by the loop of completeStream.
Retry(r) ==
  /\ pc[r] = "backoff"
  /\ attempt' = [attempt EXCEPT ![r] = @ + 1]
  /\ tokens' = [tokens EXCEPT ![r] = 0]
  /\ Goto(r, "stream")
  /\ UNCHANGED <<account, seen, sent>>

\* incrementUsage: one atomic upsert, which returns the new usage.
Increment(r) ==
  /\ pc[r] = "increment"
  /\ used' = used + 1
  /\ seen' = [seen EXCEPT ![r] = used + 1]
  /\ Goto(r, "done")
  /\ UNCHANGED <<attempt, tokens, sent, answered, lost>>

\* The done event with the sanitised reply.
Done(r) ==
  /\ pc[r] = "done"
  /\ answered' = IF r \in Charged THEN answered + 1 ELSE answered
  /\ End(r)
  /\ UNCHANGED <<used, lost>>

\* A database call of the turn fails (500, or an error event once tokens were
\* sent), or the process dies.
Fail(r) ==
  /\ CanFail
  /\ pc[r] # "idle"
  /\ lost' = IF r \in Charged THEN lost + 1 ELSE lost
  /\ End(r)
  /\ UNCHANGED <<used, answered>>

Serve(r) ==
  \/ ReadUsed(r)
  \/ FindBlock(r)
  \/ StreamEnd(r)
  \/ StreamError(r)
  \/ Retry(r)
  \/ Increment(r)
  \/ Done(r)

Next == \E r \in Turns : Ask(r) \/ Token(r) \/ Serve(r) \/ Fail(r)

Spec == Init /\ [][Next]_vars

-----------------------------------------------------------------------------
TypeOK ==
  /\ used \in Nat
  /\ pc \in [Turns -> Calls]
  /\ seen \in [Turns -> Nat]
  /\ attempt \in [Turns -> 0..MaxRetries]
  /\ tokens \in [Turns -> 0..MaxTokens]
  /\ sent \in [Turns -> Nat]
  /\ answered \in Nat
  /\ lost \in Nat

AdmittedTurns == {r \in Turns : pc[r] \in Admitted}

\* The quota is checked before the stream and charged after it, so overlapping
\* turns can pass the cap, but only by the turns that were under way with it.
QuotaOverrunBounded == used <= Cap + Cardinality(Turns) - 1

\* A retry never continues a reply: what the learner was sent is the output of
\* one attempt, since a stream that yielded a token is not retried.
ReplyOfOneAttempt == \A r \in Turns : sent[r] = tokens[r]

\* The books balance: what was charged is what was answered, plus the replies
\* under way with their charge made, plus those that failed just after it.  No
\* turn is free and none is charged twice, however the turns overlap and fail.
ChargedIffAnswered == used = answered + lost + Cardinality(Charged)

=============================================================================
