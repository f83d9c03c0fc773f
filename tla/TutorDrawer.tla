----------------------------- MODULE TutorDrawer -----------------------------
(***************************************************************************)
(* The tutor's drawer on a study page                                      *)
(* (apps/web/src/components/study/AiTutorDrawer.tsx) and the stream it     *)
(* reads (askAiStream, apps/web/src/lib/api/ai.ts), composed with the      *)
(* turns of AiTutor.tla that serve it.  Closing the drawer or leaving the  *)
(* page aborts the stream; the turn goes on all the same.  An event        *)
(* reaches the drawer in the step that sends it: one stream is in order,   *)
(* and an event that comes after the abort is one the drawer never sees.   *)
(* Turns of other tabs are asked by Ask alone.                             *)
(***************************************************************************)
EXTENDS AiTutor

CONSTANT NoTurn  \* the drawer reads no stream

VARIABLES
  open,       \* whether the drawer is open
  initial,    \* initialRemaining: what the page's data says is left
  remaining,  \* the questions the drawer says are left
  sending,    \* whether the input is blocked by a question under way
  streaming,  \* the tokens of streamingText
  stream      \* the turn whose events the drawer reads, NoTurn after an abort

drawer == <<open, initial, remaining, sending, streaming, stream>>

both == <<vars, drawer>>

\* AiService.remaining, and aiQuestionsRemaining of the page's data.
Remaining(count) == IF count < Cap THEN Cap - count ELSE 0

\* The page's data may come from the cache: it says what was left when it was
\* read, and the usage has taken every value up to that of now.
PageData == {Remaining(count) : count \in 0..used}

DrawerInit ==
  /\ Init
  /\ open = FALSE
  /\ initial = Remaining(0)
  /\ remaining = initial
  /\ sending = FALSE
  /\ streaming = 0
  /\ stream = NoTurn

-----------------------------------------------------------------------------
(***************************************************************************)
(* What the learner does                                                   *)
(***************************************************************************)
\* Defect: a question counts as soon as it is asked.
SendCountsDown(r) ==
  /\ open /\ ~ sending /\ remaining > 0
  /\ Ask(r)
  /\ stream' = r
  /\ sending' = TRUE
  /\ streaming' = 0
  /\ remaining' = remaining - 1
  /\ UNCHANGED <<open, initial>>

Send(r) ==
  /\ open /\ ~ sending /\ remaining > 0
  /\ Ask(r)
  /\ stream' = r
  /\ sending' = TRUE
  /\ streaming' = 0
  /\ UNCHANGED <<open, initial, remaining>>

Open ==
  /\ ~ open
  /\ open' = TRUE
  /\ UNCHANGED <<vars, initial, remaining, sending, streaming, stream>>

\* The stream is aborted.  askAiStream swallows the AbortError and calls nobody
\* back: sending and streamingText stay what they are.
Close ==
  /\ open
  /\ open' = FALSE
  /\ stream' = NoTurn
  /\ UNCHANGED <<vars, initial, remaining, sending, streaming>>

\* The page is left or reloaded, and the drawer mounted again.
Remount ==
  /\ open' = FALSE
  /\ initial' \in PageData
  /\ remaining' = initial'
  /\ sending' = FALSE
  /\ streaming' = 0
  /\ stream' = NoTurn
  /\ UNCHANGED vars

\* The page's data is read again: the drawer takes it over when it changed.
Refetched ==
  /\ initial' \in PageData \ {initial}
  /\ remaining' = initial'
  /\ UNCHANGED <<vars, open, sending, streaming, stream>>

-----------------------------------------------------------------------------
(***************************************************************************)
(* The events of a turn                                                    *)
(***************************************************************************)
OnToken(r) ==
  /\ Token(r)
  /\ streaming' = IF stream = r THEN streaming + 1 ELSE streaming
  /\ UNCHANGED <<open, initial, remaining, sending, stream>>

OnDone(r, left) ==
  IF stream = r
  THEN /\ remaining' = left
       /\ sending' = FALSE
       /\ streaming' = 0
       /\ stream' = NoTurn
       /\ UNCHANGED <<open, initial>>
  ELSE UNCHANGED drawer

\* Defect: an error is shown, and the input stays blocked.
OnErrorKeepsSending(r) ==
  IF stream = r
  THEN /\ streaming' = 0
       /\ UNCHANGED <<open, initial, remaining, sending, stream>>
  ELSE UNCHANGED drawer

OnError(r) ==
  IF stream = r
  THEN /\ sending' = FALSE
       /\ streaming' = 0
       /\ stream' = NoTurn
       /\ UNCHANGED <<open, initial, remaining>>
  ELSE UNCHANGED drawer

Ended(r) == pc'[r] = "idle"

\* A refusal is a done event.
Refuse(r) ==
  /\ ReadUsed(r)
  /\ IF Ended(r) THEN OnDone(r, Remaining(used)) ELSE UNCHANGED drawer

Finish(r) ==
  /\ Done(r)
  /\ OnDone(r, Remaining(seen[r]))

GiveUp(r) ==
  /\ StreamError(r)
  /\ IF Ended(r) THEN OnError(r) ELSE UNCHANGED drawer

\* An error event, an answer that is not 200 (an expired access token among
\* them: this call has no refresh), or a connection that breaks.
Break(r) == Fail(r) /\ OnError(r)

Quiet(r) ==
  /\ FindBlock(r) \/ StreamEnd(r) \/ Retry(r) \/ Increment(r)
  /\ UNCHANGED drawer

Elsewhere(r) == Ask(r) /\ UNCHANGED drawer

-----------------------------------------------------------------------------
Turn(r) == Refuse(r) \/ Finish(r) \/ GiveUp(r) \/ Quiet(r)

DrawerNext ==
  \/ Open \/ Close \/ Remount \/ Refetched
  \/ \E r \in Turns : Send(r) \/ OnToken(r) \/ Turn(r) \/ Break(r) \/ Elsewhere(r)

DrawerSpec ==
  DrawerInit /\ [][DrawerNext]_both /\ \A r \in Turns : WF_both(Turn(r))

-----------------------------------------------------------------------------
\* The drawer blocks its input when it thinks no question is left.  It never
\* does so while the server would answer one: what it shows is what was left at
\* some time, through errors, empty replies, refusals, stale page data and
\* turns of other tabs.
NothingWithheld == remaining >= Remaining(used)

\* The text that grows in the drawer is of one turn and one attempt of it: no
\* token of a turn that was aborted, or of an attempt that was given up.
ShownIsOneReply == stream # NoTurn => streaming = tokens[stream]

\* A question that is under way unblocks the input in the end, unless the
\* learner closes the drawer or leaves the page first.
InputComesBack ==
  (open /\ sending /\ stream # NoTurn) ~> (~ sending \/ ~ open)
=============================================================================
