------------------------------- MODULE Study -------------------------------
(***************************************************************************)
(* The write side of the study domain: StudyService.submit and             *)
(* StudyService.reveal (apps/api/src/study/study.service.ts), with the     *)
(* block re-evaluation both end in.                                        *)
(*                                                                         *)
(* A request is a handler of the Node process that gives up control at     *)
(* every awaited database call, so requests, also of one user, interleave  *)
(* there.  One action is one database call: what the handler computes      *)
(* between two calls belongs to the action of the call before it.  The     *)
(* transaction that credits a block runs at READ COMMITTED: its read sees  *)
(* what is committed, its upsert of the block row takes the row's lock,    *)
(* and its writes become visible together when it commits.                 *)
(***************************************************************************)
EXTENDS Progression

CONSTANTS
  Users,
  Requests,      \* slots for the requests the process serves at a time
  NoRequest,     \* what a free slot holds
  MaxInFlight,   \* bound: requests of one user served at the same time
  MaxAttempts,   \* bound: submissions per user and task
  CanFail        \* whether a request may fail between two database calls

Submissions ==
  [kind : {"submit"}, user : Users, task : Tasks, correct : BOOLEAN]

Reveals == [kind : {"reveal"}, user : Users, task : Tasks, correct : {FALSE}]

Operations == Submissions \cup Reveals

ASSUME RequestAssumption ==
  /\ IsFiniteSet(Requests)
  /\ NoRequest \notin Operations
  /\ MaxInFlight \in Nat \ {0}
  /\ MaxAttempts \in Nat
  /\ CanFail \in BOOLEAN

VARIABLES
  taskStatus,  \* UserTaskProgress.status, "NONE" where there is no row
  attempts,    \* UserTaskProgress.attempts, 0 where there is no row
  completed,   \* the blocks whose UserBlockProgress row says COMPLETED
  xp,          \* UserLevelXp.xp, 0 where there is no row
  pc,          \* the database call each request awaits
  op,          \* what each request asks for
  seen         \* the task status each request read

tables == <<taskStatus, attempts, completed, xp>>

vars == <<taskStatus, attempts, completed, xp, pc, op, seen>>

RowStatuses == TaskStatuses \cup {"NONE"}

Calls == {"idle", "checkLock", "readStatus", "writeStatus", "reevaluate",
          "txRead", "txWriteBlock", "txCommit"}

Init ==
  /\ taskStatus = [u \in Users |-> [t \in Tasks |-> "NONE"]]
  /\ attempts = [u \in Users |-> [t \in Tasks |-> 0]]
  /\ completed = [u \in Users |-> {}]
  /\ xp = [u \in Users |-> [l \in Levels |-> 0]]
  /\ pc = [r \in Requests |-> "idle"]
  /\ op = [r \in Requests |-> NoRequest]
  /\ seen = [r \in Requests |-> "NONE"]

-----------------------------------------------------------------------------
\* The requests of user u the process is serving.
InFlight(u) == {r \in Requests : pc[r] # "idle" /\ op[r].user = u}

\* The submissions of task t by u whose upsert is still to come.
Pending(u, t) ==
  {r \in InFlight(u) : /\ op[r].kind = "submit"
                       /\ op[r].task = t
                       /\ pc[r] \in {"checkLock", "readStatus", "writeStatus"}}

Goto(r, call) == pc' = [pc EXCEPT ![r] = call]

\* The handler returns or throws.
Answer(r) ==
  /\ Goto(r, "idle")
  /\ op' = [op EXCEPT ![r] = NoRequest]
  /\ seen' = [seen EXCEPT ![r] = "NONE"]

\* A request for an existing task arrives: the task and its block are read
\* (seeded content, nothing changes it), and the lock check is next.  Whether
\* a submission is correct is fixed by its SQL.
Arrive(r) ==
  /\ pc[r] = "idle"
  /\ \E o \in Operations :
       /\ Cardinality(InFlight(o.user)) < MaxInFlight
       /\ o.kind = "submit" =>
            attempts[o.user][o.task]
              + Cardinality(Pending(o.user, o.task)) < MaxAttempts
       /\ op' = [op EXCEPT ![r] = o]
  /\ Goto(r, "checkLock")
  /\ UNCHANGED <<tables, seen>>

\* Defect: the lock check forgotten.
CheckLockForgotten(r) ==
  /\ pc[r] = "checkLock"
  /\ Goto(r, "readStatus")
  /\ UNCHANGED <<tables, op, seen>>

\* assertBlockUnlocked: 403 when the block of the task is LOCKED.
CheckLock(r) ==
  LET u == op[r].user
      b == BlockOf[op[r].task]
  IN /\ pc[r] = "checkLock"
     /\ IF BlockStatus(b, completed[u]) = "LOCKED"
        THEN Answer(r)
        ELSE Goto(r, "readStatus") /\ UNCHANGED <<op, seen>>
     /\ UNCHANGED tables

\* After grading (which touches no shared state), or at once for a reveal: the
\* status the new one will be computed from.
ReadStatus(r) ==
  /\ pc[r] = "readStatus"
  /\ seen' = [seen EXCEPT ![r] = taskStatus[op[r].user][op[r].task]]
  /\ Goto(r, "writeStatus")
  /\ UNCHANGED <<tables, op>>

\* nextStatus of submit: promote on a correct answer, otherwise keep what was
\* read.
SubmitStatus(correct, existing) ==
  IF correct \/ existing = "COMPLETED" THEN "COMPLETED"
  ELSE IF existing = "NONE" THEN "NOT_STARTED"
  ELSE existing

\* What submit's upsert creates when there is no row.
CreatedStatus(correct) == IF correct THEN "COMPLETED" ELSE "NOT_STARTED"

\* Defect: revealing forgets a completed task.
RevealStatusDowngrades(existing) == "SKIPPED"

\* Defect: a status of blocks used for a task.
RevealStatusOfBlock(existing) ==
  IF existing = "COMPLETED" THEN "COMPLETED" ELSE "IN_PROGRESS"

\* nextStatus of reveal.
RevealStatus(existing) ==
  IF existing = "COMPLETED" THEN "COMPLETED" ELSE "SKIPPED"

\* submit's upsert: the status computed from the one read, one more attempt.
WriteSubmit(r) ==
  LET u == op[r].user
      t == op[r].task
  IN /\ pc[r] = "writeStatus"
     /\ op[r].kind = "submit"
     /\ taskStatus' = [taskStatus EXCEPT ![u][t] =
          IF @ = "NONE" THEN CreatedStatus(op[r].correct)
          ELSE SubmitStatus(op[r].correct, seen[r])]
     /\ attempts' = [attempts EXCEPT ![u][t] = @ + 1]
     /\ IF op[r].correct
        THEN Goto(r, "reevaluate") /\ UNCHANGED <<op, seen>>
        ELSE Answer(r)
     /\ UNCHANGED <<completed, xp>>

\* Defect: a reveal returns without re-evaluating the block.
WriteRevealThenReturns(r) ==
  /\ pc[r] = "writeStatus"
  /\ op[r].kind = "reveal"
  /\ taskStatus' =
       [taskStatus EXCEPT ![op[r].user][op[r].task] = RevealStatus(seen[r])]
  /\ Answer(r)
  /\ UNCHANGED <<attempts, completed, xp>>

\* reveal's upsert: attempts stay as they are, 0 in a new row.
WriteReveal(r) ==
  /\ pc[r] = "writeStatus"
  /\ op[r].kind = "reveal"
  /\ taskStatus' =
       [taskStatus EXCEPT ![op[r].user][op[r].task] = RevealStatus(seen[r])]
  /\ Goto(r, "reevaluate")
  /\ UNCHANGED <<attempts, completed, xp, op, seen>>

\* reevaluateBlockCompletion up to the transaction: one query reads the user's
\* rows for the tasks of the block, and the handler returns unless every task
\* is resolved.
Reevaluate(r) ==
  LET u == op[r].user
      b == BlockOf[op[r].task]
  IN /\ pc[r] = "reevaluate"
     /\ IF IsBlockComplete(b, taskStatus[u])
        THEN Goto(r, "txRead") /\ UNCHANGED <<op, seen>>
        ELSE Answer(r)
     /\ UNCHANGED tables

\* Defect: the transaction credits without looking whether the block was.
TxReadUnguarded(r) ==
  /\ pc[r] = "txRead"
  /\ Goto(r, "txWriteBlock")
  /\ UNCHANGED <<tables, op, seen>>

\* The transaction's guard: a block already credited is left alone.
TxRead(r) ==
  LET u == op[r].user
      b == BlockOf[op[r].task]
  IN /\ pc[r] = "txRead"
     /\ IF b \in completed[u]
        THEN Answer(r)
        ELSE Goto(r, "txWriteBlock") /\ UNCHANGED <<op, seen>>
     /\ UNCHANGED tables

\* The upsert of the block row waits for the transaction that has it locked
\* and then locks it.  Nobody else sees the write yet.
TxWriteBlock(r) ==
  /\ pc[r] = "txWriteBlock"
  /\ \A q \in Requests :
       pc[q] = "txCommit" => \/ op[q].user # op[r].user
                             \/ BlockOf[op[q].task] # BlockOf[op[r].task]
  /\ Goto(r, "txCommit")
  /\ UNCHANGED <<tables, op, seen>>

\* Defect: the XP row is set to one award instead of incremented by it.
TxCommitSetsXp(r) ==
  LET u == op[r].user
      b == BlockOf[op[r].task]
      l == LevelOf[b]
  IN /\ pc[r] = "txCommit"
     /\ completed' = [completed EXCEPT ![u] = @ \cup {b}]
     /\ xp' = [xp EXCEPT ![u][l] = XPPerBlock[l]]
     /\ Answer(r)
     /\ UNCHANGED <<taskStatus, attempts>>

\* The increment of the level's XP and the commit.
TxCommit(r) ==
  LET u == op[r].user
      b == BlockOf[op[r].task]
      l == LevelOf[b]
  IN /\ pc[r] = "txCommit"
     /\ completed' = [completed EXCEPT ![u] = @ \cup {b}]
     /\ xp' = [xp EXCEPT ![u][l] = @ + XPPerBlock[l]]
     /\ Answer(r)
     /\ UNCHANGED <<taskStatus, attempts>>

\* A database error, a transaction timeout or the death of the process ends
\* the request where it is; an open transaction is rolled back.
Fail(r) ==
  /\ CanFail
  /\ pc[r] # "idle"
  /\ Answer(r)
  /\ UNCHANGED tables

Serve(r) ==
  \/ CheckLock(r)
  \/ ReadStatus(r)
  \/ WriteSubmit(r)
  \/ WriteReveal(r)
  \/ Reevaluate(r)
  \/ TxRead(r)
  \/ TxWriteBlock(r)
  \/ TxCommit(r)

Next == \E r \in Requests : Arrive(r) \/ Serve(r) \/ Fail(r)

Spec == Init /\ [][Next]_vars

\* A user asks to reveal a task of block b, which changes nothing about a block
\* already resolved but has it evaluated again.
AskAgain(u, b) ==
  \E r \in Requests :
    /\ Arrive(r)
    /\ op'[r].kind = "reveal"
    /\ op'[r].user = u
    /\ BlockOf[op'[r].task] = b

\* At some point requests stop failing, other than by answering early.
FailuresCease == <>[][\A r \in Requests : Fail(r) => Serve(r)]_vars

\* The event loop resumes every handler whose database call has returned, and
\* users keep using their blocks.  SF because a slot is not always free.
FairSpec ==
  /\ Spec
  /\ FailuresCease
  /\ \A r \in Requests : WF_vars(Serve(r))
  /\ \A u \in Users, b \in Blocks : SF_vars(AskAgain(u, b))

-----------------------------------------------------------------------------
TypeOK ==
  /\ taskStatus \in [Users -> [Tasks -> RowStatuses]]
  /\ attempts \in [Users -> [Tasks -> Nat]]
  /\ completed \in [Users -> SUBSET Blocks]
  /\ xp \in [Users -> [Levels -> Nat]]
  /\ pc \in [Requests -> Calls]
  /\ op \in [Requests -> Operations \cup {NoRequest}]
  /\ seen \in [Requests -> RowStatuses]

CompletedIn(u, l) == completed[u] \cap BlocksOf(l)

\* However requests interleave, the blocks a user has been credited with form a
\* prefix of each level: the lock check, made long before the credit and never
\* repeated, is still true when the transaction commits.
CompletedIsPrefix ==
  \A u \in Users : \A p, b \in Blocks :
    (Precedes(p, b) /\ b \in completed[u]) => p \in completed[u]

\* No request leaves progress on a task of a block that is not open yet: every
\* block before it in its level has been credited.
ProgressOnlyInOpenBlocks ==
  \A u \in Users : \A t \in Tasks :
    taskStatus[u][t] # "NONE" =>
      \A p \in Blocks : Precedes(p, BlockOf[t]) => p \in completed[u]

\* A credited block was worked through: every one of its tasks has a progress
\* row, also when the rows were being written while they were counted.
CreditedBlockWorkedThrough ==
  \A u \in Users : \A t \in Tasks :
    BlockOf[t] \in completed[u] => taskStatus[u][t] # "NONE"

\* Every credited block has paid: increments of concurrent transactions add up
\* and none is lost, whichever of them writes the block row last.
XpCoversCompleted ==
  \A u \in Users : \A l \in Levels :
    xp[u][l] >= XPPerBlock[l] * Cardinality(CompletedIn(u, l))

\* The guard of the transaction bounds what overlapping requests can award for
\* one block: at most one award for each of them.  With one request of a user
\* at a time XP is awarded exactly once per block.
XpBounded ==
  \A u \in Users : \A l \in Levels :
    xp[u][l] <= XPPerBlock[l] * MaxInFlight * Cardinality(CompletedIn(u, l))

\* Without a bound on overlap: XP is what the credited blocks are worth ("XP is
\* awarded to the block's level EXACTLY ONCE").
XpExact ==
  \A u \in Users : \A l \in Levels :
    xp[u][l] = XPPerBlock[l] * Cardinality(CompletedIn(u, l))

\* "a wrong/forbidden submit does NOT downgrade an already-COMPLETED task",
\* "Reveal sets SKIPPED, unless the task is already COMPLETED".
CompletedTaskStays ==
  [][\A u \in Users : \A t \in Tasks :
       taskStatus[u][t] = "COMPLETED" => taskStatus'[u][t] = "COMPLETED"]_vars

\* A block with every task resolved is credited, also when the request that
\* resolved it failed before it could: the next one makes up for it.
ResolvedBlockGetsCredited ==
  \A u \in Users : \A b \in Blocks :
    IsBlockComplete(b, taskStatus[u]) ~> b \in completed[u]

-----------------------------------------------------------------------------
\* A learner sees a task without a progress row as NOT_STARTED.
ShownStatus ==
  [u \in Users |-> [t \in Tasks |->
     IF taskStatus[u][t] = "NONE" THEN "NOT_STARTED" ELSE taskStatus[u][t]]]

Promise == INSTANCE Curriculum WITH taskStatus <- ShownStatus

\* The handlers keep the promise of Curriculum.tla: each of their writes is a
\* resolution, a credit, or nothing a learner sees.
KeepsPromise == Promise!Spec
=============================================================================
