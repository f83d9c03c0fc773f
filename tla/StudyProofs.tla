---------------------------- MODULE StudyProofs ----------------------------
(***************************************************************************)
(* Theorems about Study.tla, for every curriculum, any number of users and *)
(* any number of overlapping requests, with and without failing requests.  *)
(***************************************************************************)
EXTENDS Study, ProgressionProofs, FiniteSetTheorems

\* A request past its lock check.
PastLock == Calls \ {"idle", "checkLock"}

\* A request in progress knows what it was asked.
RequestsKnown == \A r \in Requests : pc[r] # "idle" => op[r] \in Operations

\* What the lock check found is still true whenever the request acts on it.
LockCheckHolds ==
  \A r \in Requests : pc[r] \in PastLock =>
    Open(BlockOf[op[r].task], completed[op[r].user])

\* CompletedIsPrefix by itself is not inductive: a commit adds a block, and
\* that the blocks before it are credited was checked seven calls earlier.
IInv ==
  /\ TypeOK
  /\ RequestsKnown
  /\ LockCheckHolds
  /\ CompletedIsPrefix
  /\ ProgressOnlyInOpenBlocks

USE CurriculumAssumption, RequestAssumption

LEMMA OperationFields ==
  ASSUME NEW o \in Operations
  PROVE  /\ o.user \in Users
         /\ o.task \in Tasks
         /\ o.correct \in BOOLEAN
         /\ o.kind \in {"submit", "reveal"}
         /\ BlockOf[o.task] \in Blocks
         /\ LevelOf[BlockOf[o.task]] \in Levels
BY DEF Operations, Submissions, Reveals

LEMMA InitIInv == Init => IInv
BY DEF Init, IInv, TypeOK, RequestsKnown, LockCheckHolds, CompletedIsPrefix,
       ProgressOnlyInOpenBlocks, RowStatuses, Calls, PastLock

-----------------------------------------------------------------------------
(***************************************************************************)
(* Steps that leave the tables alone: they can only disturb what is known  *)
(* of the request that takes them.                                         *)
(***************************************************************************)
LEMMA ArriveKeeps == ASSUME IInv, NEW r \in Requests, Arrive(r) PROVE IInv'
<1>1. PICK o \in Operations : op' = [op EXCEPT ![r] = o]
  BY DEF Arrive
<1>2. TypeOK'
  BY <1>1 DEF IInv, TypeOK, Arrive, Goto, Calls, tables
<1>3. RequestsKnown'
  BY <1>1 DEF IInv, TypeOK, RequestsKnown, Arrive, Goto
<1>4. LockCheckHolds'
  BY <1>1 DEF IInv, TypeOK, LockCheckHolds, PastLock, Arrive, Goto, tables
<1>5. CompletedIsPrefix' /\ ProgressOnlyInOpenBlocks'
  BY DEF IInv, CompletedIsPrefix, ProgressOnlyInOpenBlocks, Arrive, tables
<1>. QED BY <1>2, <1>3, <1>4, <1>5 DEF IInv

LEMMA AnswerKeeps ==
  ASSUME IInv, NEW r \in Requests, Answer(r), UNCHANGED tables
  PROVE  IInv'
<1>1. TypeOK'
  BY DEF IInv, TypeOK, Answer, Goto, Calls, RowStatuses, tables
<1>2. RequestsKnown'
  BY DEF IInv, TypeOK, RequestsKnown, Answer, Goto
<1>3. LockCheckHolds'
  BY DEF IInv, TypeOK, LockCheckHolds, PastLock, Answer, Goto, tables
<1>4. CompletedIsPrefix' /\ ProgressOnlyInOpenBlocks'
  BY DEF IInv, CompletedIsPrefix, ProgressOnlyInOpenBlocks, tables
<1>. QED BY <1>1, <1>2, <1>3, <1>4 DEF IInv

\* A step to a later call of a request that is past its lock check.
LEMMA AdvanceKeeps ==
  ASSUME IInv, NEW r \in Requests, NEW call \in PastLock,
         pc[r] \in PastLock, Goto(r, call),
         seen' \in [Requests -> RowStatuses],
         UNCHANGED <<tables, op>>
  PROVE  IInv'
<1>1. TypeOK'
  BY DEF IInv, TypeOK, Goto, PastLock, tables
<1>2. RequestsKnown'
  BY DEF IInv, TypeOK, RequestsKnown, Goto, PastLock
<1>3. LockCheckHolds'
  BY DEF IInv, TypeOK, LockCheckHolds, Goto, tables
<1>4. CompletedIsPrefix' /\ ProgressOnlyInOpenBlocks'
  BY DEF IInv, CompletedIsPrefix, ProgressOnlyInOpenBlocks, tables
<1>. QED BY <1>1, <1>2, <1>3, <1>4 DEF IInv

LEMMA CheckLockKeeps == ASSUME IInv, NEW r \in Requests, CheckLock(r) PROVE IInv'
<1> DEFINE u == op[r].user
           b == BlockOf[op[r].task]
<1>1. op[r] \in Operations /\ u \in Users /\ b \in Blocks
  BY OperationFields DEF IInv, RequestsKnown, CheckLock
<1>2. CASE BlockStatus(b, completed[u]) = "LOCKED"
  BY <1>2, AnswerKeeps DEF CheckLock
<1>3. CASE BlockStatus(b, completed[u]) # "LOCKED"
  <2>1. Open(b, completed[u])
    BY <1>1, <1>3, NotLockedMeansOpen DEF IInv, CompletedIsPrefix, IsLevelPrefix
  <2>2. Goto(r, "readStatus") /\ UNCHANGED <<tables, op, seen>>
    BY <1>3 DEF CheckLock
  <2>3. TypeOK' /\ RequestsKnown'
    BY <1>1, <2>2 DEF IInv, TypeOK, RequestsKnown, Goto, Calls, tables
  <2>4. LockCheckHolds'
    BY <2>1, <2>2 DEF IInv, TypeOK, LockCheckHolds, Goto, tables
  <2>5. CompletedIsPrefix' /\ ProgressOnlyInOpenBlocks'
    BY <2>2 DEF IInv, CompletedIsPrefix, ProgressOnlyInOpenBlocks, tables
  <2>. QED BY <2>3, <2>4, <2>5 DEF IInv
<1>. QED BY <1>2, <1>3

LEMMA ReadStatusKeeps ==
  ASSUME IInv, NEW r \in Requests, ReadStatus(r) PROVE IInv'
<1>1. op[r] \in Operations
  BY DEF IInv, RequestsKnown, ReadStatus
<1>2. seen' \in [Requests -> RowStatuses]
  BY <1>1, OperationFields DEF IInv, TypeOK, ReadStatus
<1>. QED BY <1>2, AdvanceKeeps DEF ReadStatus, PastLock, Calls

LEMMA ReevaluateKeeps ==
  ASSUME IInv, NEW r \in Requests, Reevaluate(r) PROVE IInv'
BY AnswerKeeps, AdvanceKeeps DEF Reevaluate, PastLock, Calls, IInv, TypeOK

LEMMA TxReadKeeps == ASSUME IInv, NEW r \in Requests, TxRead(r) PROVE IInv'
BY AnswerKeeps, AdvanceKeeps DEF TxRead, PastLock, Calls, IInv, TypeOK

LEMMA TxWriteBlockKeeps ==
  ASSUME IInv, NEW r \in Requests, TxWriteBlock(r) PROVE IInv'
BY AdvanceKeeps DEF TxWriteBlock, PastLock, Calls, IInv, TypeOK

LEMMA FailKeeps == ASSUME IInv, NEW r \in Requests, Fail(r) PROVE IInv'
BY AnswerKeeps DEF Fail

-----------------------------------------------------------------------------
(***************************************************************************)
(* Steps that write a table.                                               *)
(***************************************************************************)
\* Either upsert of UserTaskProgress, of a request past its lock check, which
\* then goes on or is answered.
LEMMA WriteStatusKeeps ==
  ASSUME IInv, NEW r \in Requests, pc[r] = "writeStatus",
         NEW s \in RowStatuses, NEW n \in Nat,
         taskStatus' = [taskStatus EXCEPT ![op[r].user][op[r].task] = s],
         attempts' = [attempts EXCEPT ![op[r].user][op[r].task] = n],
         \/ Goto(r, "reevaluate") /\ UNCHANGED <<op, seen>>
         \/ Answer(r),
         UNCHANGED <<completed, xp>>
  PROVE  IInv'
<1> DEFINE u == op[r].user
           t == op[r].task
<1>1. op[r] \in Operations /\ u \in Users /\ t \in Tasks
  BY OperationFields DEF IInv, RequestsKnown
<1>2. TypeOK'
  <2>1. /\ taskStatus' \in [Users -> [Tasks -> RowStatuses]]
        /\ attempts' \in [Users -> [Tasks -> Nat]]
    BY <1>1 DEF IInv, TypeOK
  <2>. QED BY <2>1 DEF IInv, TypeOK, Goto, Answer, Calls, RowStatuses
<1>3. RequestsKnown'
  BY DEF IInv, TypeOK, RequestsKnown, Goto, Answer
<1>4. LockCheckHolds'
  BY DEF IInv, TypeOK, LockCheckHolds, PastLock, Calls, Goto, Answer
<1>5. CompletedIsPrefix'
  BY DEF IInv, CompletedIsPrefix
<1>6. ProgressOnlyInOpenBlocks'
  <2>1. Open(BlockOf[t], completed[u])
    BY DEF IInv, LockCheckHolds, PastLock, Calls
  <2>. QED BY <1>1, <2>1 DEF IInv, TypeOK, ProgressOnlyInOpenBlocks, Open
<1>. QED BY <1>2, <1>3, <1>4, <1>5, <1>6 DEF IInv

LEMMA WriteSubmitKeeps ==
  ASSUME IInv, NEW r \in Requests, WriteSubmit(r) PROVE IInv'
<1> DEFINE u == op[r].user
           t == op[r].task
           s == IF taskStatus[u][t] = "NONE" THEN CreatedStatus(op[r].correct)
                ELSE SubmitStatus(op[r].correct, seen[r])
           n == attempts[u][t] + 1
<1>1. op[r] \in Operations /\ u \in Users /\ t \in Tasks
  BY OperationFields DEF IInv, RequestsKnown, WriteSubmit
<1>2. s \in RowStatuses /\ n \in Nat
  BY <1>1 DEF IInv, TypeOK, CreatedStatus, SubmitStatus, RowStatuses,
              TaskStatuses
<1>3. /\ taskStatus' = [taskStatus EXCEPT ![u][t] = s]
      /\ attempts' = [attempts EXCEPT ![u][t] = n]
  BY <1>1 DEF WriteSubmit, IInv, TypeOK
<1>. QED BY <1>2, <1>3, WriteStatusKeeps DEF WriteSubmit

LEMMA WriteRevealKeeps ==
  ASSUME IInv, NEW r \in Requests, WriteReveal(r) PROVE IInv'
<1> DEFINE u == op[r].user
           t == op[r].task
<1>1. op[r] \in Operations /\ u \in Users /\ t \in Tasks
  BY OperationFields DEF IInv, RequestsKnown, WriteReveal
<1>2. RevealStatus(seen[r]) \in RowStatuses /\ attempts[u][t] \in Nat
  BY <1>1 DEF IInv, TypeOK, RevealStatus, RowStatuses, TaskStatuses
<1>3. attempts' = [attempts EXCEPT ![u][t] = attempts[u][t]]
  BY <1>1 DEF WriteReveal, IInv, TypeOK
<1>. QED BY <1>2, <1>3, WriteStatusKeeps DEF WriteReveal

LEMMA TxCommitKeeps == ASSUME IInv, NEW r \in Requests, TxCommit(r) PROVE IInv'
<1> DEFINE u == op[r].user
           b == BlockOf[op[r].task]
           l == LevelOf[b]
<1>1. /\ op[r] \in Operations
      /\ u \in Users /\ b \in Blocks /\ l \in Levels
  BY OperationFields DEF IInv, RequestsKnown, TxCommit
<1>2. Open(b, completed[u])
  BY DEF IInv, LockCheckHolds, PastLock, Calls, TxCommit
<1>3. \A v \in Users : completed[v] \subseteq completed'[v]
  BY <1>1 DEF IInv, TypeOK, TxCommit
<1>4. TypeOK'
  <2>1. completed' \in [Users -> SUBSET Blocks]
    BY <1>1 DEF IInv, TypeOK, TxCommit
  <2>2. xp' \in [Users -> [Levels -> Nat]]
    BY <1>1 DEF IInv, TypeOK, TxCommit
  <2>. QED BY <2>1, <2>2 DEF IInv, TypeOK, TxCommit, Answer, Goto, Calls,
              RowStatuses
<1>5. RequestsKnown'
  BY DEF IInv, TypeOK, RequestsKnown, TxCommit, Answer, Goto
<1>6. LockCheckHolds'
  <2> SUFFICES ASSUME NEW q \in Requests, pc'[q] \in PastLock
               PROVE  Open(BlockOf[op'[q].task], completed'[op'[q].user])
    BY DEF LockCheckHolds, Open
  <2>1. q # r /\ pc'[q] = pc[q] /\ op'[q] = op[q]
    BY DEF IInv, TypeOK, TxCommit, Answer, Goto, PastLock
  <2>2. op[q].user \in Users /\ Open(BlockOf[op[q].task], completed[op[q].user])
    BY <2>1, OperationFields DEF IInv, RequestsKnown, LockCheckHolds, PastLock
  <2>. QED BY <1>3, <2>1, <2>2, OpenIsMonotonic
<1>7. CompletedIsPrefix'
  <2>1. IsLevelPrefix(completed[u])
    BY <1>1 DEF IInv, CompletedIsPrefix, IsLevelPrefix
  <2>2. IsLevelPrefix(completed[u] \cup {b})
    BY <1>1, <1>2, <2>1, CreditKeepsPrefix
  <2>3. completed' = [completed EXCEPT ![u] = completed[u] \cup {b}]
    BY DEF TxCommit
  <2>. QED BY <1>1, <2>2, <2>3 DEF IInv, TypeOK, CompletedIsPrefix, IsLevelPrefix
<1>8. ProgressOnlyInOpenBlocks'
  <2>1. taskStatus' = taskStatus
    BY DEF TxCommit
  <2>. QED BY <1>3, <2>1 DEF IInv, ProgressOnlyInOpenBlocks
<1>. QED BY <1>4, <1>5, <1>6, <1>7, <1>8 DEF IInv

-----------------------------------------------------------------------------
LEMMA StepKeeps == IInv /\ [Next]_vars => IInv'
<1> SUFFICES ASSUME IInv, [Next]_vars PROVE IInv'
  OBVIOUS
<1>1. ASSUME NEW r \in Requests, Arrive(r) PROVE IInv'
  BY <1>1, ArriveKeeps
<1>2. ASSUME NEW r \in Requests, Serve(r) PROVE IInv'
  BY <1>2, CheckLockKeeps, ReadStatusKeeps, WriteSubmitKeeps, WriteRevealKeeps,
     ReevaluateKeeps, TxReadKeeps, TxWriteBlockKeeps, TxCommitKeeps DEF Serve
<1>3. ASSUME NEW r \in Requests, Fail(r) PROVE IInv'
  BY <1>3, FailKeeps
<1>4. CASE UNCHANGED vars
  BY <1>4 DEF vars, IInv, TypeOK, RequestsKnown, LockCheckHolds,
              CompletedIsPrefix, ProgressOnlyInOpenBlocks
<1>. QED BY <1>1, <1>2, <1>3, <1>4 DEF Next

\* The invariant of every behaviour of the handlers.
THEOREM Invariance == Spec => []IInv
BY InitIInv, StepKeeps, PTL DEF Spec

\* Every variable keeps its type.
THEOREM TypeCorrectness == Spec => []TypeOK
BY Invariance, PTL DEF IInv

\* However many requests of a user overlap or fail, the credited blocks of each
\* level are a prefix of it: nobody is ever credited past a block they lack.
THEOREM CreditsAreAPrefix == Spec => []CompletedIsPrefix
BY Invariance, PTL DEF IInv

\* No request ever leaves progress on a task of a block that is not open.
THEOREM NoProgressBehindALock == Spec => []ProgressOnlyInOpenBlocks
BY Invariance, PTL DEF IInv

-----------------------------------------------------------------------------
(***************************************************************************)
(* What is credited: that a credited block was worked through, what its XP *)
(* can be when requests of a user overlap, and that handlers serving one   *)
(* request of a user at a time implement Curriculum.tla.                   *)
(***************************************************************************)
USE DEF tables

-----------------------------------------------------------------------------
(***************************************************************************)
(* A credited block was worked through                                     *)
(***************************************************************************)
HasRow(u, t) == taskStatus[u][t] # "NONE"

WorkedThrough(u, b) == \A t \in TasksOf(b) : HasRow(u, t)

\* A request past the evaluation of its block: it may credit it.
Crediting(r) == pc[r] \in {"txRead", "txWriteBlock", "txCommit"}

\* The credit comes calls after the evaluation that allows it.
CreditingWorked ==
  \A r \in Requests :
    Crediting(r) => WorkedThrough(op[r].user, BlockOf[op[r].task])

CompletedWorked ==
  \A u \in Users : \A b \in completed[u] : WorkedThrough(u, b)

\* A row, once there, stays.
LEMMA RowsStay ==
  ASSUME IInv, [Next]_vars, NEW u \in Users, NEW t \in Tasks, HasRow(u, t)
  PROVE  HasRow(u, t)'
<1> USE DEF IInv, TypeOK, HasRow
<1>1. ASSUME NEW r \in Requests, WriteSubmit(r) PROVE HasRow(u, t)'
  <2>1. op[r].user \in Users /\ op[r].task \in Tasks
    BY <1>1, OperationFields DEF RequestsKnown, WriteSubmit
  <2>. QED BY <1>1, <2>1 DEF WriteSubmit, CreatedStatus, SubmitStatus
<1>2. ASSUME NEW r \in Requests, WriteReveal(r) PROVE HasRow(u, t)'
  <2>1. op[r].user \in Users /\ op[r].task \in Tasks
    BY <1>2, OperationFields DEF RequestsKnown, WriteReveal
  <2>. QED BY <1>2, <2>1 DEF WriteReveal, RevealStatus
<1>3. ASSUME NEW r \in Requests,
             \/ Arrive(r) \/ CheckLock(r) \/ ReadStatus(r) \/ Reevaluate(r)
             \/ TxRead(r) \/ TxWriteBlock(r) \/ TxCommit(r) \/ Fail(r)
      PROVE  HasRow(u, t)'
  <2>1. taskStatus' = taskStatus
    BY <1>3 DEF Arrive, CheckLock, ReadStatus, Reevaluate, TxRead,
                TxWriteBlock, TxCommit, Fail
  <2>. QED BY <2>1
<1>4. CASE UNCHANGED vars
  BY <1>4 DEF vars
<1>. QED BY <1>1, <1>2, <1>3, <1>4 DEF Next, Serve

\* A step of r leaves every other request where it is, and gets r itself to a
\* credit from its evaluation alone.
LEMMA CreditingComesFrom ==
  ASSUME IInv, [Next]_vars, NEW q \in Requests, Crediting(q)'
  PROVE  /\ op'[q] = op[q]
         /\ Crediting(q) \/ Reevaluate(q)
<1> USE DEF IInv, TypeOK, Crediting
<1>1. ASSUME NEW r \in Requests, Arrive(r) \/ Serve(r) \/ Fail(r), q # r
      PROVE  op'[q] = op[q] /\ Crediting(q)
  BY <1>1 DEF Arrive, Serve, CheckLock, ReadStatus, WriteSubmit, WriteReveal,
              Reevaluate, TxRead, TxWriteBlock, TxCommit, Fail, Answer, Goto
<1>2. ASSUME Arrive(q) \/ CheckLock(q) \/ ReadStatus(q) \/ WriteSubmit(q)
             \/ WriteReveal(q) \/ TxCommit(q) \/ Fail(q)
      PROVE  FALSE
  BY <1>2 DEF Arrive, CheckLock, ReadStatus, WriteSubmit, WriteReveal,
              TxCommit, Fail, Answer, Goto
<1>3. CASE Reevaluate(q) \/ TxRead(q) \/ TxWriteBlock(q)
  BY <1>3 DEF Reevaluate, TxRead, TxWriteBlock, Answer, Goto
<1>4. CASE UNCHANGED vars
  BY <1>4 DEF vars
<1>. QED BY <1>1, <1>2, <1>3, <1>4 DEF Next, Serve

LEMMA CreditingWorkedKept ==
  ASSUME IInv, CreditingWorked, [Next]_vars PROVE CreditingWorked'
<1> SUFFICES ASSUME NEW q \in Requests, Crediting(q)'
             PROVE  \A t \in TasksOf(BlockOf[op'[q].task]) :
                      taskStatus'[op'[q].user][t] # "NONE"
  BY DEF CreditingWorked, WorkedThrough, HasRow
<1> DEFINE u == op[q].user
           b == BlockOf[op[q].task]
<1>1. op'[q] = op[q] /\ (Crediting(q) \/ Reevaluate(q))
  BY CreditingComesFrom
<1>2. u \in Users
  BY <1>1, OperationFields DEF IInv, RequestsKnown, Crediting, Reevaluate
<1>3. WorkedThrough(u, b)
  <2>1. CASE Crediting(q)
    BY <2>1 DEF CreditingWorked
  <2>2. CASE Reevaluate(q) /\ ~ Crediting(q)
    <3>1. IsBlockComplete(b, taskStatus[u])
      BY <2>2, <1>1 DEF Reevaluate, Answer, Goto, Crediting, IInv, TypeOK
    <3>. QED BY <3>1 DEF IsBlockComplete, Resolved, WorkedThrough, HasRow
  <2>. QED BY <1>1, <2>1, <2>2
<1>4. \A t \in TasksOf(b) : taskStatus'[u][t] # "NONE"
  BY <1>2, <1>3, RowsStay DEF WorkedThrough, TasksOf, HasRow
<1>. QED BY <1>1, <1>4

\* Only a commit credits a block.
LEMMA OnlyCommitsCredit ==
  ASSUME IInv, [Next]_vars
  PROVE  \/ UNCHANGED <<completed, xp>>
         \/ \E r \in Requests : TxCommit(r)
BY DEF Next, Serve, Arrive, CheckLock, ReadStatus, WriteSubmit, WriteReveal,
       Reevaluate, TxRead, TxWriteBlock, Fail, vars

LEMMA CompletedWorkedKept ==
  ASSUME IInv, CreditingWorked, CompletedWorked, [Next]_vars
  PROVE  CompletedWorked'
<1> SUFFICES ASSUME NEW u \in Users, NEW b \in completed'[u]
             PROVE  WorkedThrough(u, b)'
  BY DEF CompletedWorked
<1>1. WorkedThrough(u, b)
  <2>1. CASE UNCHANGED <<completed, xp>>
    BY <2>1 DEF CompletedWorked
  <2>2. ASSUME NEW r \in Requests, TxCommit(r) PROVE WorkedThrough(u, b)
    BY <2>2 DEF TxCommit, CompletedWorked, CreditingWorked, Crediting,
                IInv, TypeOK
  <2>. QED BY <2>1, <2>2, OnlyCommitsCredit
<1>2. \A t \in TasksOf(b) : HasRow(u, t)'
  BY <1>1, RowsStay DEF WorkedThrough, TasksOf
<1>. QED BY <1>2 DEF WorkedThrough, HasRow, TasksOf

\* Every task of a credited block has a progress row, though the rows are
\* counted calls before the credit and others are written meanwhile.
THEOREM CreditsAreWorkedThrough == Spec => []CreditedBlockWorkedThrough
<1>1. Init => CreditingWorked /\ CompletedWorked
  BY DEF Init, CreditingWorked, CompletedWorked, Crediting
<1>2. Spec => [](IInv /\ CreditingWorked /\ CompletedWorked)
  BY <1>1, InitIInv, StepKeeps, CreditingWorkedKept, CompletedWorkedKept, PTL
     DEF Spec
<1>3. CompletedWorked => CreditedBlockWorkedThrough
  BY DEF CompletedWorked, CreditedBlockWorkedThrough, WorkedThrough, HasRow,
         TasksOf
<1>. QED BY <1>2, <1>3, PTL

-----------------------------------------------------------------------------
(***************************************************************************)
(* What the XP of a level can be                                           *)
(***************************************************************************)
\* No user has more than MaxInFlight requests under way.
FlightInv == \A u \in Users : Cardinality(InFlight(u)) <= MaxInFlight

\* The requests that passed the transaction's guard and will award a block of
\* the level that another one has credited since.
Late(u, l) ==
  {r \in Requests : /\ pc[r] \in {"txWriteBlock", "txCommit"}
                    /\ op[r].user = u
                    /\ LevelOf[BlockOf[op[r].task]] = l
                    /\ BlockOf[op[r].task] \in completed[u]}

\* XpBounded with what the late requests are about to add: the guard lets none
\* through once the block is credited, and when it is, only the other requests
\* of the user can be late.
LateInv ==
  \A u \in Users : \A l \in Levels :
    xp[u][l] + XPPerBlock[l] * Cardinality(Late(u, l))
      <= XPPerBlock[l] * (MaxInFlight * Cardinality(CompletedIn(u, l)))

XpInv == FlightInv /\ LateInv /\ XpCoversCompleted

LEMMA TimesIsMonotone ==
  ASSUME NEW x \in Nat, NEW m \in Nat, NEW n \in Nat, m <= n
  PROVE  x * m <= x * n
<1>1. PICK d \in Nat : n = m + d
  <2>1. n - m \in Nat /\ n = m + (n - m)
    OBVIOUS
  <2>. QED BY <2>1
<1>2. x * n = x * m + x * d
  BY <1>1
<1>3. x * d \in Nat /\ x * m \in Nat
  OBVIOUS
<1>. QED BY <1>2, <1>3

\* One award and the late ones it makes, against one more credited block.
LEMMA OneMoreBlock ==
  ASSUME NEW x \in Nat, NEW m \in Nat \ {0}, NEW c \in Nat, NEW have \in Nat,
         NEW late \in Nat, have <= x * (m * c), late <= m - 1
  PROVE  (have + x) + x * late <= x * (m * (c + 1))
<1>1. x * late <= x * (m - 1)
  BY TimesIsMonotone
<1>2. x * (m - 1) = x * m - x
  OBVIOUS
<1>3. x * (m * (c + 1)) = x * (m * c) + x * m
  OBVIOUS
<1>4. x * late \in Nat /\ x * m \in Nat /\ x * (m * c) \in Nat
  OBVIOUS
<1>. QED BY <1>1, <1>2, <1>3, <1>4

LEMMA FlightFinite ==
  ASSUME NEW u
  PROVE  /\ IsFiniteSet(InFlight(u)) /\ Cardinality(InFlight(u)) \in Nat
         /\ IsFiniteSet(InFlight(u)') /\ Cardinality(InFlight(u)') \in Nat
<1>1. InFlight(u) \subseteq Requests /\ InFlight(u)' \subseteq Requests
  BY DEF InFlight
<1>. QED BY <1>1, FS_Subset, FS_CardinalityType

LEMMA LateFinite ==
  ASSUME NEW u, NEW l
  PROVE  /\ IsFiniteSet(Late(u, l)) /\ Cardinality(Late(u, l)) \in Nat
         /\ IsFiniteSet(Late(u, l)') /\ Cardinality(Late(u, l)') \in Nat
<1>1. Late(u, l) \subseteq Requests /\ Late(u, l)' \subseteq Requests
  BY DEF Late
<1>. QED BY <1>1, FS_Subset, FS_CardinalityType

LEMMA CompletedFinite ==
  ASSUME NEW u, NEW l
  PROVE  IsFiniteSet(CompletedIn(u, l)) /\ Cardinality(CompletedIn(u, l)) \in Nat
<1>1. CompletedIn(u, l) \subseteq Blocks
  BY DEF CompletedIn, BlocksOf
<1>. QED BY <1>1, FS_Subset, FS_CardinalityType

LEMMA FlightKept == ASSUME IInv, FlightInv, [Next]_vars PROVE FlightInv'
<1> SUFFICES ASSUME NEW u \in Users
             PROVE  Cardinality(InFlight(u)') <= MaxInFlight
  BY DEF FlightInv
<1> USE DEF IInv, TypeOK
<1>1. ASSUME InFlight(u)' \subseteq InFlight(u)
      PROVE  Cardinality(InFlight(u)') <= MaxInFlight
  <2>1. Cardinality(InFlight(u)') <= Cardinality(InFlight(u))
    BY <1>1, FlightFinite, FS_Subset
  <2>. QED BY <2>1, FlightFinite DEF FlightInv
<1>2. ASSUME NEW r \in Requests, Arrive(r)
      PROVE  Cardinality(InFlight(u)') <= MaxInFlight
  <2>1. PICK o \in Operations :
          /\ Cardinality(InFlight(o.user)) < MaxInFlight
          /\ op' = [op EXCEPT ![r] = o]
    BY <1>2 DEF Arrive
  <2>2. CASE o.user = u
    <3>1. r \notin InFlight(u) /\ InFlight(u)' = InFlight(u) \cup {r}
      BY <1>2, <2>1, <2>2 DEF Arrive, Goto, InFlight
    <3>2. Cardinality(InFlight(u)') = Cardinality(InFlight(u)) + 1
      BY <3>1, FlightFinite, FS_AddElement
    <3>. QED BY <2>1, <2>2, <3>2, FlightFinite
  <2>3. CASE o.user # u
    <3>1. InFlight(u)' \subseteq InFlight(u)
      BY <1>2, <2>1, <2>3 DEF Arrive, Goto, InFlight
    <3>. QED BY <1>1, <3>1
  <2>. QED BY <2>2, <2>3
<1>3. ASSUME NEW r \in Requests, Serve(r) \/ Fail(r)
      PROVE  InFlight(u)' \subseteq InFlight(u)
  BY <1>3 DEF Serve, CheckLock, ReadStatus, WriteSubmit, WriteReveal,
     Reevaluate, TxRead, TxWriteBlock, TxCommit, Fail, Answer, Goto, InFlight
<1>4. CASE UNCHANGED vars
  BY <1>1, <1>4 DEF vars, InFlight
<1>. QED BY <1>1, <1>2, <1>3, <1>4 DEF Next

\* Without a commit, nobody becomes late: the guard of the transaction lets no
\* request through for a block that is credited.
LEMMA NobodyGetsLate ==
  ASSUME IInv, [Next]_vars, UNCHANGED <<completed, xp>>, NEW u, NEW l
  PROVE  Late(u, l)' \subseteq Late(u, l)
<1> SUFFICES ASSUME NEW q \in Late(u, l)' PROVE q \in Late(u, l)
  OBVIOUS
<1> USE DEF IInv, TypeOK, Late
<1>1. q \in Requests /\ op'[q] = op[q] /\ (Crediting(q) \/ Reevaluate(q))
  BY CreditingComesFrom DEF Crediting
<1>2. pc'[q] \in {"txWriteBlock", "txCommit"}
  OBVIOUS
<1>3. pc[q] \in {"txWriteBlock", "txCommit"} \/ TxRead(q)
  <2>1. ASSUME NEW r \in Requests, Arrive(r) \/ Serve(r) \/ Fail(r), q # r
        PROVE  pc'[q] = pc[q]
    BY <2>1 DEF Arrive, Serve, CheckLock, ReadStatus, WriteSubmit, WriteReveal,
                Reevaluate, TxRead, TxWriteBlock, TxCommit, Fail, Answer, Goto
  <2>2. ASSUME Arrive(q) \/ CheckLock(q) \/ ReadStatus(q) \/ WriteSubmit(q)
               \/ WriteReveal(q) \/ Reevaluate(q) \/ TxCommit(q) \/ Fail(q)
        PROVE  FALSE
    BY <1>1, <1>2, <2>2 DEF Arrive, CheckLock, ReadStatus, WriteSubmit,
       WriteReveal, Reevaluate, TxCommit, Fail, Answer, Goto
  <2>3. CASE TxWriteBlock(q)
    BY <2>3 DEF TxWriteBlock
  <2>4. CASE UNCHANGED vars
    BY <1>2, <2>4 DEF vars
  <2>. QED BY <1>1, <1>2, <2>1, <2>2, <2>3, <2>4 DEF Next, Serve
<1>4. ASSUME TxRead(q) PROVE BlockOf[op[q].task] \notin completed[op[q].user]
  BY <1>1, <1>2, <1>4 DEF TxRead, Answer, Goto
<1>. QED BY <1>1, <1>3, <1>4

\* What the rest of the table's rows have to do with a commit: nothing.
LEMMA CommitElsewhere ==
  ASSUME IInv, NEW r \in Requests, TxCommit(r), NEW v \in Users, NEW m \in Levels,
         v # op[r].user \/ m # LevelOf[BlockOf[op[r].task]]
  PROVE  /\ xp'[v][m] = xp[v][m]
         /\ CompletedIn(v, m)' = CompletedIn(v, m)
         /\ Late(v, m)' \subseteq Late(v, m)
<1> USE DEF IInv, TypeOK
<1>1. op[r].user \in Users /\ BlockOf[op[r].task] \in Blocks
      /\ LevelOf[BlockOf[op[r].task]] \in Levels
  BY OperationFields DEF RequestsKnown, TxCommit
<1>2. xp'[v][m] = xp[v][m]
  BY <1>1 DEF TxCommit
<1>3. CompletedIn(v, m)' = CompletedIn(v, m)
  BY <1>1 DEF TxCommit, CompletedIn, BlocksOf
<1>4. ASSUME NEW q \in Late(v, m)' PROVE q \in Late(v, m)
  <2>1. q # r /\ q \in Requests /\ pc'[q] = pc[q] /\ op'[q] = op[q]
    BY DEF TxCommit, Answer, Goto, Late
  <2>2. BlockOf[op[q].task] \in completed'[v] /\ LevelOf[BlockOf[op[q].task]] = m
    BY <2>1 DEF Late
  <2>3. BlockOf[op[q].task] \in completed[v]
    BY <1>1, <2>2 DEF TxCommit
  <2>. QED BY <2>1, <2>3 DEF Late
<1>. QED BY <1>2, <1>3, <1>4

\* The award of a block credited already is one of a late request.
LEMMA LateCommit ==
  ASSUME IInv, NEW r \in Requests, TxCommit(r), NEW u, u = op[r].user,
         NEW l, l = LevelOf[BlockOf[op[r].task]],
         BlockOf[op[r].task] \in completed[u]
  PROVE  /\ CompletedIn(u, l)' = CompletedIn(u, l)
         /\ Cardinality(Late(u, l)') = Cardinality(Late(u, l)) - 1
<1> USE DEF IInv, TypeOK
<1>1. u \in Users
  BY OperationFields DEF RequestsKnown, TxCommit
<1>2. completed' = completed
  BY <1>1 DEF TxCommit
<1>3. r \in Late(u, l)
  BY DEF TxCommit, Late
<1>4. Late(u, l)' = Late(u, l) \ {r}
  BY <1>2 DEF TxCommit, Answer, Goto, Late
<1>5. IsFiniteSet(Late(u, l))
  BY LateFinite
<1>6. Cardinality(Late(u, l) \ {r}) = Cardinality(Late(u, l)) - 1
  BY <1>3, <1>5, FS_RemoveElement
<1>. QED BY <1>2, <1>4, <1>6 DEF CompletedIn

\* The first award of a block makes late at most the other requests of the user.
LEMMA FirstCommit ==
  ASSUME IInv, FlightInv, NEW r \in Requests, TxCommit(r), NEW u, u = op[r].user,
         NEW l, l = LevelOf[BlockOf[op[r].task]],
         BlockOf[op[r].task] \notin completed[u]
  PROVE  /\ Cardinality(CompletedIn(u, l)') = Cardinality(CompletedIn(u, l)) + 1
         /\ Cardinality(Late(u, l)') <= MaxInFlight - 1
<1> DEFINE b == BlockOf[op[r].task]
<1> USE DEF IInv, TypeOK
<1>1. u \in Users /\ b \in Blocks
  BY OperationFields DEF RequestsKnown, TxCommit
<1>2. completed'[u] = completed[u] \cup {b}
  BY <1>1 DEF TxCommit
<1>3. /\ b \notin CompletedIn(u, l)
      /\ CompletedIn(u, l)' = CompletedIn(u, l) \cup {b}
  BY <1>1, <1>2 DEF CompletedIn, BlocksOf
<1>4. Cardinality(CompletedIn(u, l)') = Cardinality(CompletedIn(u, l)) + 1
  <2>1. IsFiniteSet(CompletedIn(u, l))
    BY CompletedFinite
  <2>2. Cardinality(CompletedIn(u, l) \cup {b}) = Cardinality(CompletedIn(u, l)) + 1
    BY <1>3, <2>1, FS_AddElement
  <2>. QED BY <1>3, <2>2
<1>5. r \in InFlight(u)
  BY DEF TxCommit, InFlight
<1>6. Late(u, l)' \subseteq InFlight(u) \ {r}
  BY DEF TxCommit, Answer, Goto, Late, InFlight
<1>7. /\ IsFiniteSet(InFlight(u) \ {r})
      /\ Cardinality(InFlight(u) \ {r}) = Cardinality(InFlight(u)) - 1
  <2>1. IsFiniteSet(InFlight(u))
    BY FlightFinite
  <2>. QED BY <1>5, <2>1, FS_RemoveElement
<1>8. Cardinality(Late(u, l)') <= Cardinality(InFlight(u) \ {r})
  BY <1>6, <1>7, FS_Subset
<1>. QED BY <1>1, <1>4, <1>7, <1>8, FlightFinite, LateFinite DEF FlightInv

LEMMA XpKept == ASSUME IInv, XpInv, [Next]_vars PROVE XpInv'
<1> SUFFICES ASSUME NEW v \in Users, NEW m \in Levels
             PROVE  /\ xp'[v][m] + XPPerBlock[m] * Cardinality(Late(v, m)')
                         <= XPPerBlock[m] * (MaxInFlight * Cardinality(CompletedIn(v, m)'))
                    /\ xp'[v][m] >= XPPerBlock[m] * Cardinality(CompletedIn(v, m)')
  BY FlightKept DEF XpInv, LateInv, XpCoversCompleted
<1> DEFINE x == XPPerBlock[m]
           late == Cardinality(Late(v, m))
           lateNext == Cardinality(Late(v, m)')
           c == Cardinality(CompletedIn(v, m))
           cNext == Cardinality(CompletedIn(v, m)')
<1>1. x \in Nat /\ late \in Nat /\ lateNext \in Nat /\ c \in Nat
      /\ xp[v][m] \in Nat /\ MaxInFlight \in Nat \ {0}
  BY LateFinite, CompletedFinite DEF IInv, TypeOK
<1>2. xp[v][m] + x * late <= x * (MaxInFlight * c) /\ xp[v][m] >= x * c
  BY DEF XpInv, LateInv, XpCoversCompleted
<1>3. ASSUME xp'[v][m] = xp[v][m], cNext = c, Late(v, m)' \subseteq Late(v, m)
      PROVE  /\ xp'[v][m] + x * lateNext <= x * (MaxInFlight * cNext)
             /\ xp'[v][m] >= x * cNext
  <2>1. lateNext <= late
    <3>1. IsFiniteSet(Late(v, m))
      BY LateFinite
    <3>. QED BY <1>3, <3>1, FS_Subset
  <2>2. x * lateNext <= x * late
    BY <1>1, <2>1, TimesIsMonotone
  <2>3. x * lateNext \in Nat /\ x * late \in Nat /\ x * (MaxInFlight * c) \in Nat
    BY <1>1
  <2>. QED BY <1>1, <1>2, <1>3, <2>2, <2>3
<1>4. CASE UNCHANGED <<completed, xp>>
  <2>1. CompletedIn(v, m)' = CompletedIn(v, m) /\ xp'[v][m] = xp[v][m]
    BY <1>4 DEF CompletedIn
  <2>2. Late(v, m)' \subseteq Late(v, m)
    BY <1>4, NobodyGetsLate
  <2>. QED BY <1>3, <2>1, <2>2
<1>5. ASSUME NEW r \in Requests, TxCommit(r)
      PROVE  /\ xp'[v][m] + x * lateNext <= x * (MaxInFlight * cNext)
             /\ xp'[v][m] >= x * cNext
  <2>1. CASE v # op[r].user \/ m # LevelOf[BlockOf[op[r].task]]
    <3>1. /\ xp'[v][m] = xp[v][m]
          /\ CompletedIn(v, m)' = CompletedIn(v, m)
          /\ Late(v, m)' \subseteq Late(v, m)
      BY <1>5, <2>1, CommitElsewhere
    <3>. QED BY <1>3, <3>1
  <2>2. CASE v = op[r].user /\ m = LevelOf[BlockOf[op[r].task]]
    <3>1. xp'[v][m] = xp[v][m] + x
      BY <1>5, <2>2 DEF TxCommit, IInv, TypeOK
    <3>2. CASE BlockOf[op[r].task] \in completed[v]
      <4>1. cNext = c /\ lateNext = late - 1
        BY <1>5, <2>2, <3>2, LateCommit
      <4>2. x * lateNext = x * late - x
        BY <1>1, <4>1
      <4>3. x * lateNext \in Nat /\ x * late \in Nat /\ x * c \in Nat
            /\ x * (MaxInFlight * c) \in Nat
        BY <1>1
      <4>. QED BY <1>1, <1>2, <3>1, <4>1, <4>2, <4>3
    <3>3. CASE BlockOf[op[r].task] \notin completed[v]
      <4>1. cNext = c + 1 /\ lateNext <= MaxInFlight - 1
        BY <1>5, <2>2, <3>3, FirstCommit DEF XpInv
      <4>2. xp[v][m] <= x * (MaxInFlight * c)
        <5>1. x * late \in Nat /\ x * (MaxInFlight * c) \in Nat
          BY <1>1
        <5>. QED BY <1>1, <1>2, <5>1
      <4>3. xp'[v][m] + x * lateNext <= x * (MaxInFlight * cNext)
        BY <1>1, <3>1, <4>1, <4>2, OneMoreBlock
      <4>4. x * cNext = x * c + x /\ x * c \in Nat
        BY <1>1, <4>1
      <4>. QED BY <1>1, <1>2, <3>1, <4>3, <4>4
    <3>. QED BY <3>2, <3>3
  <2>. QED BY <2>1, <2>2
<1>. QED BY <1>4, <1>5, OnlyCommitsCredit, <1>3

LEMMA InitXp == Init => XpInv
<1> SUFFICES ASSUME Init PROVE XpInv
  OBVIOUS
<1>1. ASSUME NEW u \in Users PROVE InFlight(u) = {}
  BY DEF Init, InFlight
<1>2. ASSUME NEW u \in Users, NEW l \in Levels
      PROVE  Late(u, l) = {} /\ CompletedIn(u, l) = {} /\ xp[u][l] = 0
  BY DEF Init, Late, CompletedIn
<1>3. ASSUME NEW l \in Levels, NEW n \in Nat
      PROVE  XPPerBlock[l] * 0 = 0 /\ n * 0 = 0
  OBVIOUS
<1>4. Cardinality({}) = 0
  BY FS_EmptySet
<1>5. FlightInv
  <2>1. \A u \in Users : Cardinality(InFlight(u)) = 0
    BY <1>1, <1>4
  <2>. QED BY <2>1 DEF FlightInv
<1>6. ASSUME NEW u \in Users, NEW l \in Levels
      PROVE  /\ xp[u][l] = 0
             /\ Cardinality(Late(u, l)) = 0
             /\ Cardinality(CompletedIn(u, l)) = 0
  BY <1>2, <1>4
<1>7. LateInv /\ XpCoversCompleted
  BY <1>3, <1>6 DEF LateInv, XpCoversCompleted
<1>. QED BY <1>5, <1>7 DEF XpInv

\* What transactions under way are about to pay is accounted for, from which the
\* next two follow (the increment in reevaluateBlockCompletion).
THEOREM XpInvariance == Spec => [](IInv /\ XpInv)
BY InitIInv, StepKeeps, InitXp, XpKept, PTL DEF Spec

\* Increments of concurrent transactions add up: every credited block has paid.
THEOREM CreditsPay == Spec => []XpCoversCompleted
BY XpInvariance, PTL DEF XpInv

\* The guard of the transaction bounds what overlapping requests award: one
\* award of a block for each request a user can have under way.
THEOREM OverlapBoundsXp == Spec => []XpBounded
<1>1. ASSUME IInv, XpInv, NEW u \in Users, NEW l \in Levels
      PROVE  xp[u][l] <= XPPerBlock[l] * MaxInFlight * Cardinality(CompletedIn(u, l))
  <2>1. /\ XPPerBlock[l] \in Nat /\ MaxInFlight \in Nat
        /\ Cardinality(Late(u, l)) \in Nat
        /\ Cardinality(CompletedIn(u, l)) \in Nat
        /\ xp[u][l] \in Nat
    BY <1>1, LateFinite, CompletedFinite DEF IInv, TypeOK
  <2>2. xp[u][l] + XPPerBlock[l] * Cardinality(Late(u, l))
          <= XPPerBlock[l] * (MaxInFlight * Cardinality(CompletedIn(u, l)))
    BY <1>1 DEF XpInv, LateInv
  <2>3. XPPerBlock[l] * Cardinality(Late(u, l)) \in Nat
    BY <2>1
  <2>4. XPPerBlock[l] * (MaxInFlight * Cardinality(CompletedIn(u, l)))
          = XPPerBlock[l] * MaxInFlight * Cardinality(CompletedIn(u, l))
    BY <2>1
  <2>. QED BY <2>1, <2>2, <2>3, <2>4
<1>2. IInv /\ XpInv => XpBounded
  BY <1>1 DEF XpBounded
<1>. QED BY <1>2, XpInvariance, PTL

-----------------------------------------------------------------------------
(***************************************************************************)
(* One request of a user at a time                                         *)
(***************************************************************************)
\* XP is then worth what the credited blocks are, for ever ("awarded EXACTLY
\* ONCE"); study_double_xp shows that two at a time break it.
THEOREM SerialXpIsExact ==
  ASSUME MaxInFlight = 1
  PROVE  Spec => []XpExact
<1>1. ASSUME NEW u \in Users, NEW l \in Levels, IInv, XpCoversCompleted, XpBounded
      PROVE  xp[u][l] = XPPerBlock[l] * Cardinality(CompletedIn(u, l))
  <2>1. /\ XPPerBlock[l] \in Nat /\ Cardinality(CompletedIn(u, l)) \in Nat
        /\ xp[u][l] \in Nat
    BY <1>1, CompletedFinite DEF IInv, TypeOK
  <2>2. XPPerBlock[l] * 1 = XPPerBlock[l]
    BY <2>1
  <2>3. xp[u][l] <= XPPerBlock[l] * Cardinality(CompletedIn(u, l))
    BY <1>1, <2>2 DEF XpBounded
  <2>4. xp[u][l] >= XPPerBlock[l] * Cardinality(CompletedIn(u, l))
    BY <1>1 DEF XpCoversCompleted
  <2>5. XPPerBlock[l] * Cardinality(CompletedIn(u, l)) \in Nat
    BY <2>1
  <2>. QED BY <2>1, <2>3, <2>4, <2>5
<1>2. IInv /\ XpCoversCompleted /\ XpBounded => XpExact
  BY <1>1 DEF XpExact
<1>. QED BY <1>2, Invariance, CreditsPay, OverlapBoundsXp, PTL

Alone ==
  \A q, r \in Requests :
    (pc[q] # "idle" /\ pc[r] # "idle" /\ op[q].user = op[r].user) => q = r

\* What a request read, and what it found of its block, is still so.
StillSo ==
  \A r \in Requests :
    LET u == op[r].user
        b == BlockOf[op[r].task]
    IN /\ pc[r] = "writeStatus" => seen[r] = taskStatus[u][op[r].task]
       /\ Crediting(r) => IsBlockComplete(b, taskStatus[u])
       /\ pc[r] \in {"txWriteBlock", "txCommit"} => b \notin completed[u]

LEMMA OneInFlightIsAlone ==
  ASSUME MaxInFlight = 1, IInv, FlightInv PROVE Alone
<1> SUFFICES ASSUME NEW q \in Requests, NEW r \in Requests,
                    pc[q] # "idle", pc[r] # "idle", op[q].user = op[r].user, q # r
             PROVE  FALSE
  BY DEF Alone
<1> DEFINE u == op[q].user
           S == InFlight(u)
<1>1. u \in Users /\ q \in S /\ r \in S
  BY OperationFields DEF IInv, RequestsKnown, InFlight
<1>2. IsFiniteSet(S) /\ Cardinality(S) \in Nat /\ Cardinality(S) <= 1
  BY <1>1, FlightFinite DEF FlightInv
<1>3. IsFiniteSet(S \ {q}) /\ Cardinality(S \ {q}) = Cardinality(S) - 1
  BY <1>1, <1>2, FS_RemoveElement
<1>4. Cardinality(S \ {q}) = 0
  BY <1>2, <1>3, FS_CardinalityType
<1>5. S \ {q} = {}
  BY <1>3, <1>4, FS_EmptySet
<1>. QED BY <1>1, <1>5

\* Nobody else touches the rows of a user whose request is under way.
LEMMA OthersRowsStay ==
  ASSUME IInv, Alone, NEW r \in Requests, Serve(r), NEW q \in Requests, q # r,
         pc[q] # "idle"
  PROVE  /\ pc'[q] = pc[q] /\ op'[q] = op[q] /\ seen'[q] = seen[q]
         /\ taskStatus'[op[q].user] = taskStatus[op[q].user]
         /\ completed'[op[q].user] = completed[op[q].user]
<1> USE DEF IInv, TypeOK
<1>1. pc[r] # "idle"
  BY DEF Serve, CheckLock, ReadStatus, WriteSubmit, WriteReveal, Reevaluate,
         TxRead, TxWriteBlock, TxCommit
<1>2. op[q].user # op[r].user
  BY <1>1 DEF Alone
<1>3. op[q].user \in Users /\ op[r].user \in Users
  BY <1>1, OperationFields DEF RequestsKnown
<1>4. pc'[q] = pc[q] /\ op'[q] = op[q] /\ seen'[q] = seen[q]
  BY DEF Serve, CheckLock, ReadStatus, WriteSubmit, WriteReveal, Reevaluate,
         TxRead, TxWriteBlock, TxCommit, Answer, Goto
<1>5. /\ taskStatus'[op[q].user] = taskStatus[op[q].user]
      /\ completed'[op[q].user] = completed[op[q].user]
  BY <1>2, <1>3 DEF Serve, CheckLock, ReadStatus, WriteSubmit, WriteReveal,
     Reevaluate, TxRead, TxWriteBlock, TxCommit
<1>. QED BY <1>4, <1>5

LEMMA StillSoKept ==
  ASSUME IInv, Alone, StillSo, [Next]_vars PROVE StillSo'
<1> DEFINE So(q) ==
      LET u == op'[q].user
          b == BlockOf[op'[q].task]
      IN /\ pc'[q] = "writeStatus" => seen'[q] = taskStatus'[u][op'[q].task]
         /\ pc'[q] \in {"txRead", "txWriteBlock", "txCommit"} =>
              IsBlockComplete(b, taskStatus'[u])
         /\ pc'[q] \in {"txWriteBlock", "txCommit"} => b \notin completed'[u]
<1> SUFFICES ASSUME NEW q \in Requests PROVE So(q)
  BY DEF StillSo, Crediting
<1> USE DEF IInv, TypeOK
<1>1. ASSUME UNCHANGED tables, pc'[q] = pc[q], op'[q] = op[q], seen'[q] = seen[q]
      PROVE  So(q)
  BY <1>1 DEF StillSo, Crediting
<1>2. ASSUME pc'[q] \in {"idle", "checkLock", "readStatus", "reevaluate"}
      PROVE  So(q)
  BY <1>2
<1>3. ASSUME NEW r \in Requests, Arrive(r) \/ Fail(r) PROVE So(q)
  <2>1. CASE q = r
    BY <1>2, <1>3, <2>1 DEF Arrive, Fail, Answer, Goto
  <2>2. CASE q # r
    BY <1>1, <1>3, <2>2 DEF Arrive, Fail, Answer, Goto
  <2>. QED BY <2>1, <2>2
<1>4. ASSUME NEW r \in Requests, Serve(r), q # r PROVE So(q)
  <2>1. CASE pc[q] = "idle"
    <3>1. pc'[q] = "idle"
      BY <1>4, <2>1 DEF Serve, CheckLock, ReadStatus, WriteSubmit, WriteReveal,
         Reevaluate, TxRead, TxWriteBlock, TxCommit, Answer, Goto
    <3>. QED BY <1>2, <3>1
  <2>2. CASE pc[q] # "idle"
    <3>1. /\ pc'[q] = pc[q] /\ op'[q] = op[q] /\ seen'[q] = seen[q]
          /\ taskStatus'[op[q].user] = taskStatus[op[q].user]
          /\ completed'[op[q].user] = completed[op[q].user]
      BY <1>4, <2>2, OthersRowsStay
    <3>. QED BY <3>1 DEF StillSo, Crediting
  <2>. QED BY <2>1, <2>2
<1>5. ASSUME CheckLock(q) \/ WriteSubmit(q) \/ WriteReveal(q) \/ TxCommit(q)
      PROVE  So(q)
  BY <1>2, <1>5 DEF CheckLock, WriteSubmit, WriteReveal, TxCommit, Answer, Goto
<1>6. ASSUME ReadStatus(q) PROVE So(q)
  BY <1>6 DEF ReadStatus, Goto
<1>7. ASSUME Reevaluate(q) PROVE So(q)
  BY <1>2, <1>7 DEF Reevaluate, Answer, Goto
<1>8. ASSUME TxRead(q) PROVE So(q)
  BY <1>2, <1>8 DEF TxRead, Answer, Goto, StillSo, Crediting
<1>9. ASSUME TxWriteBlock(q) PROVE So(q)
  BY <1>9 DEF TxWriteBlock, Goto, StillSo, Crediting
<1>10. CASE UNCHANGED vars
  BY <1>1, <1>10 DEF vars
<1>. QED BY <1>3, <1>4, <1>5, <1>6, <1>7, <1>8, <1>9, <1>10 DEF Next, Serve

-----------------------------------------------------------------------------
(***************************************************************************)
(* The refinement                                                          *)
(***************************************************************************)
LEMMA ShownWrite ==
  ASSUME IInv, NEW u \in Users, NEW t \in Tasks, NEW s \in TaskStatuses,
         taskStatus' = [taskStatus EXCEPT ![u][t] = s]
  PROVE  /\ ShownStatus' = [ShownStatus EXCEPT ![u][t] = s]
         /\ s = ShownStatus[u][t] => ShownStatus' = ShownStatus
<1>1. taskStatus \in [Users -> [Tasks -> RowStatuses]] /\ s # "NONE"
  BY DEF IInv, TypeOK, TaskStatuses
<1>2. ASSUME NEW v \in Users, NEW k \in Tasks
      PROVE  ShownStatus'[v][k] = IF v = u /\ k = t THEN s ELSE ShownStatus[v][k]
  BY <1>1 DEF ShownStatus
<1>3. /\ ShownStatus' = [v \in Users |-> [k \in Tasks |-> ShownStatus'[v][k]]]
      /\ ShownStatus = [v \in Users |-> [k \in Tasks |-> ShownStatus[v][k]]]
  BY DEF ShownStatus
<1>4. ShownStatus' = [ShownStatus EXCEPT ![u][t] = s]
  BY <1>2, <1>3
<1>5. s = ShownStatus[u][t] => ShownStatus' = ShownStatus
  BY <1>2, <1>3
<1>. QED BY <1>4, <1>5

LEMMA OpenIsUnlocked ==
  ASSUME NEW b, NEW done, Open(b, done) PROVE Promise!Unlocked(b, done)
BY DEF Open, Promise!Unlocked, Promise!IsPredecessor, Promise!Precedes, Precedes

\* Either upsert of a status that is not the one shown resolves the task.
LEMMA UpsertResolves ==
  ASSUME IInv, NEW r \in Requests, pc[r] = "writeStatus",
         NEW s \in TaskStatuses,
         LET shown == ShownStatus[op[r].user][op[r].task]
         IN s = shown \/ (s \in Resolved /\ shown # "COMPLETED"),
         taskStatus' = [taskStatus EXCEPT ![op[r].user][op[r].task] = s],
         UNCHANGED <<completed, xp>>
  PROVE  [Promise!Next]_Promise!vars
<1> DEFINE u == op[r].user
           t == op[r].task
<1>1. u \in Users /\ t \in Tasks
  BY OperationFields DEF IInv, RequestsKnown
<1>2. CASE s = ShownStatus[u][t]
  BY <1>1, <1>2, ShownWrite DEF Promise!vars
<1>3. CASE s \in Resolved /\ ShownStatus[u][t] # "COMPLETED"
  <2>1. Promise!Unlocked(BlockOf[t], completed[u])
    BY OpenIsUnlocked DEF IInv, LockCheckHolds, PastLock, Calls
  <2>2. Promise!Resolve(u, t, s)
    BY <1>1, <1>3, <2>1, ShownWrite DEF Promise!Resolve
  <2>. QED BY <1>1, <1>3, <2>2 DEF Promise!Next, Promise!Resolved, Resolved
<1>. QED BY <1>2, <1>3

LEMMA WriteSubmitResolves ==
  ASSUME IInv, StillSo, NEW r \in Requests, WriteSubmit(r)
  PROVE  [Promise!Next]_Promise!vars
<1> DEFINE u == op[r].user
           t == op[r].task
           s == IF taskStatus[u][t] = "NONE" THEN CreatedStatus(op[r].correct)
                ELSE SubmitStatus(op[r].correct, seen[r])
<1>1. u \in Users /\ t \in Tasks /\ op[r].correct \in BOOLEAN
  BY OperationFields DEF IInv, RequestsKnown, WriteSubmit
<1>2. seen[r] = taskStatus[u][t] /\ taskStatus[u][t] \in RowStatuses
  BY <1>1 DEF StillSo, WriteSubmit, IInv, TypeOK
<1>3. ShownStatus[u][t] =
        IF taskStatus[u][t] = "NONE" THEN "NOT_STARTED" ELSE taskStatus[u][t]
  BY <1>1 DEF ShownStatus
<1>4. /\ s \in TaskStatuses
      /\ s = ShownStatus[u][t] \/ (s \in Resolved /\ ShownStatus[u][t] # "COMPLETED")
  BY <1>1, <1>2, <1>3
     DEF CreatedStatus, SubmitStatus, TaskStatuses, RowStatuses, Resolved
<1>5. taskStatus' = [taskStatus EXCEPT ![u][t] = s]
  BY <1>1 DEF WriteSubmit, IInv, TypeOK
<1>6. pc[r] = "writeStatus" /\ UNCHANGED <<completed, xp>>
  BY DEF WriteSubmit
<1> HIDE DEF s
<1>. QED BY <1>4, <1>5, <1>6, UpsertResolves

LEMMA WriteRevealResolves ==
  ASSUME IInv, StillSo, NEW r \in Requests, WriteReveal(r)
  PROVE  [Promise!Next]_Promise!vars
<1> DEFINE u == op[r].user
           t == op[r].task
           s == RevealStatus(seen[r])
<1>1. u \in Users /\ t \in Tasks
  BY OperationFields DEF IInv, RequestsKnown, WriteReveal
<1>2. seen[r] = taskStatus[u][t]
  BY <1>1 DEF StillSo, WriteReveal
<1>3. ShownStatus[u][t] =
        IF taskStatus[u][t] = "NONE" THEN "NOT_STARTED" ELSE taskStatus[u][t]
  BY <1>1 DEF ShownStatus
<1>4. /\ s \in TaskStatuses
      /\ s = ShownStatus[u][t] \/ (s \in Resolved /\ ShownStatus[u][t] # "COMPLETED")
  BY <1>2, <1>3 DEF RevealStatus, TaskStatuses, Resolved
<1>5. /\ taskStatus' = [taskStatus EXCEPT ![u][t] = s]
      /\ pc[r] = "writeStatus" /\ UNCHANGED <<completed, xp>>
  BY DEF WriteReveal
<1> HIDE DEF s
<1>. QED BY <1>4, <1>5, UpsertResolves

LEMMA TxCommitCredits ==
  ASSUME IInv, StillSo, NEW r \in Requests, TxCommit(r)
  PROVE  Promise!Next
<1> DEFINE u == op[r].user
           b == BlockOf[op[r].task]
<1>1. u \in Users /\ b \in Blocks
  BY OperationFields DEF IInv, RequestsKnown, TxCommit
<1>2. b \notin completed[u] /\ IsBlockComplete(b, taskStatus[u])
  BY DEF StillSo, Crediting, TxCommit
<1>3. Promise!Unlocked(b, completed[u])
  BY OpenIsUnlocked DEF IInv, LockCheckHolds, PastLock, Calls, TxCommit
<1>4. Promise!IsBlockComplete(b, ShownStatus[u])
  BY <1>1, <1>2 DEF IsBlockComplete, Promise!IsBlockComplete, TasksOf, Resolved,
     Promise!TasksOf, Promise!Resolved, ShownStatus
<1>5. ShownStatus' = ShownStatus
  BY DEF TxCommit, ShownStatus
<1>6. /\ completed' = [completed EXCEPT ![u] = @ \cup {b}]
      /\ xp' = [xp EXCEPT ![u][LevelOf[b]] = @ + XPPerBlock[LevelOf[b]]]
  BY DEF TxCommit
<1>7. Promise!Credit(u, b)
  BY <1>2, <1>3, <1>4, <1>5, <1>6 DEF Promise!Credit
<1>. QED BY <1>1, <1>7 DEF Promise!Next

LEMMA StepRefines ==
  ASSUME IInv, StillSo, [Next]_vars PROVE [Promise!Next]_Promise!vars
<1>1. ASSUME UNCHANGED tables PROVE [Promise!Next]_Promise!vars
  BY <1>1 DEF Promise!vars, ShownStatus
<1>2. ASSUME NEW r \in Requests,
             \/ Arrive(r) \/ CheckLock(r) \/ ReadStatus(r) \/ Reevaluate(r)
             \/ TxRead(r) \/ TxWriteBlock(r) \/ Fail(r)
      PROVE  UNCHANGED tables
  BY <1>2 DEF Arrive, CheckLock, ReadStatus, Reevaluate, TxRead, TxWriteBlock, Fail
<1>3. CASE UNCHANGED vars
  BY <1>1, <1>3 DEF vars
<1>. QED BY <1>1, <1>2, <1>3, WriteSubmitResolves, WriteRevealResolves,
            TxCommitCredits DEF Next, Serve

\* Serving one request of a user at a time, with whatever failures and however
\* many users, the handlers implement Curriculum.tla: no COMPLETED task is taken
\* back, and a block is credited once, after its tasks are resolved.
THEOREM SerialKeepsPromise ==
  ASSUME MaxInFlight = 1
  PROVE  Spec => KeepsPromise
<1>1. Init => Promise!Init /\ StillSo
  BY DEF Init, Promise!Init, ShownStatus, StillSo, Crediting
<1>2. IInv /\ XpInv => Alone
  BY OneInFlightIsAlone DEF XpInv
<1>3. IInv /\ Alone /\ StillSo /\ [Next]_vars => StillSo'
  BY StillSoKept
<1>4. Spec => [](IInv /\ StillSo)
  BY <1>1, <1>2, <1>3, XpInvariance, PTL DEF Spec
<1>5. IInv /\ StillSo /\ [Next]_vars => [Promise!Next]_Promise!vars
  BY StepRefines
<1>6. Spec => Promise!Spec
  BY <1>1, <1>4, <1>5, PTL DEF Spec, Promise!Spec
<1>. QED BY <1>6 DEF KeepsPromise
=============================================================================
