---------------------------- MODULE Progression ----------------------------
(***************************************************************************)
(* The pure progression rules of the study domain                          *)
(* (apps/api/src/study/progression.ts): when a block is open to a learner, *)
(* when it counts as complete, what it is worth.  The curriculum is the    *)
(* seeded content, which nothing changes while the API runs, so it is a    *)
(* set of constants.                                                       *)
(***************************************************************************)
EXTENDS Integers, FiniteSets

CONSTANTS
  Levels,        \* NOVICE, JUNIOR, MIDDLE
  Blocks,        \* theory blocks
  Tasks,         \* exercises
  LevelOf,       \* the level of each block
  OrderOf,       \* the position of each block within its level
  BlockOf,       \* the block of each task
  XPPerBlock     \* what the first completion of a block of a level awards

\* schema.prisma: every block has a level and an order, unique together; every
\* task has a block.  progression.ts: an award is positive.
ASSUME CurriculumAssumption ==
  /\ IsFiniteSet(Blocks)
  /\ IsFiniteSet(Tasks)
  /\ LevelOf \in [Blocks -> Levels]
  /\ OrderOf \in [Blocks -> Nat]
  /\ BlockOf \in [Tasks -> Blocks]
  /\ XPPerBlock \in [Levels -> Nat \ {0}]
  /\ \A b, c \in Blocks :
       (LevelOf[b] = LevelOf[c] /\ OrderOf[b] = OrderOf[c]) => b = c

TasksOf(b) == {t \in Tasks : BlockOf[t] = b}

BlocksOf(l) == {b \in Blocks : LevelOf[b] = l}

TaskStatuses == {"NOT_STARTED", "COMPLETED", "SKIPPED"}

BlockStatuses == {"LOCKED", "IN_PROGRESS", "COMPLETED"}

Resolved == {"COMPLETED", "SKIPPED"}

\* p comes somewhere before b in the level of b.
Precedes(p, b) == LevelOf[p] = LevelOf[b] /\ OrderOf[p] < OrderOf[b]

\* Defect: consecutive order numbers taken for granted.
IsPredecessorByOrder(p, b) ==
  LevelOf[p] = LevelOf[b] /\ OrderOf[p] = OrderOf[b] - 1

\* p is the block the walk visits immediately before b.
IsPredecessor(p, b) ==
  /\ Precedes(p, b)
  /\ \A q \in Blocks : ~ (Precedes(p, q) /\ Precedes(q, b))

Unlocked(b, completed) ==
  \A p \in Blocks : IsPredecessor(p, b) => p \in completed

\* The status the walk gives block b of the curriculum.
BlockStatus(b, completed) ==
  IF b \in completed THEN "COMPLETED"
  ELSE IF Unlocked(b, completed) THEN "IN_PROGRESS"
  ELSE "LOCKED"

-----------------------------------------------------------------------------
\* Defect: only the tasks that have a row are looked at.
IsBlockCompleteByRows(b, statusOf) ==
  \A t \in TasksOf(b) : statusOf[t] \in Resolved \cup {"NONE"}

\* statusOf is the map a caller built from the user's rows, NOT_STARTED for a
\* task without one.  An empty block is not complete.
IsBlockComplete(b, statusOf) ==
  /\ TasksOf(b) # {}
  /\ \A t \in TasksOf(b) : statusOf[t] \in Resolved

CountCompletedTasks(b, statusOf) ==
  Cardinality({t \in TasksOf(b) : statusOf[t] = "COMPLETED"})
=============================================================================
