----------------------------- MODULE Curriculum -----------------------------
(***************************************************************************)
(* What the study domain promises a learner, without requests, rows or     *)
(* transactions (docs/architecture/data-model.md, "Key invariants", and    *)
(* the class comment of study.service.ts): a task of an open block is      *)
(* resolved by a correct answer or by revealing it, a COMPLETED task stays *)
(* COMPLETED, and a block whose tasks are all resolved is credited once,   *)
(* with its level's XP.                                                    *)
(***************************************************************************)
EXTENDS Progression

CONSTANT Users

VARIABLES
  taskStatus,  \* the status each learner sees on each task
  completed,   \* the blocks each learner has been credited with
  xp           \* the XP of each learner, per level

vars == <<taskStatus, completed, xp>>

Init ==
  /\ taskStatus = [u \in Users |-> [t \in Tasks |-> "NOT_STARTED"]]
  /\ completed = [u \in Users |-> {}]
  /\ xp = [u \in Users |-> [l \in Levels |-> 0]]

\* The learner answers a task of an open block correctly (COMPLETED), or
\* reveals one not completed yet (SKIPPED).
Resolve(u, t, s) ==
  /\ Unlocked(BlockOf[t], completed[u])
  /\ taskStatus[u][t] # "COMPLETED"
  /\ taskStatus' = [taskStatus EXCEPT ![u][t] = s]
  /\ UNCHANGED <<completed, xp>>

\* A block is credited when all its tasks are resolved, and only once.
Credit(u, b) ==
  /\ b \notin completed[u]
  /\ Unlocked(b, completed[u])
  /\ IsBlockComplete(b, taskStatus[u])
  /\ completed' = [completed EXCEPT ![u] = @ \cup {b}]
  /\ xp' = [xp EXCEPT ![u][LevelOf[b]] = @ + XPPerBlock[LevelOf[b]]]
  /\ UNCHANGED taskStatus

Next ==
  \E u \in Users :
    \/ \E t \in Tasks, s \in Resolved : Resolve(u, t, s)
    \/ \E b \in Blocks : Credit(u, b)

Spec == Init /\ [][Next]_vars
=============================================================================
