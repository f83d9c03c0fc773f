------------------------------ MODULE Grading ------------------------------
(***************************************************************************)
(* GradingService.grade (apps/api/src/grading/grading.service.ts): the     *)
(* guard, the run in the sandbox, the comparison with the pinned answer.   *)
(* The text and what executing it returns are chosen independently: the    *)
(* guard looks at the one, everything after it at the other.               *)
(***************************************************************************)
EXTENDS Sandbox, ForbiddenStatement, ResultComparison

CONSTANTS
  Texts,        \* what learners type
  ColumnLists,  \* the column names of results
  PinnedTasks   \* comparison modes and pinned answers

ASSUME GradingAssumption ==
  /\ Texts \subseteq Seq(Tokens)
  /\ Rows \subseteq Seq(Cells)
  /\ \A pinned \in PinnedTasks : pinned.answer.rows \in Seq(Seq(Cells))

NoText == << >>

NoColumns == << >>

NoTask == [mode |-> "none"]

VARIABLES
  text,      \* the submission, NoText before it
  admitted,  \* the guard let it pass
  columns,   \* the columns of the query's result, once it runs
  task,      \* the task it answers, once that matters
  verdict    \* what grade returned

vars == <<sandbox, text, admitted, columns, task, verdict>>

Verdict(status, error) == [status |-> status, error |-> error]

Ungraded == Verdict("none", "none")

Init ==
  /\ SandboxInit
  /\ text = NoText
  /\ admitted = FALSE
  /\ columns = NoColumns
  /\ task = NoTask
  /\ verdict = Ungraded

Submit ==
  /\ text = NoText
  /\ text' \in Texts
  /\ UNCHANGED <<sandbox, admitted, columns, task, verdict>>

Arrived == text # NoText /\ ~ admitted /\ verdict = Ungraded

Refuse ==
  /\ Arrived
  /\ ~ CheckForbiddenStatement(text)
  /\ verdict' = Verdict("NOT_STARTED", "FORBIDDEN")
  /\ UNCHANGED <<sandbox, text, admitted, columns, task>>

\* From here on the text matters by its effect alone: the query and its columns.
Admit ==
  /\ Arrived
  /\ CheckForbiddenStatement(text)
  /\ admitted' = TRUE
  /\ text' = <<"SELECT">>
  /\ UNCHANGED <<sandbox, columns, task, verdict>>

Run ==
  /\ admitted
  /\ \E q \in Queries : RunGraded(q)
  /\ columns' \in ColumnLists
  /\ task' \in PinnedTasks
  /\ UNCHANGED <<text, admitted, verdict>>

RunStep ==
  /\ Step
  /\ UNCHANGED <<text, admitted, columns, task, verdict>>

\* What the sandbox resolved with.
Result == [columns |-> columns, rows |-> SubSeq(query.rows, 1, outcome.rows)]

\* The await of runGraded returns or throws.
Grade ==
  /\ outcome # Pending
  /\ verdict = Ungraded
  /\ verdict' =
       IF ~ outcome.ok THEN Verdict("NOT_STARTED", outcome.error)
       ELSE IF CompareResults(Result, task.answer, task.mode)
       THEN Verdict("COMPLETED", "none")
       ELSE Verdict("NOT_STARTED", "WRONG_RESULT")
  /\ UNCHANGED <<sandbox, text, admitted, columns, task>>

Next == Submit \/ Refuse \/ Admit \/ Run \/ RunStep \/ Grade

Spec == Init /\ [][Next]_vars

\* A request is handled to its end once it has arrived.
FairSpec ==
  /\ Spec
  /\ SandboxFairness
  /\ WF_vars(Refuse \/ Admit \/ Run)
  /\ WF_vars(Grade)

-----------------------------------------------------------------------------
\* A text the guard lets through leads with SELECT or WITH, whatever comments
\* stand before it.  Unless a comment holds a semicolon, where the guard's search
\* for the end of the statement ends too, it lets through every query that only
\* reads and, of all the rest, the single statements that write after a WITH:
\* the guard looks at the first word alone.
GuardAdmitsOneQuery ==
  /\ CheckForbiddenStatement(text) => LeadsWith({"SELECT", "WITH"}, text)
  /\ ~ SemicolonInComment(text) =>
       (CheckForbiddenStatement(text) <=>
          IsReadOnlyQuery(text) \/ IsWriteUnderWith(text))

\* An answer completes the task exactly when the sandbox returned it whole and
\* its rows are the pinned ones, one for one: in order where order is asked
\* for, as often as they occur where it is not.
VerdictMatchesAnswer ==
  verdict # Ungraded =>
    (verdict.status = "COMPLETED" <=>
       outcome.ok /\ SameResult(Result, task.answer, task.mode))

\* Every submission gets a verdict, whatever its query does.
EverySubmissionIsGraded == text # NoText ~> verdict # Ungraded
=============================================================================
