---------------------------- MODULE TaskAnswers ----------------------------
(***************************************************************************)
(* What learners may answer to the tasks of the curriculum, and what the   *)
(* comparison says of it.  A task fixes its answer up to what its text     *)
(* leaves open: the names of computed columns it does not give, the order  *)
(* of rows where it asks for none, and the order of rows its ORDER BY      *)
(* keys do not tell apart.                                                 *)
(***************************************************************************)
EXTENDS Registry, ResultComparison

VARIABLES
  task,     \* the task being answered
  result,   \* what the learner's query returns
  passed    \* what compareResults said of each submission

vars == <<task, result, passed>>

SeededTasks ==
  UNION {UNION {ToSet(entry.blocks[i].tasks) : i \in DOMAIN entry.blocks} :
           entry \in ToSet(LEVELS)}

Cell(row) == <<[type |-> "number", text |-> row]>>

\* expectedResultJson: the answer of the reference query, as it was baked.
Expected(t) ==
  [columns |-> <<"reference">>,
   rows |-> [i \in DOMAIN t.answer |-> Cell(t.answer[i])]]

RowAt(i) == result.rows[i][1].text

Init ==
  /\ task \in SeededTasks
  /\ result = Expected(task)
  /\ passed = {}

\* Another name for a column the text does not name.
Rename ==
  /\ ~ task.named
  /\ result' = [result EXCEPT !.columns = <<"other">>]
  /\ UNCHANGED <<task, passed>>

\* Two neighbours the text does not order.
Swap ==
  /\ \E i \in 1..(Len(result.rows) - 1) :
       /\ task.mode = "UNORDERED" \/ Place(RowAt(i)) = Place(RowAt(i + 1))
       /\ result' = [result EXCEPT !.rows[i] = result.rows[i + 1],
                                   !.rows[i + 1] = result.rows[i]]
  /\ UNCHANGED <<task, passed>>

Submit ==
  /\ passed' = passed \cup {CompareResults(result, Expected(task), task.mode)}
  /\ UNCHANGED <<task, result>>

Next == Rename \/ Swap \/ Submit

Spec == Init /\ [][Next]_vars

-----------------------------------------------------------------------------
\* "prisma/seed/validate.ts bakes every expectedResultJson against SQLite, so a
\* correct student query matches the expected output exactly"
\* (docs/architecture/decisions/0003-sqlite-in-process-sandbox.md:28).
CorrectAnswersPass == FALSE \notin passed
=============================================================================
