------------------------------ MODULE Sandbox ------------------------------
(***************************************************************************)
(* One run of a learner's query (apps/api/src/sandbox/): the parent spawns *)
(* a worker thread and arms a timer (sqlite-sandbox-runner.ts), the worker *)
(* executes the query in a fresh database and answers with one message     *)
(* (sqlite-sandbox.worker.ts, sqlite-executor.ts).  Answer, error and      *)
(* timeout race, and the first to be handled settles the run; terminating  *)
(* the worker is asynchronous, so the others may still happen.             *)
(*                                                                         *)
(* Runs share nothing, so one is modelled.  The query is what executing it *)
(* does: return rows one at a time, and after them end, fail, go on for    *)
(* ever, take the worker down with an error, or make it exit without one.  *)
(***************************************************************************)
EXTENDS Integers, Sequences

CONSTANTS
  Rows,      \* the rows of a result
  Queries,   \* what a query returns and how it ends
  MaxRows,   \* MAX_RESULT_ROWS, 10 000 in the code
  NoQuery

Ends == {"rows", "syntax", "runtime", "endless", "uncaught", "exit"}

ASSUME SandboxAssumption ==
  /\ Queries \subseteq [rows : Seq(Rows), end : Ends]
  /\ MaxRows \in Nat
  /\ NoQuery \notin Queries

VARIABLES
  query,     \* the query being run
  worker,    \* none, ready, busy, waiting (for a terminate), gone
  pushed,    \* how many rows the executor has collected
  timer,     \* off, armed
  posted,    \* the message and the error on their way to the parent
  outcome,   \* what the promise of runGraded settled with
  killed     \* terminate was called

sandbox == <<query, worker, pushed, timer, posted, outcome, killed>>

ErrorTypes == {"TIMEOUT", "SYNTAX", "RUNTIME"}

Success(n) == [ok |-> TRUE, rows |-> n, error |-> "none"]

Failure(type) == [ok |-> FALSE, rows |-> 0, error |-> type]

Pending == [ok |-> FALSE, rows |-> 0, error |-> "pending"]

SandboxInit ==
  /\ query = NoQuery
  /\ worker = "none"
  /\ pushed = 0
  /\ timer = "off"
  /\ posted = {}
  /\ outcome = Pending
  /\ killed = FALSE

-----------------------------------------------------------------------------
\* Defect: no timer, the worker is trusted to answer.
RunGradedUntimed(q) ==
  /\ query = NoQuery
  /\ query' = q
  /\ worker' = "ready"
  /\ UNCHANGED <<pushed, timer, posted, outcome, killed>>

\* runGraded: a worker of its own, the timer, the listeners, the request.
RunGraded(q) ==
  /\ query = NoQuery
  /\ query' = q
  /\ worker' = "ready"
  /\ timer' = "armed"
  /\ UNCHANGED <<pushed, posted, outcome, killed>>

\* The worker answers, and goes on waiting for requests until it is terminated.
Post(message) ==
  /\ posted' = posted \cup {[kind |-> "message", body |-> message]}
  /\ worker' = "waiting"
  /\ UNCHANGED <<query, timer, outcome, killed>>

\* setupSql and prepare: a syntax error is reported before any row.
Prepare ==
  /\ worker = "ready"
  /\ UNCHANGED pushed
  /\ \/ query.end = "syntax" /\ Post(Failure("SYNTAX"))
     \/ /\ query.end # "syntax"
        /\ worker' = "busy"
        /\ UNCHANGED <<query, timer, posted, outcome, killed>>

More == pushed < Len(query.rows)

\* Defect: the row that fills the cap is one too many already.
PushEarly ==
  /\ worker = "busy"
  /\ More
  /\ pushed' = pushed + 1
  /\ IF pushed' >= MaxRows
     THEN Post(Failure("RUNTIME"))
     ELSE UNCHANGED <<query, worker, timer, posted, outcome, killed>>

\* One row of the iteration: it is added, then the cap is tested.
Push ==
  /\ worker = "busy"
  /\ More
  /\ pushed' = pushed + 1
  /\ IF pushed' > MaxRows
     THEN Post(Failure("RUNTIME"))
     ELSE UNCHANGED <<query, worker, timer, posted, outcome, killed>>

\* The iteration is over, or the statement fails.
Finish ==
  /\ worker = "busy"
  /\ ~ More
  /\ UNCHANGED pushed
  /\ \/ query.end = "rows" /\ Post(Success(pushed))
     \/ query.end = "runtime" /\ Post(Failure("RUNTIME"))

\* An error nothing in the worker catches ends it and reaches the parent.
WorkerFails ==
  /\ worker = "busy"
  /\ ~ More
  /\ query.end = "uncaught"
  /\ worker' = "gone"
  /\ posted' = posted \cup {[kind |-> "error", body |-> Failure("RUNTIME")]}
  /\ UNCHANGED <<query, pushed, timer, outcome, killed>>

\* The worker exits with nothing said: no listener of the parent hears it.
WorkerExits ==
  /\ worker = "busy"
  /\ ~ More
  /\ query.end = "exit"
  /\ worker' = "gone"
  /\ UNCHANGED <<query, pushed, timer, posted, outcome, killed>>

\* terminate takes effect, whatever the worker was doing.
WorkerDies ==
  /\ killed
  /\ worker # "gone"
  /\ worker' = "gone"
  /\ UNCHANGED <<query, pushed, timer, posted, outcome, killed>>

-----------------------------------------------------------------------------
\* Defect: the guard of finish forgotten.
SettleAgain(result) ==
  /\ outcome' = result
  /\ timer' = "off"
  /\ killed' = TRUE

\* Defect: the worker left to end by itself.
SettleWithoutTerminate(result) ==
  IF outcome = Pending
  THEN outcome' = result /\ timer' = "off" /\ UNCHANGED killed
  ELSE UNCHANGED <<outcome, timer, killed>>

\* finish: settles once, stops the timer, terminates the worker.
Settle(result) ==
  IF outcome = Pending
  THEN outcome' = result /\ timer' = "off" /\ killed' = TRUE
  ELSE UNCHANGED <<outcome, timer, killed>>

TimerFires ==
  /\ timer = "armed"
  /\ Settle(Failure("TIMEOUT"))
  /\ UNCHANGED <<query, worker, pushed, posted>>

\* A message or an error reaches its listener.
Deliver ==
  /\ \E event \in posted :
       /\ Settle(event.body)
       /\ posted' = posted \ {event}
  /\ UNCHANGED <<query, worker, pushed>>

WorkerStep == Prepare \/ Push \/ Finish \/ WorkerFails \/ WorkerExits

Step == WorkerStep \/ WorkerDies \/ TimerFires \/ Deliver

SandboxNext == (\E q \in Queries : RunGraded(q)) \/ Step

SandboxSpec == SandboxInit /\ [][SandboxNext]_sandbox

\* A thread runs, a terminated one dies, an armed timer fires, and the event
\* loop handles what has arrived.
SandboxFairness ==
  /\ WF_sandbox(WorkerDies)
  /\ WF_sandbox(TimerFires)
  /\ WF_sandbox(Deliver)

-----------------------------------------------------------------------------
Outcomes ==
  {Pending} \cup {Failure(e) : e \in ErrorTypes} \cup {Success(n) : n \in 0..MaxRows}

Workers == {"none", "ready", "busy", "waiting", "gone"}

SandboxTypeOK ==
  /\ query \in Queries \cup {NoQuery}
  /\ worker \in Workers
  /\ pushed \in 0..(MaxRows + 1)
  /\ timer \in {"off", "armed"}
  /\ posted \subseteq [kind : {"message", "error"}, body : Outcomes \ {Pending}]
  /\ outcome \in Outcomes
  /\ killed \in BOOLEAN

\* A run that has started and has not settled is watched by its timer, also
\* when the worker is gone: it is the only thing that notices a worker that
\* exits without a word.
PendingIsTimed == query # NoQuery /\ outcome = Pending => timer = "armed"

\* The executor never holds more rows than the cap and the one that breaks it,
\* a result is never longer than the cap, and it is the query's whole result.
ResultIsWhole ==
  /\ pushed <= MaxRows + 1
  /\ outcome.ok =>
       /\ query.end = "rows"
       /\ outcome.rows = Len(query.rows)
       /\ outcome.rows <= MaxRows

\* A query within the cap that ends well is refused by the timer alone.
OnlyTheTimerFailsGoodQueries ==
  (/\ query # NoQuery
   /\ query.end = "rows"
   /\ Len(query.rows) <= MaxRows
   /\ outcome # Pending) => outcome.ok \/ outcome.error = "TIMEOUT"

\* The promise settles once: an answer that arrives after the timeout, or a
\* timeout after the answer, changes nothing.
SettlesOnce == [][outcome # Pending => outcome' = outcome]_sandbox

\* No run leaves its worker behind.
WorkersEnd == query # NoQuery ~> worker = "gone"
=============================================================================
