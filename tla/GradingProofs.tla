--------------------------- MODULE GradingProofs ---------------------------
(***************************************************************************)
(* Theorems about Grading.tla: the run of a query in the sandbox, for      *)
(* every set of queries, whatever the cap on rows and in whatever order    *)
(* answer, error and timeout are handled; the guard, for texts of any      *)
(* length; the comparison, for results of any size; and the handler, which *)
(* composes them.                                                          *)
(***************************************************************************)
EXTENDS Grading, FiniteSetTheorems, TLAPS

-----------------------------------------------------------------------------
(***************************************************************************)
(* The sandbox.                                                            *)
(***************************************************************************)
USE SandboxAssumption

\* A query whose result the sandbox ought to return.
Good ==
  /\ query \in Queries
  /\ query.end = "rows"
  /\ Len(query.rows) <= MaxRows

\* What a worker may say of its query, and the parent settle with.
Answers == IF Good THEN {Success(Len(query.rows))}
           ELSE {Failure("SYNTAX"), Failure("RUNTIME")}

\* The executor is within the cap and the result while it collects rows.
WorkerInv ==
  /\ query = NoQuery =>
       /\ worker = "none" /\ pushed = 0 /\ timer = "off"
       /\ posted = {} /\ outcome = Pending /\ killed = FALSE
  /\ query = NoQuery \/ query \in Queries
  /\ pushed \in 0..(MaxRows + 1)
  /\ worker \in {"ready", "busy"} =>
       /\ query \in Queries
       /\ pushed <= MaxRows /\ pushed <= Len(query.rows)
  /\ worker = "busy" => query.end # "syntax"

\* OnlyTheTimerFailsGoodQueries is about what was settled; the answer may have
\* been on its way for long, and only what the worker knew when it posted it
\* tells whether it is right.
AnswerInv ==
  /\ \A event \in posted : event.body \in Answers
  /\ outcome \in Answers \cup {Pending, Failure("TIMEOUT")}

TimerInv == query # NoQuery /\ outcome = Pending => timer = "armed"

SInv == WorkerInv /\ AnswerInv /\ TimerInv

LEMMA QueryFields ==
  ASSUME NEW q \in Queries
  PROVE  q.end \in Ends /\ q.rows \in Seq(Rows) /\ Len(q.rows) \in Nat
<1>1. q \in [rows : Seq(Rows), end : Ends]
  OBVIOUS
<1>. QED BY <1>1

LEMMA OutcomesDiffer ==
  /\ \A n : Success(n).ok /\ Success(n).rows = n /\ Success(n) # Pending
  /\ \A e : ~ Failure(e).ok /\ Failure(e).error = e
  /\ \A e \in ErrorTypes : Failure(e) # Pending
  /\ ~ Pending.ok
BY DEF Success, Failure, Pending, ErrorTypes

LEMMA InitSInv == SandboxInit => SInv
BY DEF SandboxInit, SInv, WorkerInv, AnswerInv, TimerInv

\* A step of the worker: what it posts is an answer to its query.
LEMMA WorkerStepKeeps == ASSUME SInv, WorkerStep PROVE SInv'
<1> USE DEF SInv, WorkerInv
<1>1. /\ UNCHANGED <<query, timer, outcome>>
      /\ query \in Queries
  BY DEF WorkerStep, Prepare, Push, Finish, WorkerFails, WorkerExits, Post
<1>2. Len(query.rows) \in Nat /\ query.end \in Ends
  BY <1>1, QueryFields
<1>3. TimerInv'
  BY <1>1 DEF TimerInv
<1>4. Answers' = Answers
  BY <1>1 DEF Answers, Good
<1>5. WorkerInv'
  BY <1>1, <1>2 DEF WorkerStep, Prepare, Push, Finish, WorkerFails,
                    WorkerExits, Post, More
<1>6. \A event \in posted' : event.body \in Answers
  <2>1. CASE Prepare
    BY <2>1 DEF Prepare, Post, AnswerInv, Answers, Good
  <2>2. CASE Push
    BY <1>2, <2>2 DEF Push, More, Post, AnswerInv, Answers, Good
  <2>3. CASE Finish
    BY <1>1, <1>2, <2>3 DEF Finish, More, Post, AnswerInv, Answers, Good
  <2>4. CASE WorkerFails
    BY <2>4 DEF WorkerFails, AnswerInv, Answers, Good
  <2>5. CASE WorkerExits
    BY <2>5 DEF WorkerExits, AnswerInv
  <2>. QED BY <2>1, <2>2, <2>3, <2>4, <2>5 DEF WorkerStep
<1>7. AnswerInv'
  BY <1>1, <1>4, <1>6 DEF AnswerInv
<1>. QED BY <1>3, <1>5, <1>7

\* Settling with an answer or a timeout, whichever is handled first.
LEMMA SettleKeeps ==
  ASSUME SInv, NEW result \in Answers \cup {Failure("TIMEOUT")},
         query \in Queries, Settle(result), posted' \subseteq posted,
         UNCHANGED <<query, worker, pushed>>
  PROVE  SInv'
<1>1. result # Pending
  BY OutcomesDiffer DEF Answers, ErrorTypes
<1>2. WorkerInv' /\ TimerInv'
  BY <1>1 DEF SInv, WorkerInv, TimerInv, Settle
<1>3. Answers' = Answers
  BY DEF Answers, Good
<1>4. AnswerInv'
  BY <1>3 DEF SInv, AnswerInv, Settle
<1>. QED BY <1>2, <1>4 DEF SInv

LEMMA StepKeepsSInv == SInv /\ [SandboxNext]_sandbox => SInv'
<1> SUFFICES ASSUME SInv, [SandboxNext]_sandbox PROVE SInv'
  OBVIOUS
<1>1. ASSUME NEW q \in Queries, RunGraded(q) PROVE SInv'
  <2>1. /\ Len(q.rows) \in Nat /\ q # NoQuery
        /\ posted = {} /\ outcome = Pending /\ killed = FALSE
    BY <1>1, QueryFields DEF RunGraded, SInv, WorkerInv
  <2>2. pushed = 0
    BY <1>1 DEF RunGraded, SInv, WorkerInv
  <2>. QED BY <1>1, <2>1, <2>2
           DEF RunGraded, SInv, WorkerInv, AnswerInv, TimerInv
<1>2. CASE WorkerStep
  BY <1>2, WorkerStepKeeps
<1>3. CASE WorkerDies
  BY <1>3 DEF WorkerDies, SInv, WorkerInv, AnswerInv, TimerInv, Answers, Good
<1>4. CASE TimerFires
  BY <1>4, SettleKeeps DEF TimerFires, SInv, WorkerInv
<1>5. CASE Deliver
  BY <1>5, SettleKeeps DEF Deliver, SInv, WorkerInv, AnswerInv
<1>6. CASE UNCHANGED sandbox
  BY <1>6 DEF sandbox, SInv, WorkerInv, AnswerInv, TimerInv, Answers, Good
<1>. QED BY <1>1, <1>2, <1>3, <1>4, <1>5, <1>6 DEF SandboxNext, Step

\* What worker, parent and timer know of one run fits together at every step
\* (SqliteSandbox.runGraded, executeInSqlite).
THEOREM SandboxInvariance == SandboxSpec => []SInv
BY InitSInv, StepKeepsSInv, PTL DEF SandboxSpec

\* A query within the cap that ends well is refused by the timer alone.
THEOREM GoodQueriesFailByTimeoutAlone ==
  SandboxSpec => []OnlyTheTimerFailsGoodQueries
<1>1. SInv => OnlyTheTimerFailsGoodQueries
  BY OutcomesDiffer DEF SInv, WorkerInv, AnswerInv, Answers, Good,
     OnlyTheTimerFailsGoodQueries
<1>. QED BY <1>1, SandboxInvariance, PTL

\* A result is the query's whole result and within the cap, and no more than one
\* row past the cap is ever held.
THEOREM ResultsAreWhole == SandboxSpec => []ResultIsWhole
<1>1. SInv => ResultIsWhole
  BY OutcomesDiffer DEF SInv, WorkerInv, AnswerInv, Answers, Good, ResultIsWhole
<1>. QED BY <1>1, SandboxInvariance, PTL

\* A run that is not settled is watched by its timer, the only thing that
\* notices a worker that exits without a word.
THEOREM NoRunGoesUnwatched == SandboxSpec => []PendingIsTimed
BY SandboxInvariance, PTL DEF SInv, TimerInv, PendingIsTimed

LEMMA SettledStays == [SandboxNext]_sandbox => (outcome # Pending => outcome' = outcome)
BY DEF SandboxNext, Step, WorkerStep, RunGraded, Prepare, Push, Finish, Post,
   WorkerFails, WorkerExits, WorkerDies, TimerFires, Deliver, Settle, sandbox

\* The first of answer, error and timeout settles the promise, for good.
THEOREM PromiseSettlesOnce == SandboxSpec => SettlesOnce
BY SettledStays, PTL DEF SandboxSpec, SettlesOnce

HIDE SandboxAssumption

-----------------------------------------------------------------------------
(***************************************************************************)
(* The guard, for texts of any length.  Start and Mode are recursive: that *)
(* their equations have solutions, and what they compute, is shown by the  *)
(* least or the greatest position where it would fail.                     *)
(***************************************************************************)
\* A set of natural numbers that is not empty has a least element, ...
LEMMA LeastExists ==
  ASSUME NEW S \in SUBSET Nat, S # {}
  PROVE  \E k \in S : \A j \in S : k <= j
<1>1. PICK k \in S : \A j \in S : ~ (<<j, k>> \in OpToRel(<, Nat))
  BY NatLessThanWellFounded, WFMin
<1>2. \A j \in S : ~ (j < k)
  BY <1>1 DEF OpToRel
<1>. QED BY <1>2

\* ... and a bounded one a greatest.
LEMMA GreatestExists ==
  ASSUME NEW n \in Nat, NEW S \in SUBSET (0..n), S # {}
  PROVE  \E k \in S : \A j \in S : j <= k
<1> DEFINE D == {d \in Nat : n - d \in S}
<1>1. PICK s \in S : TRUE
  OBVIOUS
<1>2. n - s \in D
  BY <1>1
<1>3. PICK d \in D : \A e \in D : d <= e
  BY <1>2, LeastExists
<1>4. \A j \in S : n - j \in D
  OBVIOUS
<1>5. n - d \in S /\ \A j \in S : j <= n - d
  BY <1>3, <1>4
<1>. QED BY <1>5

-----------------------------------------------------------------------------
\* The first mark of the text from i on, past which After looks.
FirstMark(txt, mark, i, k) ==
  /\ k \in i..Len(txt) /\ txt[k] = mark
  /\ \A j \in i..(k - 1) : txt[j] # mark

LEMMA AfterFindsMark ==
  ASSUME NEW txt \in Seq(Tokens), NEW mark, NEW i \in Nat
  PROVE  \/ /\ \A j \in i..Len(txt) : txt[j] # mark
            /\ After(txt, mark, i) = Len(txt) + 1
         \/ \E k \in Nat : FirstMark(txt, mark, i, k) /\ After(txt, mark, i) = k + 1
<1> DEFINE found == {j \in i..Len(txt) : txt[j] = mark}
<1>1. Len(txt) \in Nat
  OBVIOUS
<1>2. CASE found = {}
  BY <1>2 DEF After
<1>3. CASE found # {}
  <2>1. found \in SUBSET Nat
    BY <1>1
  <2> DEFINE k == CHOOSE j \in found : \A m \in found : j <= m
  <2>2. k \in found /\ \A m \in found : k <= m
    BY <1>3, <2>1, LeastExists
  <2>3. After(txt, mark, i) = 1 + k
    BY <1>3 DEF After
  <2> HIDE DEF k
  <2>4. k \in Nat /\ FirstMark(txt, mark, i, k)
    BY <1>1, <2>1, <2>2 DEF FirstMark
  <2>5. 1 + k = k + 1
    BY <2>4
  <2>. QED BY <2>3, <2>4, <2>5
<1>. QED BY <1>2, <1>3

-----------------------------------------------------------------------------
\* The equations of the two recursive functions.
StartStep(txt, f, j) ==
  IF j > Len(txt) THEN j
  ELSE CASE txt[j] = "newline" -> f[j + 1]
         [] txt[j] = "--" -> f[After(txt, "newline", j)]
         [] txt[j] = "/*" -> f[After(txt, "*/", j)]
         [] OTHER -> j

StartFrom(txt) == CHOOSE f : f = [j \in Nat |-> StartStep(txt, f, j)]

LEMMA StartIsStartFrom ==
  ASSUME NEW txt, NEW i
  PROVE  Start(txt, i) = StartFrom(txt)[i]
BY DEF Start, StartFrom, StartStep

ModeStep(txt, f, i) ==
  IF i = 1 THEN "code"
  ELSE LET last == txt[i - 1]
           before == f[i - 1]
       IN CASE before = "code" /\ last = "--" -> "line"
            [] before = "code" /\ last = "/*" -> "block"
            [] before = "line" /\ last = "newline" -> "code"
            [] before = "block" /\ last = "*/" -> "code"
            [] OTHER -> before

LEMMA ModeIsChosen ==
  ASSUME NEW txt
  PROVE  Mode(txt) = CHOOSE f : f = [i \in 1..(Len(txt) + 1) |-> ModeStep(txt, f, i)]
BY DEF Mode, ModeStep

LEMMA AfterAdvances ==
  ASSUME NEW txt \in Seq(Tokens), NEW mark, NEW i \in 0..Len(txt)
  PROVE  After(txt, mark, i) \in (i + 1)..(Len(txt) + 1)
<1>1. Len(txt) \in Nat /\ i \in Nat
  OBVIOUS
<1>2. CASE After(txt, mark, i) = Len(txt) + 1
  BY <1>1, <1>2
<1>3. ASSUME NEW k \in Nat, FirstMark(txt, mark, i, k), After(txt, mark, i) = k + 1
      PROVE  After(txt, mark, i) \in (i + 1)..(Len(txt) + 1)
  BY <1>1, <1>3 DEF FirstMark
<1>. QED BY <1>1, <1>2, <1>3, AfterFindsMark

LEMMA StartStepAtEnd ==
  ASSUME NEW txt \in Seq(Tokens), NEW f, NEW j \in Nat, j > Len(txt)
  PROVE  StartStep(txt, f, j) = j
BY Zenon DEF StartStep

LEMMA StartStepCases ==
  ASSUME NEW txt \in Seq(Tokens), NEW f, NEW j \in Nat, ~ (j > Len(txt))
  PROVE  /\ txt[j] = "newline" => StartStep(txt, f, j) = f[j + 1]
         /\ txt[j] = "--" => StartStep(txt, f, j) = f[After(txt, "newline", j)]
         /\ txt[j] = "/*" => StartStep(txt, f, j) = f[After(txt, "*/", j)]
         /\ txt[j] \notin {"newline", "--", "/*"} => StartStep(txt, f, j) = j
<1>1. StartStep(txt, f, j) =
        CASE txt[j] = "newline" -> f[j + 1]
          [] txt[j] = "--" -> f[After(txt, "newline", j)]
          [] txt[j] = "/*" -> f[After(txt, "*/", j)]
          [] OTHER -> j
  BY DEF StartStep
<1>2. "newline" # "--" /\ "newline" # "/*" /\ "--" # "/*"
  OBVIOUS
<1>3. ASSUME txt[j] = "newline" PROVE StartStep(txt, f, j) = f[j + 1]
  BY <1>1, <1>2, <1>3, Zenon
<1>4. ASSUME txt[j] = "--" PROVE StartStep(txt, f, j) = f[After(txt, "newline", j)]
  BY <1>1, <1>2, <1>4, Zenon
<1>5. ASSUME txt[j] = "/*" PROVE StartStep(txt, f, j) = f[After(txt, "*/", j)]
  BY <1>1, <1>2, <1>5, Zenon
<1>6. ASSUME txt[j] \notin {"newline", "--", "/*"} PROVE StartStep(txt, f, j) = j
  BY <1>1, <1>6, Zenon
<1>. QED BY <1>3, <1>4, <1>5, <1>6

LEMMA ModeStepCases ==
  ASSUME NEW txt, NEW f, NEW i, i # 1
  PROVE  /\ f[i - 1] = "code" /\ txt[i - 1] = "--" => ModeStep(txt, f, i) = "line"
         /\ f[i - 1] = "code" /\ txt[i - 1] = "/*" => ModeStep(txt, f, i) = "block"
         /\ f[i - 1] = "code" /\ txt[i - 1] \notin {"--", "/*"} => ModeStep(txt, f, i) = "code"
         /\ f[i - 1] = "line" /\ txt[i - 1] = "newline" => ModeStep(txt, f, i) = "code"
         /\ f[i - 1] = "line" /\ txt[i - 1] # "newline" => ModeStep(txt, f, i) = "line"
         /\ f[i - 1] = "block" /\ txt[i - 1] = "*/" => ModeStep(txt, f, i) = "code"
         /\ f[i - 1] = "block" /\ txt[i - 1] # "*/" => ModeStep(txt, f, i) = "block"
<1> DEFINE last == txt[i - 1]
           before == f[i - 1]
<1>1. ModeStep(txt, f, i) =
        CASE before = "code" /\ last = "--" -> "line"
            [] before = "code" /\ last = "/*" -> "block"
            [] before = "line" /\ last = "newline" -> "code"
            [] before = "block" /\ last = "*/" -> "code"
            [] OTHER -> before
  BY DEF ModeStep
<1> HIDE DEF last, before
<1>2. "--" # "/*" /\ "code" # "line" /\ "code" # "block" /\ "line" # "block"
  OBVIOUS
<1>3. ASSUME before = "code" PROVE
         /\ last = "--" => ModeStep(txt, f, i) = "line"
         /\ last = "/*" => ModeStep(txt, f, i) = "block"
         /\ last \notin {"--", "/*"} => ModeStep(txt, f, i) = "code"
  BY <1>1, <1>2, <1>3, Zenon
<1>4. ASSUME before = "line" PROVE
         /\ last = "newline" => ModeStep(txt, f, i) = "code"
         /\ last # "newline" => ModeStep(txt, f, i) = "line"
  BY <1>1, <1>2, <1>4, Zenon
<1>5. ASSUME before = "block" PROVE
         /\ last = "*/" => ModeStep(txt, f, i) = "code"
         /\ last # "*/" => ModeStep(txt, f, i) = "block"
  BY <1>1, <1>2, <1>5, Zenon
<1>. QED BY <1>3, <1>4, <1>5 DEF last, before

\* A step of Start looks only ahead.
LEMMA StartStepLooksAhead ==
  ASSUME NEW txt \in Seq(Tokens), NEW i \in Nat, NEW f \in [Nat -> Nat],
         NEW g \in [Nat -> Nat], \A j \in Nat : j > i => f[j] = g[j]
  PROVE  StartStep(txt, f, i) = StartStep(txt, g, i) /\ StartStep(txt, f, i) \in Nat
<1>1. Len(txt) \in Nat
  OBVIOUS
<1>2. CASE i > Len(txt)
  BY <1>2, StartStepAtEnd
<1>3. CASE ~ (i > Len(txt))
  <2>1. i \in 0..Len(txt)
    BY <1>1, <1>3
  <2>2. ASSUME NEW mark PROVE After(txt, mark, i) \in Nat /\ After(txt, mark, i) > i
    <3>1. After(txt, mark, i) \in (i + 1)..(Len(txt) + 1)
      BY <2>1, AfterAdvances
    <3> DEFINE a == After(txt, mark, i)
               n == Len(txt)
    <3>2. a \in (i + 1)..(n + 1) /\ n \in Nat
      BY <1>1, <3>1
    <3> HIDE DEF a, n
    <3>3. a \in Nat /\ a > i
      BY <3>2
    <3>. QED BY <3>3 DEF a
  <2>3. i + 1 \in Nat /\ i + 1 > i
    OBVIOUS
  <2>4. \A m \in Nat : m > i => f[m] = g[m] /\ f[m] \in Nat
    OBVIOUS
  <2>5. ASSUME NEW h
        PROVE  /\ txt[i] = "newline" => StartStep(txt, h, i) = h[i + 1]
               /\ txt[i] = "--" => StartStep(txt, h, i) = h[After(txt, "newline", i)]
               /\ txt[i] = "/*" => StartStep(txt, h, i) = h[After(txt, "*/", i)]
               /\ txt[i] \notin {"newline", "--", "/*"} => StartStep(txt, h, i) = i
    <3>1. ~ (i > Len(txt)) /\ i \in Nat /\ txt \in Seq(Tokens)
      BY <1>3
    <3>. QED BY <3>1, StartStepCases, ZenonT(60)
  <2>6. /\ f[i + 1] = g[i + 1] /\ f[i + 1] \in Nat
        /\ \A mark : f[After(txt, mark, i)] = g[After(txt, mark, i)]
                     /\ f[After(txt, mark, i)] \in Nat
    BY <2>2, <2>3, <2>4
  <2>. QED BY <2>5, <2>6
<1>. QED BY <1>2, <1>3

\* g solves the equation of Start from k on.
SolvesFrom(txt, g, k) == \A j \in Nat : j >= k => g[j] = StartStep(txt, g, j)

\* A solution from one position on extends to the position before it.
LEMMA StartExtends ==
  ASSUME NEW txt \in Seq(Tokens), NEW i \in Nat, NEW g \in [Nat -> Nat],
         SolvesFrom(txt, g, i + 1)
  PROVE  \E h \in [Nat -> Nat] : SolvesFrom(txt, h, i)
<1> DEFINE v == StartStep(txt, g, i)
           h == [g EXCEPT ![i] = v]
<1>1. v \in Nat
  BY StartStepLooksAhead
<1> HIDE DEF v
<1>2. h \in [Nat -> Nat] /\ h[i] = v /\ \A j \in Nat : j # i => h[j] = g[j]
  BY <1>1
<1> HIDE DEF h
<1>3. ASSUME NEW j \in Nat, j >= i PROVE h[j] = StartStep(txt, h, j)
  <2>1. \A m \in Nat : m > j => h[m] = g[m]
    BY <1>2, <1>3
  <2>2. StartStep(txt, h, j) = StartStep(txt, g, j)
    BY <1>2, <2>1, StartStepLooksAhead
  <2>3. CASE j = i
    BY <1>2, <2>2, <2>3 DEF v
  <2>4. CASE j # i
    <3>1. j >= i + 1
      BY <1>3, <2>4
    <3>2. g[j] = StartStep(txt, g, j)
      BY <3>1 DEF SolvesFrom
    <3>. QED BY <1>2, <2>2, <2>4, <3>2
  <2>. QED BY <2>3, <2>4
<1>4. SolvesFrom(txt, h, i)
  BY <1>3 DEF SolvesFrom
<1>. QED BY <1>2, <1>4

LEMMA StartUnfolds ==
  ASSUME NEW txt \in Seq(Tokens), NEW i \in Nat
  PROVE  StartFrom(txt)[i] = StartStep(txt, StartFrom(txt), i)
<1> DEFINE K == {k \in Nat : \E g \in [Nat -> Nat] : SolvesFrom(txt, g, k)}
<1>1. Len(txt) + 1 \in K
  <2> DEFINE g == [j \in Nat |-> j]
  <2>1. Len(txt) \in Nat /\ g \in [Nat -> Nat] /\ \A j \in Nat : g[j] = j
    OBVIOUS
  <2> HIDE DEF g
  <2>2. ASSUME NEW j \in Nat, j >= Len(txt) + 1 PROVE g[j] = StartStep(txt, g, j)
    <3>1. j > Len(txt)
      BY <2>1, <2>2
    <3>. QED BY <2>1, <3>1, StartStepAtEnd
  <2>3. SolvesFrom(txt, g, Len(txt) + 1)
    BY <2>2 DEF SolvesFrom
  <2>. QED BY <2>1, <2>3
<1>2. PICK k \in K : \A j \in K : k <= j
  BY <1>1, LeastExists
<1>3. PICK g \in [Nat -> Nat] : SolvesFrom(txt, g, k)
  BY <1>2
<1>4. k = 0
  <2> SUFFICES ASSUME k # 0 PROVE FALSE
    OBVIOUS
  <2>1. PICK p \in Nat : k = p + 1
    <3>1. k - 1 \in Nat /\ k = (k - 1) + 1
      OBVIOUS
    <3>. QED BY <3>1
  <2>2. \E h \in [Nat -> Nat] : SolvesFrom(txt, h, p)
    BY <1>3, <2>1, StartExtends
  <2>3. p \in K
    BY <2>2
  <2>4. k <= p
    BY <1>2, <2>3
  <2>. QED BY <2>1, <2>4
<1>5. g = [j \in Nat |-> StartStep(txt, g, j)]
  <2>1. \A j \in Nat : g[j] = StartStep(txt, g, j)
    BY <1>3, <1>4 DEF SolvesFrom
  <2>. QED BY <2>1
<1>6. StartFrom(txt) = [j \in Nat |-> StartStep(txt, StartFrom(txt), j)]
  BY <1>5 DEF StartFrom
<1>. QED BY <1>6

Modes == {"code", "line", "block"}

ModesOf(txt) == [1..(Len(txt) + 1) -> Modes]

\* g solves the equation of Mode up to position k.
SolvesUpTo(txt, g, k) == \A j \in 1..k : g[j] = ModeStep(txt, g, j)

\* A solution up to one position extends to the next one.
LEMMA ModeExtends ==
  ASSUME NEW txt \in Seq(Tokens), NEW k \in 0..Len(txt), NEW g \in ModesOf(txt),
         SolvesUpTo(txt, g, k)
  PROVE  \E h \in ModesOf(txt) : SolvesUpTo(txt, h, k + 1)
<1> DEFINE n == Len(txt) + 1
           v == ModeStep(txt, g, k + 1)
           h == [g EXCEPT ![k + 1] = v]
<1>1. k \in Nat /\ k + 1 \in 1..n /\ n \in Nat /\ g \in [1..n -> Modes]
  BY DEF ModesOf
<1>2. v \in Modes
  <2>1. CASE k = 0
    BY <2>1 DEF ModeStep, Modes
  <2>2. CASE k # 0
    <3>1. k + 1 # 1 /\ (k + 1) - 1 = k /\ k \in 1..n
      BY <1>1, <2>2
    <3>2. g[k] \in Modes
      BY <1>1, <3>1
    <3>. QED BY <3>1, <3>2, ModeStepCases DEF Modes
  <2>. QED BY <2>1, <2>2
<1> HIDE DEF n, v
<1>3. h \in [1..n -> Modes] /\ h[k + 1] = v /\ \A j \in 1..n : j # k + 1 => h[j] = g[j]
  BY <1>1, <1>2
<1> HIDE DEF h
<1>4. ASSUME NEW j \in 1..(k + 1) PROVE h[j] = ModeStep(txt, h, j)
  <2>1. ModeStep(txt, h, j) = ModeStep(txt, g, j)
    <3>1. CASE j = 1
      BY <3>1 DEF ModeStep
    <3>2. CASE j # 1
      <4>1. j - 1 \in 1..n /\ j - 1 # k + 1
        BY <1>1, <3>2
      <4>2. h[j - 1] = g[j - 1]
        BY <1>3, <4>1
      <4>. QED BY <3>2, <4>2, Zenon DEF ModeStep
    <3>. QED BY <3>1, <3>2
  <2>2. CASE j = k + 1
    BY <1>3, <2>1, <2>2 DEF v
  <2>3. CASE j # k + 1
    <3>1. j \in 1..k /\ j \in 1..n
      BY <1>1, <2>3
    <3>2. g[j] = ModeStep(txt, g, j)
      BY <3>1 DEF SolvesUpTo
    <3>. QED BY <1>3, <2>1, <2>3, <3>1, <3>2
  <2>. QED BY <2>2, <2>3
<1>5. SolvesUpTo(txt, h, k + 1) /\ h \in ModesOf(txt)
  BY <1>3, <1>4 DEF SolvesUpTo, ModesOf, n
<1>. QED BY <1>5

LEMMA ModeUnfolds ==
  ASSUME NEW txt \in Seq(Tokens), NEW i \in 1..(Len(txt) + 1)
  PROVE  Mode(txt)[i] = ModeStep(txt, Mode(txt), i)
<1> DEFINE n == Len(txt) + 1
           K == {k \in 0..n : \E g \in ModesOf(txt) : SolvesUpTo(txt, g, k)}
<1>1. n \in Nat
  OBVIOUS
<1>2. 0 \in K
  <2>1. [j \in 1..n |-> "code"] \in ModesOf(txt)
    BY DEF Modes, ModesOf
  <2>2. SolvesUpTo(txt, [j \in 1..n |-> "code"], 0)
    BY DEF SolvesUpTo
  <2>3. 0 \in 0..n
    BY <1>1
  <2> HIDE DEF n
  <2>. QED BY <2>1, <2>2, <2>3
<1>3. PICK k \in K : \A j \in K : j <= k
  BY <1>1, <1>2, GreatestExists
<1>4. PICK g \in ModesOf(txt) : SolvesUpTo(txt, g, k)
  BY <1>3
<1>5. k = n
  <2> SUFFICES ASSUME k # n PROVE FALSE
    OBVIOUS
  <2>1. k \in Nat /\ k \in 0..Len(txt) /\ k + 1 \in 0..n
    BY <1>1
  <2>2. \E h \in ModesOf(txt) : SolvesUpTo(txt, h, k + 1)
    BY <1>4, <2>1, ModeExtends
  <2>3. k + 1 \in K
    BY <2>1, <2>2
  <2>. QED BY <1>3, <2>1, <2>3
<1>6. g = [j \in 1..n |-> ModeStep(txt, g, j)]
  <2>1. \A j \in 1..n : g[j] = ModeStep(txt, g, j)
    BY <1>4, <1>5 DEF SolvesUpTo
  <2>2. g \in [1..n -> Modes]
    BY DEF ModesOf
  <2>. QED BY <2>1, <2>2
<1>7. Mode(txt) = [j \in 1..n |-> ModeStep(txt, Mode(txt), j)]
  BY <1>6, ModeIsChosen
<1>. QED BY <1>7

-----------------------------------------------------------------------------
LEMMA ModeStarts ==
  ASSUME NEW txt \in Seq(Tokens)
  PROVE  Mode(txt)[1] = "code"
<1>1. 1 \in 1..(Len(txt) + 1)
  OBVIOUS
<1>. QED BY <1>1, ModeUnfolds DEF ModeStep

\* What the mode of a token makes of the next one.
LEMMA ModeGoesOn ==
  ASSUME NEW txt \in Seq(Tokens), NEW i \in 1..Len(txt)
  PROVE  LET now == Mode(txt)[i]
             next == Mode(txt)[i + 1]
         IN /\ now = "code" /\ txt[i] = "--" => next = "line"
            /\ now = "code" /\ txt[i] = "/*" => next = "block"
            /\ now = "code" /\ txt[i] \notin {"--", "/*"} => next = "code"
            /\ now = "line" /\ txt[i] = "newline" => next = "code"
            /\ now = "line" /\ txt[i] # "newline" => next = "line"
            /\ now = "block" /\ txt[i] = "*/" => next = "code"
            /\ now = "block" /\ txt[i] # "*/" => next = "block"
<1>1. i + 1 \in 1..(Len(txt) + 1) /\ i + 1 # 1 /\ (i + 1) - 1 = i
  OBVIOUS
<1>2. Mode(txt)[i + 1] = ModeStep(txt, Mode(txt), i + 1)
  BY <1>1, ModeUnfolds
<1> DEFINE f == Mode(txt)
<1> HIDE DEF f
<1>3. /\ f[i] = "code" /\ txt[i] = "--" => ModeStep(txt, f, i + 1) = "line"
      /\ f[i] = "code" /\ txt[i] = "/*" => ModeStep(txt, f, i + 1) = "block"
      /\ f[i] = "code" /\ txt[i] \notin {"--", "/*"} => ModeStep(txt, f, i + 1) = "code"
      /\ f[i] = "line" /\ txt[i] = "newline" => ModeStep(txt, f, i + 1) = "code"
      /\ f[i] = "line" /\ txt[i] # "newline" => ModeStep(txt, f, i + 1) = "line"
      /\ f[i] = "block" /\ txt[i] = "*/" => ModeStep(txt, f, i + 1) = "code"
      /\ f[i] = "block" /\ txt[i] # "*/" => ModeStep(txt, f, i + 1) = "block"
  BY <1>1, ModeStepCases
<1>. QED BY <1>2, <1>3 DEF f

\* How a comment of each kind opens and closes.
Comments == {<<"line", "--", "newline">>, <<"block", "/*", "*/">>}

\* A comment lasts until it is closed.
LEMMA CommentLasts ==
  ASSUME NEW txt \in Seq(Tokens), NEW c \in Comments,
         NEW a \in 1..(Len(txt) + 1), Mode(txt)[a] = c[1],
         NEW b \in a..(Len(txt) + 1), \A p \in a..(b - 1) : txt[p] # c[3]
  PROVE  \A p \in a..b : Mode(txt)[p] = c[1]
<1> SUFFICES ASSUME \E p \in a..b : Mode(txt)[p] # c[1] PROVE FALSE
  OBVIOUS
<1> DEFINE Bad == {p \in a..b : Mode(txt)[p] # c[1]}
<1>1. Bad \in SUBSET Nat /\ Bad # {} /\ Len(txt) \in Nat
  OBVIOUS
<1>2. PICK p \in Bad : \A q \in Bad : p <= q
  BY <1>1, LeastExists
<1>3. p \in a..b /\ p # a /\ p \in Nat
  OBVIOUS
<1>4. PICK q \in Nat : p = q + 1
  <2>1. p - 1 \in Nat /\ p = (p - 1) + 1
    BY <1>3
  <2>. QED BY <2>1
<1>5. q \in a..(b - 1) /\ q \in 1..Len(txt) /\ q \in a..b /\ ~ (p <= q)
  BY <1>1, <1>3, <1>4
<1>6. Mode(txt)[q] = c[1] /\ txt[q] # c[3]
  BY <1>2, <1>5
<1>7. Mode(txt)[q + 1] = c[1]
  BY <1>5, <1>6, ModeGoesOn DEF Comments
<1>. QED BY <1>4, <1>7

\* Start, from a position in code, stops at the first position that holds SQL.
StopsAtCode(txt, j) ==
  LET s == StartFrom(txt)[j]
  IN /\ s \in j..(Len(txt) + 1)
     /\ s <= Len(txt) => s \in Code(txt)
     /\ \A p \in Code(txt) : p >= j => s <= p

LEMMA StopsAtEnd ==
  ASSUME NEW txt \in Seq(Tokens)
  PROVE  StartFrom(txt)[Len(txt) + 1] = Len(txt) + 1
<1>1. Len(txt) + 1 \in Nat /\ Len(txt) + 1 > Len(txt)
  OBVIOUS
<1>. QED BY <1>1, StartUnfolds, StartStepAtEnd

\* ... past a comment,
LEMMA StopsPastComment ==
  ASSUME NEW txt \in Seq(Tokens), NEW c \in Comments, NEW j \in 1..Len(txt),
         Mode(txt)[j] = "code", txt[j] = c[2],
         \A k \in (j + 1)..(Len(txt) + 1) : Mode(txt)[k] = "code" => StopsAtCode(txt, k)
  PROVE  StopsAtCode(txt, j)
<1> DEFINE n == Len(txt)
           a == After(txt, c[3], j)
           s == StartFrom(txt)[j]
<1>1. n \in Nat /\ j \in Nat /\ j \in 1..n /\ j + 1 \in 1..(n + 1)
  OBVIOUS
<1>2. s = StartFrom(txt)[a]
  <2>1. s = StartStep(txt, StartFrom(txt), j)
    BY <1>1, StartUnfolds
  <2>2. ~ (j > Len(txt))
    BY <1>1
  <2>3. StartStep(txt, StartFrom(txt), j) = StartFrom(txt)[a]
    BY <1>1, <2>2, StartStepCases DEF Comments
  <2>. QED BY <2>1, <2>3
<1>3. Mode(txt)[j + 1] = c[1]
  BY ModeGoesOn DEF Comments
<1>4. j \notin Code(txt) /\ Code(txt) \subseteq 1..n /\ c[1] # "code" /\ txt[j] # c[3]
  BY DEF Code, Comments
<1>5. CASE (\A p \in j..n : txt[p] # c[3]) /\ a = n + 1
  <2>1. \A p \in (j + 1)..(n + 1) : Mode(txt)[p] = c[1]
    BY <1>1, <1>3, <1>5, CommentLasts
  <2>2. ASSUME NEW p \in Code(txt) PROVE ~ (p >= j)
    <3>1. p \in 1..n /\ Mode(txt)[p] = "code" /\ p # j
      BY <1>4 DEF Code
    <3>. QED BY <1>1, <1>4, <2>1, <3>1
  <2>3. s = n + 1
    BY <1>2, <1>5, StopsAtEnd
  <2>. QED BY <1>1, <2>2, <2>3 DEF StopsAtCode
<1>6. ASSUME NEW k \in Nat, FirstMark(txt, c[3], j, k), a = k + 1
      PROVE  StopsAtCode(txt, j)
  <2>1. /\ k \in j..n /\ txt[k] = c[3] /\ k # j /\ k \in (j + 1)..(n + 1)
        /\ \A p \in (j + 1)..(k - 1) : txt[p] # c[3]
    BY <1>1, <1>4, <1>6 DEF FirstMark
  <2>2. \A p \in (j + 1)..k : Mode(txt)[p] = c[1]
    BY <1>1, <1>3, <2>1, CommentLasts
  <2>3. k \in 1..n /\ Mode(txt)[k] = c[1]
    BY <1>1, <2>1, <2>2
  <2>4. Mode(txt)[k + 1] = "code"
    BY <2>1, <2>3, ModeGoesOn DEF Comments
  <2>5. k + 1 \in (j + 1)..(n + 1)
    BY <1>1, <2>1
  <2>6. /\ s \in (k + 1)..(n + 1)
        /\ s <= n => s \in Code(txt)
        /\ \A p \in Code(txt) : p >= k + 1 => s <= p
    BY <1>2, <1>6, <2>4, <2>5 DEF StopsAtCode
  <2>7. ASSUME NEW p \in Code(txt), p >= j PROVE s <= p
    <3>1. p \in 1..n /\ Mode(txt)[p] = "code" /\ p # j
      BY <1>4 DEF Code
    <3>2. p \notin (j + 1)..k
      BY <1>4, <2>2, <3>1
    <3>3. p >= k + 1
      BY <1>1, <2>1, <2>7, <3>1, <3>2
    <3>. QED BY <2>6, <3>3
  <2>8. s \in j..(n + 1)
    BY <1>1, <2>1, <2>6
  <2>. QED BY <2>6, <2>7, <2>8 DEF StopsAtCode
<1>. QED BY <1>1, <1>5, <1>6, AfterFindsMark

\* ... and so wherever it starts in code.
LEMMA StartStopsAtCode ==
  ASSUME NEW txt \in Seq(Tokens), NEW i \in 1..(Len(txt) + 1), Mode(txt)[i] = "code"
  PROVE  StopsAtCode(txt, i)
<1> DEFINE n == Len(txt)
           Bad == {j \in 1..(n + 1) : Mode(txt)[j] = "code" /\ ~ StopsAtCode(txt, j)}
<1> SUFFICES ASSUME Bad # {} PROVE FALSE
  OBVIOUS
<1>1. n \in Nat /\ n + 1 \in Nat /\ Bad \in SUBSET (0..(n + 1))
  OBVIOUS
<1>2. PICK j \in Bad : \A k \in Bad : k <= j
  BY <1>1, GreatestExists
<1>3. \A k \in (j + 1)..(n + 1) : Mode(txt)[k] = "code" => StopsAtCode(txt, k)
  BY <1>1, <1>2
<1>4. j \in 1..(n + 1) /\ j \in Nat /\ Mode(txt)[j] = "code" /\ Code(txt) \subseteq 1..n
  BY DEF Code
<1>5. CASE j = n + 1
  <2>1. StartFrom(txt)[j] = n + 1
    BY <1>5, StopsAtEnd
  <2>. QED BY <1>1, <1>2, <1>4, <1>5, <2>1 DEF StopsAtCode
<1>6. CASE j # n + 1
  <2>1. j \in 1..n /\ ~ (j > n)
    BY <1>1, <1>4, <1>6
  <2> DEFINE s == StartFrom(txt)[j]
  <2>2. s = StartStep(txt, StartFrom(txt), j)
    BY <1>4, StartUnfolds
  <2>3. CASE txt[j] = "newline"
    <3>1. s = StartFrom(txt)[j + 1]
      BY <1>4, <2>1, <2>2, <2>3, StartStepCases
    <3>2. Mode(txt)[j + 1] = "code"
      BY <1>4, <2>1, <2>3, ModeGoesOn
    <3>3. StopsAtCode(txt, j + 1)
      BY <1>1, <1>3, <2>1, <3>2
    <3>4. j \notin Code(txt)
      BY <2>3 DEF Code
    <3>5. s \in (j + 1)..(n + 1) /\ (s <= n => s \in Code(txt))
          /\ \A p \in Code(txt) : p >= j + 1 => s <= p
      BY <3>1, <3>3 DEF StopsAtCode
    <3>6. s \in j..(n + 1) /\ \A p \in Code(txt) : p >= j => s <= p
      BY <1>1, <1>4, <3>4, <3>5
    <3>7. StopsAtCode(txt, j)
      BY <3>5, <3>6 DEF StopsAtCode
    <3>. QED BY <1>2, <3>7
  <2>4. ASSUME NEW c \in Comments, txt[j] = c[2] PROVE FALSE
    BY <1>2, <1>3, <1>4, <2>1, <2>4, StopsPastComment
  <2>5. CASE txt[j] \notin {"newline", "--", "/*"}
    <3>1. s = j
      BY <1>4, <2>1, <2>2, <2>5, StartStepCases
    <3>2. j \in Code(txt)
      BY <1>4, <2>1, <2>5 DEF Code
    <3>3. StopsAtCode(txt, j)
      BY <1>1, <1>4, <3>1, <3>2 DEF StopsAtCode
    <3>. QED BY <1>2, <3>3
  <2>. QED BY <2>3, <2>4, <2>5 DEF Comments
<1>. QED BY <1>5, <1>6

-----------------------------------------------------------------------------
\* What follows a semicolon of the SQL has code in it if the guard finds any.
LEMMA RestIsCode ==
  ASSUME NEW txt \in Seq(Tokens), NEW m \in 1..Len(txt), m \in Code(txt), txt[m] = "semicolon"
  PROVE  Start(txt, m + 1) <= Len(txt) <=> \E p \in Code(txt) : p > m
<1> DEFINE n == Len(txt)
           rest == Start(txt, m + 1)
<1>1. n \in Nat /\ m \in 1..n /\ m \in Nat
  OBVIOUS
<1>2. Code(txt) \subseteq 1..n /\ Mode(txt)[m] = "code" /\ txt[m] \notin {"--", "/*"}
  BY DEF Code
<1>3. m + 1 \in 1..(n + 1)
  BY <1>1
<1>4. Mode(txt)[m + 1] = "code"
  BY <1>1, <1>2, ModeGoesOn
<1>5. /\ rest \in (m + 1)..(n + 1)
      /\ rest <= n => rest \in Code(txt)
      /\ \A p \in Code(txt) : p >= m + 1 => rest <= p
  BY <1>3, <1>4, StartStopsAtCode, StartIsStartFrom DEF StopsAtCode
<1> HIDE DEF rest, n
<1>6. rest \in Nat /\ rest > m /\ m \in Nat
  BY <1>1, <1>2, <1>5
<1>7. ASSUME NEW p \in Code(txt), p > m PROVE rest <= n
  <2>1. p \in Nat /\ p <= n /\ p >= m + 1
    BY <1>1, <1>2, <1>6, <1>7
  <2>2. rest <= p
    BY <1>5, <2>1
  <2>. QED BY <1>1, <1>6, <2>1, <2>2
<1>8. rest <= n <=> \E p \in Code(txt) : p > m
  BY <1>5, <1>6, <1>7
<1>. QED BY <1>8 DEF rest, n

LEMMA FirstMarkIsFirst ==
  ASSUME NEW txt \in Seq(Tokens), NEW mark, NEW k \in Nat, FirstMark(txt, mark, 1, k),
         NEW i \in 1..Len(txt), txt[i] = mark
  PROVE  k <= i
BY DEF FirstMark

\* The guard reads comments as SQL does, except that its search for a semicolon
\* looks into them.
LEMMA GuardReadsSql ==
  ASSUME NEW txt \in Seq(Tokens)
  PROVE  /\ CheckForbiddenStatement(txt) => LeadsWith({"SELECT", "WITH"}, txt)
         /\ ~ SemicolonInComment(txt) =>
              (CheckForbiddenStatement(txt) <=> IsReadOnlyQuery(txt) \/ IsWriteUnderWith(txt))
<1> DEFINE n == Len(txt)
           first == Start(txt, 1)
<1>1. n \in Nat /\ Code(txt) \subseteq 1..n /\ 1 \in 1..(n + 1)
  BY DEF Code
<1>7. DOMAIN txt = 1..n
  OBVIOUS
<1>2. /\ first \in 1..(n + 1)
      /\ first <= n => first \in Code(txt)
      /\ \A p \in Code(txt) : first <= p
  <2>1. StopsAtCode(txt, 1)
    BY <1>1, ModeStarts, StartStopsAtCode
  <2>. QED BY <1>1, <2>1, StartIsStartFrom DEF StopsAtCode
<1>3. (first <= n /\ txt[first] \in LeadingKeywords) <=> LeadsWith({"SELECT", "WITH"}, txt)
  <2>1. ASSUME first <= n, txt[first] \in LeadingKeywords PROVE LeadsWith({"SELECT", "WITH"}, txt)
    BY <1>2, <2>1 DEF LeadsWith, LeadingKeywords
  <2>2. ASSUME NEW i \in Code(txt), txt[i] \in {"SELECT", "WITH"}, \A j \in Code(txt) : i <= j
        PROVE  first <= n /\ txt[first] \in LeadingKeywords
    <3>1. first <= i /\ i \in 1..n
      BY <1>1, <1>2
    <3>2. first <= n /\ first \in Code(txt) /\ i <= first
      BY <1>1, <1>2, <2>2, <3>1
    <3>3. first = i
      BY <1>1, <1>2, <3>1, <3>2
    <3>. QED BY <2>2, <3>2, <3>3 DEF LeadingKeywords
  <2>. QED BY <2>1, <2>2 DEF LeadsWith, LeadingKeywords
<1> HIDE DEF first
<1>4. LeadsWith({"SELECT", "WITH"}, txt) => \E i \in DOMAIN txt : txt[i] # "newline"
  BY <1>1, <1>7 DEF LeadsWith, LeadingKeywords
<1>5. CheckForbiddenStatement(txt) <=>
        ~ HasMultipleStatements(txt) /\ LeadsWith({"SELECT", "WITH"}, txt)
  BY <1>3, <1>4 DEF CheckForbiddenStatement, first
<1>6. ASSUME ~ SemicolonInComment(txt)
      PROVE  ~ HasMultipleStatements(txt) <=> EndsAtSemicolon(txt)
  <2>1. \A i \in 1..n : txt[i] = "semicolon" => i \in Code(txt)
    BY <1>1, <1>6, <1>7 DEF SemicolonInComment
  <2>2. CASE \A i \in 1..n : txt[i] # "semicolon"
    BY <1>1, <1>7, <2>2 DEF HasMultipleStatements, EndsAtSemicolon
  <2>3. CASE \E i \in 1..n : txt[i] = "semicolon"
    <3>1. PICK m \in Nat : FirstMark(txt, "semicolon", 1, m) /\ After(txt, "semicolon", 1) = m + 1
      BY <2>3, AfterFindsMark
    <3>2. m \in 1..n /\ txt[m] = "semicolon"
      BY <3>1 DEF FirstMark
    <3>3. m \in Code(txt)
      BY <2>1, <3>2
    <3>4. HasMultipleStatements(txt) <=> Start(txt, m + 1) <= n
      BY <1>1, <1>7, <3>1, <3>2 DEF HasMultipleStatements
    <3>5. Start(txt, m + 1) <= n <=> \E p \in Code(txt) : p > m
      BY <3>2, <3>3, RestIsCode
    <3>6. \A i \in Code(txt) : txt[i] = "semicolon" => m <= i
      BY <1>1, <3>1, FirstMarkIsFirst
    <3>7. \A i \in Code(txt) : i \in Nat
      BY <1>1
    <3>. QED BY <3>1, <3>2, <3>3, <3>4, <3>5, <3>6, <3>7 DEF EndsAtSemicolon
  <2>. QED BY <2>2, <2>3
<1>8. WritesUnderWith(txt) => LeadsWith({"SELECT", "WITH"}, txt)
  BY DEF WritesUnderWith, LeadsWith
<1>. QED BY <1>5, <1>6, <1>8 DEF IsReadOnlyQuery, IsWriteUnderWith

-----------------------------------------------------------------------------
(***************************************************************************)
(* The comparison, for results of any size.                                *)
(***************************************************************************)
Keys == Seq(Int)

LEMMA KeyIsFunction ==
  ASSUME NEW a \in Keys
  PROVE  Len(a) \in Nat /\ DOMAIN a = 1..Len(a) /\ \A i \in DOMAIN a : a[i] \in Int
BY DEF Keys

LEMMA KeysAreEqual ==
  ASSUME NEW a \in Keys, NEW b \in Keys, DOMAIN a = DOMAIN b,
         \A i \in DOMAIN a : a[i] = b[i]
  PROVE  a = b
BY DEF Keys

LEMMA KeyIrreflexive ==
  ASSUME NEW a \in Keys PROVE ~ KeyBefore(a, a)
BY KeyIsFunction DEF KeyBefore

\* a comes before b because of position k.
Differ(a, b, k) ==
  /\ k \in DOMAIN b
  /\ \A i \in 1..(k - 1) : i \in DOMAIN a /\ a[i] = b[i]
  /\ k \in DOMAIN a => a[k] < b[k]

LEMMA BeforeDiffers ==
  ASSUME NEW a, NEW b
  PROVE  KeyBefore(a, b) <=> \E k : Differ(a, b, k)
BY DEF KeyBefore, Differ

LEMMA KeyTransitive ==
  ASSUME NEW a \in Keys, NEW b \in Keys, NEW c \in Keys,
         KeyBefore(a, b), KeyBefore(b, c)
  PROVE  KeyBefore(a, c)
<1>1. PICK k : Differ(a, b, k)
  BY BeforeDiffers
<1>2. PICK m : Differ(b, c, m)
  BY BeforeDiffers
<1>3. /\ k \in Nat /\ m \in Nat /\ k >= 1 /\ m >= 1
      /\ k \in DOMAIN b /\ m \in DOMAIN c
  BY <1>1, <1>2, KeyIsFunction DEF Differ
<1>4. CASE k < m
  <2>1. k \in DOMAIN c /\ b[k] = c[k]
    BY <1>2, <1>3, <1>4, KeyIsFunction DEF Differ
  <2>2. \A i \in 1..(k - 1) : i \in DOMAIN a /\ a[i] = c[i]
    BY <1>1, <1>2, <1>3, <1>4 DEF Differ
  <2>3. k \in DOMAIN a => a[k] < c[k]
    BY <1>1, <2>1 DEF Differ
  <2>. QED BY <2>1, <2>2, <2>3, BeforeDiffers DEF Differ
<1>5. CASE m < k
  <2>1. m \in DOMAIN b /\ m \in DOMAIN a /\ a[m] = b[m]
    BY <1>1, <1>3, <1>5, KeyIsFunction DEF Differ
  <2>2. \A i \in 1..(m - 1) : i \in DOMAIN a /\ a[i] = c[i]
    BY <1>1, <1>2, <1>3, <1>5 DEF Differ
  <2>3. a[m] < c[m]
    BY <1>2, <2>1 DEF Differ
  <2>. QED BY <1>3, <2>2, <2>3, BeforeDiffers DEF Differ
<1>6. CASE k = m
  <2>1. \A i \in 1..(k - 1) : i \in DOMAIN a /\ a[i] = c[i]
    BY <1>1, <1>2, <1>6 DEF Differ
  <2>2. k \in DOMAIN a => a[k] < c[k]
    <3>1. ASSUME k \in DOMAIN a PROVE a[k] < c[k]
      <4>1. a[k] \in Int /\ b[k] \in Int /\ c[k] \in Int
        BY <1>3, <1>6, <3>1, KeyIsFunction
      <4>2. a[k] < b[k] /\ b[k] < c[k]
        BY <1>1, <1>2, <1>3, <1>6, <3>1 DEF Differ
      <4>. QED BY <4>1, <4>2
    <3>. QED BY <3>1
  <2>. QED BY <1>3, <1>6, <2>1, <2>2, BeforeDiffers DEF Differ
<1>. QED BY <1>3, <1>4, <1>5, <1>6

LEMMA KeyTotal ==
  ASSUME NEW a \in Keys, NEW b \in Keys
  PROVE  a = b \/ KeyBefore(a, b) \/ KeyBefore(b, a)
<1> DEFINE Same(k) == k \in DOMAIN a /\ k \in DOMAIN b /\ a[k] = b[k]
           D == {k \in Nat : k \in DOMAIN a \cup DOMAIN b /\ ~ Same(k)}
<1>0. /\ DOMAIN a \subseteq Nat \ {0} /\ DOMAIN b \subseteq Nat \ {0}
      /\ \A i \in DOMAIN a : a[i] \in Int /\ \A j \in 1..i : j \in DOMAIN a
      /\ \A i \in DOMAIN b : b[i] \in Int /\ \A j \in 1..i : j \in DOMAIN b
  BY KeyIsFunction
<1>1. CASE D = {}
  <2>1. \A k \in DOMAIN a \cup DOMAIN b : Same(k)
    BY <1>0, <1>1
  <2>. QED BY <2>1, KeysAreEqual
<1>2. CASE D # {}
  <2>1. PICK k \in D : \A j \in D : k <= j
    BY <1>2, LeastExists
  <2>2. \A i \in 1..(k - 1) : i \in DOMAIN a \cup DOMAIN b => Same(i)
    BY <2>1
  <2>3. \A i \in 1..(k - 1) : Same(i)
    BY <1>0, <2>1, <2>2
  <2>4. CASE k \in DOMAIN b /\ (k \in DOMAIN a => a[k] < b[k])
    BY <2>3, <2>4, BeforeDiffers DEF Differ
  <2>5. CASE k \in DOMAIN a /\ (k \in DOMAIN b => b[k] < a[k])
    BY <2>3, <2>5, BeforeDiffers DEF Differ
  <2>6. k \in DOMAIN a /\ k \in DOMAIN b => a[k] < b[k] \/ b[k] < a[k]
    BY <1>0, <2>1
  <2>. QED BY <2>1, <2>4, <2>5, <2>6
<1>. QED BY <1>1, <1>2

-----------------------------------------------------------------------------
\* Sorting puts every key in one place, and no key after a later one.
IsSorting(keys, at) ==
  /\ at \in Bijection(DOMAIN keys, DOMAIN keys)
  /\ \A place \in DOMAIN keys : Sorted(keys)[place] = keys[at[place]]
  /\ \A p, q \in DOMAIN keys : p <= q => ~ KeyBefore(Sorted(keys)[q], Sorted(keys)[p])

LEMMA SortedSorts ==
  ASSUME NEW n \in Nat, NEW keys \in [1..n -> Keys]
  PROVE  \E at : IsSorting(keys, at)
<1> DEFINE D == 1..n
           Upto(i) == AtOrBefore(keys, i)
           place == [i \in D |-> Cardinality(Upto(i))]
           at == [p \in D |-> CHOOSE i \in D : Cardinality(Upto(i)) = p]
<1>1. /\ DOMAIN keys = D /\ IsFiniteSet(D) /\ Cardinality(D) = n
      /\ \A i \in D : keys[i] \in Keys /\ i \in Nat
  BY FS_Interval
<1>2. ASSUME NEW i \in D
      PROVE  /\ Upto(i) \in SUBSET D /\ i \in Upto(i)
             /\ IsFiniteSet(Upto(i)) /\ Cardinality(Upto(i)) \in Nat
             /\ place[i] \in D
  <2>1. Upto(i) \in SUBSET D /\ i \in Upto(i)
    BY <1>1 DEF AtOrBefore
  <2>2. IsFiniteSet(Upto(i)) /\ Cardinality(Upto(i)) <= n
    BY <1>1, <2>1, FS_Subset
  <2>3. Cardinality(Upto(i)) \in Nat
    BY <2>2, FS_CardinalityType
  <2>4. Cardinality(Upto(i)) # 0
    BY <2>1, <2>2, FS_EmptySet
  <2>. QED BY <2>1, <2>2, <2>3, <2>4
<1>3. ASSUME NEW i \in D, NEW j \in D, i \in Upto(j), i # j
      PROVE  place[i] < place[j]
  <2>1. j \notin Upto(i)
    <3> SUFFICES ASSUME j \in Upto(i) PROVE FALSE
      OBVIOUS
    <3>1. KeyBefore(keys[i], keys[j]) \/ (keys[i] = keys[j] /\ i <= j)
      BY <1>3 DEF AtOrBefore
    <3>2. KeyBefore(keys[j], keys[i]) \/ (keys[j] = keys[i] /\ j <= i)
      BY DEF AtOrBefore
    <3>3. ~ (KeyBefore(keys[i], keys[j]) /\ KeyBefore(keys[j], keys[i]))
      BY <1>1, KeyTransitive, KeyIrreflexive
    <3>4. keys[i] = keys[j] => ~ KeyBefore(keys[i], keys[j]) /\ ~ KeyBefore(keys[j], keys[i])
      BY <1>1, KeyIrreflexive
    <3>. QED BY <1>1, <1>3, <3>1, <3>2, <3>3, <3>4
  <2>2. \A k \in Upto(i) : k \in Upto(j)
    <3> SUFFICES ASSUME NEW k \in Upto(i) PROVE k \in Upto(j)
      OBVIOUS
    <3>1. k \in D
      BY <1>2
    <3>2. KeyBefore(keys[i], keys[j]) \/ (keys[i] = keys[j] /\ i <= j)
      BY <1>3 DEF AtOrBefore
    <3>3. KeyBefore(keys[k], keys[i]) \/ (keys[k] = keys[i] /\ k <= i)
      BY DEF AtOrBefore
    <3>4. CASE KeyBefore(keys[k], keys[i])
      BY <1>1, <3>1, <3>2, <3>4, KeyTransitive DEF AtOrBefore
    <3>5. CASE keys[k] = keys[i] /\ k <= i
      BY <1>1, <3>1, <3>2, <3>5 DEF AtOrBefore
    <3>. QED BY <3>3, <3>4, <3>5
  <2> DEFINE I == Upto(i)
             J == Upto(j)
  <2>3. /\ IsFiniteSet(I) /\ IsFiniteSet(J)
        /\ Cardinality(I) \in Nat /\ Cardinality(J) \in Nat
        /\ I \in SUBSET J /\ j \in J /\ j \notin I
    BY <1>2, <2>1, <2>2
  <2> HIDE DEF I, J
  <2>4. Cardinality(I) <= Cardinality(J) /\ Cardinality(I) # Cardinality(J)
    BY <2>3, FS_Subset
  <2>5. Cardinality(I) < Cardinality(J)
    BY <2>3, <2>4
  <2>. QED BY <2>5 DEF I, J
<1>4. \A i, j \in D : i \in Upto(j) \/ j \in Upto(i)
  BY <1>1, KeyTotal DEF AtOrBefore
<1> HIDE DEF Upto
<1>5. \A i, j \in D : place[i] = place[j] => i = j
  <2> SUFFICES ASSUME NEW i \in D, NEW j \in D, place[i] = place[j], i # j PROVE FALSE
    OBVIOUS
  <2>1. place[i] \in Nat /\ place[j] \in Nat
    BY <1>2
  <2>. QED BY <1>3, <1>4, <2>1
<1>6. \A p \in D : \E i \in D : place[i] = p
  <2>1. place \in Injection(D, D)
    BY <1>2, <1>5 DEF Injection, IsInjective
  <2>2. place \in Surjection(D, D)
    BY <1>1, <2>1, FS_Injection
  <2>. QED BY <2>2 DEF Surjection
<1>7. ASSUME NEW p \in D PROVE at[p] \in D /\ place[at[p]] = p
  <2>1. PICK i \in D : Cardinality(Upto(i)) = p
    BY <1>6
  <2>2. at[p] \in D /\ Cardinality(Upto(at[p])) = p
    BY <2>1
  <2>. QED BY <2>2
<1>8. at \in Bijection(D, D)
  <2>1. at \in [D -> D]
    BY <1>7
  <2>2. \A p, q \in D : at[p] = at[q] => p = q
    BY <1>7
  <2>3. \A i \in D : \E p \in D : at[p] = i
    <3> SUFFICES ASSUME NEW i \in D PROVE \E p \in D : at[p] = i
      OBVIOUS
    <3>1. place[i] \in D /\ at[place[i]] \in D /\ place[at[place[i]]] = place[i]
      BY <1>2, <1>7
    <3>2. at[place[i]] = i
      BY <1>5, <3>1
    <3>. QED BY <3>1, <3>2
  <2>. QED BY <2>1, <2>2, <2>3 DEF Bijection, Injection, IsInjective, Surjection
<1>9. \A p \in D : Sorted(keys)[p] = keys[at[p]]
  BY <1>1 DEF Sorted, Upto
<1>10. ASSUME NEW p \in D, NEW q \in D, p <= q
       PROVE  ~ KeyBefore(keys[at[q]], keys[at[p]])
  <2> DEFINE i == at[p]
             j == at[q]
  <2>1. i \in D /\ j \in D /\ place[i] = p /\ place[j] = q
    BY <1>7
  <2> HIDE DEF i, j, at, place
  <2>2. ASSUME KeyBefore(keys[j], keys[i]) PROVE FALSE
    <3>1. j \in Upto(i)
      BY <1>1, <2>1, <2>2 DEF Upto, AtOrBefore
    <3>2. i # j
      BY <1>1, <2>1, <2>2, KeyIrreflexive
    <3>3. place[j] < place[i]
      BY <1>3, <2>1, <3>1, <3>2
    <3>. QED BY <1>10, <1>1, <2>1, <3>3
  <2>. QED BY <2>2 DEF i, j
<1> HIDE DEF at, D, place
<1>. QED BY <1>1, <1>8, <1>9, <1>10 DEF IsSorting

-----------------------------------------------------------------------------
InOrder(s, n) ==
  /\ s \in [1..n -> Keys]
  /\ \A p, q \in 1..n : p <= q => ~ KeyBefore(s[q], s[p])

\* Two sequences in order that hold the same keys: neither has a smaller one
\* anywhere, since the places up to there would have to fit below it.
LEMMA NoneSmaller ==
  ASSUME NEW n \in Nat, NEW s, NEW t, InOrder(s, n), InOrder(t, n),
         NEW pairing \in Injection(1..n, 1..n),
         \A i \in 1..n : s[i] = t[pairing[i]],
         NEW p \in 1..n
  PROVE  ~ KeyBefore(s[p], t[p])
<1> SUFFICES ASSUME KeyBefore(s[p], t[p]) PROVE FALSE
  OBVIOUS
<1>1. p \in Nat /\ p >= 1 /\ p <= n /\ p - 1 \in Nat /\ pairing \in [1..n -> 1..n]
  BY DEF Injection
<1>2. ASSUME NEW i \in 1..p PROVE pairing[i] \in 1..(p - 1)
  <2>1. i \in 1..n /\ i <= p /\ pairing[i] \in 1..n
    BY <1>1
  <2>2. /\ s[i] \in Keys /\ s[p] \in Keys /\ t[p] \in Keys
        /\ ~ KeyBefore(s[p], s[i])
    BY <2>1 DEF InOrder
  <2>3. KeyBefore(s[i], t[p])
    BY <2>2, KeyTotal, KeyTransitive
  <2>4. KeyBefore(t[pairing[i]], t[p])
    BY <2>1, <2>3
  <2>5. ~ (p <= pairing[i])
    BY <2>1, <2>4 DEF InOrder
  <2>. QED BY <1>1, <2>1, <2>5
<1> DEFINE f == [i \in 1..p |-> pairing[i]]
<1>3. f \in [1..p -> 1..(p - 1)]
  BY <1>2
<1>4. \A m \in Nat : IsFiniteSet(1..m) /\ Cardinality(1..m) = m
  BY FS_Interval
<1>5. PICK i \in 1..p, j \in 1..p : i # j /\ f[i] = f[j]
  <2> DEFINE S == 1..p
             T == 1..(p - 1)
  <2>1. IsFiniteSet(S) /\ IsFiniteSet(T) /\ Cardinality(T) < Cardinality(S)
    BY <1>1, <1>4
  <2>2. f \in [S -> T]
    BY <1>3
  <2> HIDE DEF S, T, f
  <2>3. \E i, j \in S : i # j /\ f[i] = f[j]
    BY <2>1, <2>2, FS_PigeonHole
  <2>. QED BY <2>3 DEF S
<1>6. i \in 1..n /\ j \in 1..n /\ pairing[i] = pairing[j] /\ i # j
  BY <1>1, <1>5
<1>. QED BY <1>6 DEF Injection, IsInjective

\* A pairing backwards, and two of them one after the other.
Back(f, D) == [i \in D |-> CHOOSE j \in D : f[j] = i]

Then(f, g, D) == [i \in D |-> g[f[i]]]

LEMMA BijectionIs ==
  ASSUME NEW D, NEW f
  PROVE  f \in Bijection(D, D) <=>
           /\ f \in [D -> D]
           /\ \A i, j \in D : f[i] = f[j] => i = j
           /\ \A i \in D : \E j \in D : f[j] = i
BY DEF Bijection, Injection, IsInjective, Surjection

LEMMA BackIsBijection ==
  ASSUME NEW D, NEW f \in Bijection(D, D)
  PROVE  /\ Back(f, D) \in Bijection(D, D)
         /\ \A i \in D : f[Back(f, D)[i]] = i /\ Back(f, D)[f[i]] = i
<1> DEFINE g == Back(f, D)
<1>1. /\ f \in [D -> D] /\ \A i, j \in D : f[i] = f[j] => i = j
      /\ \A i \in D : \E j \in D : f[j] = i
  BY BijectionIs
<1>2. \A i \in D : g[i] \in D /\ f[g[i]] = i
  BY <1>1 DEF Back
<1>3. g \in [D -> D]
  BY <1>2 DEF Back
<1> HIDE DEF g
<1>4. \A i \in D : g[f[i]] = i
  BY <1>1, <1>2
<1>5. \A i, j \in D : g[i] = g[j] => i = j
  BY <1>2
<1>6. \A i \in D : \E j \in D : g[j] = i
  BY <1>1, <1>4
<1>7. g \in Bijection(D, D)
  BY <1>3, <1>5, <1>6, BijectionIs
<1>. QED BY <1>2, <1>4, <1>7 DEF g

LEMMA ThenIsBijection ==
  ASSUME NEW D, NEW f \in Bijection(D, D), NEW g \in Bijection(D, D)
  PROVE  Then(f, g, D) \in Bijection(D, D)
<1> DEFINE h == Then(f, g, D)
<1>1. /\ f \in [D -> D] /\ \A i, j \in D : f[i] = f[j] => i = j
      /\ \A i \in D : \E j \in D : f[j] = i
  BY BijectionIs
<1>2. /\ g \in [D -> D] /\ \A i, j \in D : g[i] = g[j] => i = j
      /\ \A i \in D : \E j \in D : g[j] = i
  BY BijectionIs
<1>3. h \in [D -> D] /\ \A i \in D : h[i] = g[f[i]]
  BY <1>1, <1>2 DEF Then
<1> HIDE DEF h
<1>4. \A i, j \in D : h[i] = h[j] => i = j
  BY <1>1, <1>2, <1>3
<1>5. ASSUME NEW i \in D PROVE \E j \in D : h[j] = i
  <2>1. PICK k \in D : g[k] = i
    BY <1>2
  <2>2. PICK j \in D : f[j] = k
    BY <1>1
  <2>. QED BY <1>3, <2>1, <2>2
<1>6. h \in Bijection(D, D)
  BY <1>3, <1>4, <1>5, BijectionIs
<1>. QED BY <1>6 DEF h

\* Two sequences of keys sort to the same one exactly when their keys pair up.
LEMMA SortedAlike ==
  ASSUME NEW n \in Nat, NEW a \in [1..n -> Keys], NEW b \in [1..n -> Keys]
  PROVE  Sorted(a) = Sorted(b) <=>
           \E pairing \in Bijection(1..n, 1..n) : \A i \in 1..n : a[i] = b[pairing[i]]
<1> DEFINE D == 1..n
<1>0. DOMAIN a = D /\ DOMAIN b = D /\ D \subseteq Nat
  OBVIOUS
<1>1. PICK p : IsSorting(a, p)
  BY SortedSorts
<1>2. PICK q : IsSorting(b, q)
  BY SortedSorts
<1>3. /\ p \in Bijection(D, D) /\ q \in Bijection(D, D)
      /\ \A i \in D : Sorted(a)[i] = a[p[i]] /\ Sorted(b)[i] = b[q[i]]
  BY <1>0, <1>1, <1>2 DEF IsSorting
<1>4. InOrder(Sorted(a), n) /\ InOrder(Sorted(b), n)
  <2>1. p \in [D -> D] /\ q \in [D -> D]
    BY <1>3 DEF Bijection, Injection
  <2>2. /\ \A i \in D : Sorted(a)[i] \in Keys /\ Sorted(b)[i] \in Keys
    BY <1>3, <2>1
  <2>3. /\ Sorted(a) = [i \in D |-> Sorted(a)[i]]
        /\ Sorted(b) = [i \in D |-> Sorted(b)[i]]
    BY <1>0 DEF Sorted
  <2>4. Sorted(a) \in [D -> Keys] /\ Sorted(b) \in [D -> Keys]
    BY <2>2, <2>3
  <2>. QED BY <1>0, <1>1, <1>2, <2>4 DEF InOrder, IsSorting
<1>5. ASSUME NEW f \in Bijection(D, D)
      PROVE  /\ Back(f, D) \in Bijection(D, D)
             /\ \A i \in D : f[Back(f, D)[i]] = i /\ Back(f, D)[f[i]] = i
  BY BackIsBijection
<1>6. ASSUME NEW f \in Bijection(D, D), NEW g \in Bijection(D, D)
      PROVE  Then(f, g, D) \in Bijection(D, D)
  BY ThenIsBijection
<1>7. \A f, g : \A i \in D : Then(f, g, D)[i] = g[f[i]]
  BY DEF Then
<1>8. \A f \in Bijection(D, D) : f \in Injection(D, D) /\ \A i \in D : f[i] \in D
  BY DEF Bijection, Injection
<1> HIDE DEF D
<1>9. ASSUME Sorted(a) = Sorted(b)
      PROVE  \E pairing \in Bijection(D, D) : \A i \in D : a[i] = b[pairing[i]]
  <2> DEFINE pairing == Then(Back(p, D), q, D)
  <2>1. pairing \in Bijection(D, D)
    BY <1>3, <1>5, <1>6
  <2>2. ASSUME NEW i \in D PROVE a[i] = b[pairing[i]]
    <3>1. Back(p, D)[i] \in D /\ p[Back(p, D)[i]] = i
      BY <1>3, <1>5, <1>8
    <3>2. a[i] = Sorted(a)[Back(p, D)[i]]
      BY <1>3, <3>1
    <3>3. Sorted(b)[Back(p, D)[i]] = b[q[Back(p, D)[i]]]
      BY <1>3, <3>1
    <3>. QED BY <1>7, <1>9, <3>2, <3>3
  <2>. QED BY <2>1, <2>2
<1>10. ASSUME NEW pairing \in Bijection(D, D), \A i \in D : a[i] = b[pairing[i]]
       PROVE  Sorted(a) = Sorted(b)
  <2> DEFINE there == Then(Then(p, pairing, D), Back(q, D), D)
  <2>1. there \in Bijection(D, D) /\ Back(there, D) \in Bijection(D, D)
    BY <1>3, <1>5, <1>6
  <2>2. ASSUME NEW i \in D PROVE Sorted(a)[i] = Sorted(b)[there[i]]
    <3>1. p[i] \in D /\ pairing[p[i]] \in D /\ there[i] \in D
      BY <1>3, <1>8, <2>1
    <3>2. there[i] = Back(q, D)[pairing[p[i]]]
      BY <1>7
    <3>3. q[there[i]] = pairing[p[i]]
      BY <1>3, <1>5, <3>1, <3>2
    <3> HIDE DEF there
    <3>4. Sorted(a)[i] = a[p[i]] /\ a[p[i]] = b[pairing[p[i]]]
      BY <1>3, <1>10, <3>1
    <3>5. Sorted(b)[there[i]] = b[q[there[i]]]
      BY <1>3, <3>1
    <3>. QED BY <3>3, <3>4, <3>5
  <2> HIDE DEF there
  <2>3. ASSUME NEW i \in D PROVE Sorted(b)[i] = Sorted(a)[Back(there, D)[i]]
    <3>1. Back(there, D)[i] \in D /\ there[Back(there, D)[i]] = i
      BY <1>5, <1>8, <2>1
    <3>. QED BY <2>2, <3>1
  <2>4. there \in Injection(D, D) /\ Back(there, D) \in Injection(D, D)
    BY <1>8, <2>1
  <2>5. ASSUME NEW i \in D
        PROVE  /\ ~ KeyBefore(Sorted(a)[i], Sorted(b)[i])
               /\ ~ KeyBefore(Sorted(b)[i], Sorted(a)[i])
    BY <1>4, <2>2, <2>3, <2>4, NoneSmaller DEF D
  <2>6. \A i \in D : Sorted(a)[i] = Sorted(b)[i]
    BY <1>4, <2>5, KeyTotal DEF InOrder, D
  <2>. QED BY <1>4, <2>6 DEF InOrder, D
<1>. QED BY <1>9, <1>10 DEF D

-----------------------------------------------------------------------------
\* Rows with equal keys show the same values.
LEMMA RowKeyTellsRows ==
  ASSUME NEW a \in Seq(Cells), NEW b \in Seq(Cells)
  PROVE  /\ RowKey(a) \in Keys
         /\ RowKey(a) = RowKey(b) <=> SameRow(a, b)
<1>1. ASSUME NEW r \in Seq(Cells)
      PROVE  /\ Len(r) \in Nat /\ DOMAIN r = 1..Len(r)
             /\ \A i \in DOMAIN r : r[i].text \in Nat /\ Normalised(r[i]) \in Int
             /\ RowKey(r) = [i \in 1..Len(r) |-> Normalised(r[i])]
  <2>1. Len(r) \in Nat /\ DOMAIN r = 1..Len(r) /\ \A i \in DOMAIN r : r[i] \in Cells
    OBVIOUS
  <2>2. \A c \in Cells : c.text \in Nat /\ Normalised(c) \in Int
    BY DEF Cells, Normalised
  <2>. QED BY <2>1, <2>2 DEF RowKey
<1>2. RowKey(a) \in Keys
  <2>1. Len(a) \in Nat /\ \A i \in 1..Len(a) : Normalised(a[i]) \in Int
    BY <1>1
  <2>2. [i \in 1..Len(a) |-> Normalised(a[i])] \in Seq(Int)
    BY <2>1
  <2>. QED BY <1>1, <2>2 DEF Keys
<1>3. \A c, d \in Cells : Normalised(c) = Normalised(d) <=>
        \/ c.type = "null" /\ d.type = "null"
        \/ c.type # "null" /\ d.type # "null" /\ c.text = d.text
  BY DEF Cells, Normalised, IsNull
<1>4. (\A i \in 1..Len(a) : a[i] \in Cells) /\ (\A i \in 1..Len(b) : b[i] \in Cells)
  OBVIOUS
<1>5. Len(a) = Len(b) =>
        (SameRow(a, b) <=> \A i \in 1..Len(a) : Normalised(a[i]) = Normalised(b[i]))
  BY <1>1, <1>3, <1>4 DEF SameRow
<1>6. RowKey(a) = RowKey(b) <=>
        Len(a) = Len(b) /\ \A i \in 1..Len(a) : Normalised(a[i]) = Normalised(b[i])
  <2>1. RowKey(a) = RowKey(b) => 1..Len(a) = 1..Len(b)
    BY <1>1
  <2>2. 1..Len(a) = 1..Len(b) => Len(a) = Len(b)
    <3> SUFFICES ASSUME NEW m \in Nat, NEW n \in Nat, 1..m = 1..n, m < n PROVE FALSE
      BY <1>1
    <3>1. n \in 1..n /\ n \notin 1..m
      OBVIOUS
    <3>. QED BY <3>1
  <2>3. Len(a) = Len(b) =>
          (RowKey(a) = RowKey(b) <=> \A i \in 1..Len(a) : Normalised(a[i]) = Normalised(b[i]))
    <3> SUFFICES ASSUME Len(a) = Len(b)
                 PROVE  RowKey(a) = RowKey(b) <=>
                          \A i \in 1..Len(a) : Normalised(a[i]) = Normalised(b[i])
      OBVIOUS
    <3>1. /\ RowKey(a) = [i \in 1..Len(a) |-> Normalised(a[i])]
          /\ RowKey(b) = [i \in 1..Len(a) |-> Normalised(b[i])]
      BY <1>1
    <3>. QED BY <3>1, Zenon
  <2>. QED BY <2>1, <2>2, <2>3
<1>7. SameRow(a, b) => Len(a) = Len(b)
  BY DEF SameRow
<1>. QED BY <1>2, <1>5, <1>6, <1>7

\* ... and so do rows that are equal cell by cell.
LEMMA CellsTellRows ==
  ASSUME NEW a \in Seq(Cells), NEW b \in Seq(Cells)
  PROVE  SameRow(a, b) <=>
           Len(a) = Len(b) /\ \A j \in DOMAIN b : CellsEqual(a[j], b[j])
BY DEF SameRow, CellsEqual, IsNull

\* compareResults is the relation it stands for, for results of any size.
LEMMA ComparisonIsSameness ==
  ASSUME NEW actual, NEW expected, NEW mode,
         actual.rows \in Seq(Seq(Cells)), expected.rows \in Seq(Seq(Cells))
  PROVE  CompareResults(actual, expected, mode) <=> SameResult(actual, expected, mode)
<1> DEFINE a == actual.rows
           b == expected.rows
<1>1. /\ Len(a) \in Nat /\ DOMAIN a = 1..Len(a) /\ \A i \in 1..Len(a) : a[i] \in Seq(Cells)
      /\ Len(b) \in Nat /\ DOMAIN b = 1..Len(b) /\ \A i \in 1..Len(b) : b[i] \in Seq(Cells)
  OBVIOUS
<1> DEFINE Paired(how) ==
             \A i \in DOMAIN how : SameRow(a[i], b[how[i]])
           Kept(how) == \A i \in DOMAIN how : how[i] = i
<1>2. SameResult(actual, expected, mode) <=>
        /\ actual.columns = expected.columns
        /\ Len(a) = Len(b)
        /\ \E how \in Bijection(DOMAIN a, DOMAIN b) :
             (mode = "ORDERED" => Kept(how)) /\ Paired(how)
  BY DEF SameResult
<1> HIDE DEF a, b
<1>3. CASE Len(a) # Len(b)
  BY <1>2, <1>3 DEF CompareResults, RowsEqualOrdered, RowsEqualUnordered, a, b
<1>4. CASE Len(a) = Len(b)
  <2> DEFINE n == Len(a)
  <2>1. n \in Nat /\ DOMAIN a = 1..n /\ DOMAIN b = 1..n
    BY <1>1, <1>4
  <2>2. ASSUME NEW how \in Bijection(1..n, 1..n)
        PROVE  DOMAIN how = 1..n /\ how \in [1..n -> 1..n]
    BY BijectionIs
  <2> HIDE DEF n
  <2>3. CASE mode = "ORDERED"
    <3>1. RowsEqualOrdered(a, b) <=> \A i \in 1..n : SameRow(a[i], b[i])
      BY <1>1, <1>4, <2>1, CellsTellRows DEF RowsEqualOrdered, n
    <3>2. ASSUME NEW how \in Bijection(1..n, 1..n), Kept(how), Paired(how)
          PROVE  \A i \in 1..n : SameRow(a[i], b[i])
      BY <2>2, <3>2
    <3>3. ASSUME \A i \in 1..n : SameRow(a[i], b[i])
          PROVE  \E how \in Bijection(1..n, 1..n) : Kept(how) /\ Paired(how)
      <4> DEFINE same == [i \in 1..n |-> i]
      <4>1. same \in Bijection(1..n, 1..n)
        BY BijectionIs
      <4>2. Kept(same) /\ Paired(same)
        BY <3>3
      <4>. QED BY <4>1, <4>2
    <3>4. RowsEqualOrdered(a, b) <=>
            \E how \in Bijection(DOMAIN a, DOMAIN b) : Kept(how) /\ Paired(how)
      BY <2>1, <3>1, <3>2, <3>3
    <3>. QED BY <1>2, <1>4, <2>3, <3>4 DEF CompareResults, ColumnsMatch, a, b
  <2>4. CASE mode # "ORDERED"
    <3> DEFINE KeysOf(rows) == [i \in DOMAIN rows |-> RowKey(rows[i])]
    <3>1. /\ KeysOf(a) \in [1..n -> Keys] /\ KeysOf(b) \in [1..n -> Keys]
          /\ \A i \in 1..n : KeysOf(a)[i] = RowKey(a[i]) /\ KeysOf(b)[i] = RowKey(b[i])
      BY <1>1, <1>4, <2>1, RowKeyTellsRows DEF n
    <3>2. RowsEqualUnordered(a, b) <=> Sorted(KeysOf(a)) = Sorted(KeysOf(b))
      BY <1>4 DEF RowsEqualUnordered
    <3> HIDE DEF KeysOf
    <3>3. RowsEqualUnordered(a, b) <=>
            \E how \in Bijection(1..n, 1..n) :
              \A i \in 1..n : KeysOf(a)[i] = KeysOf(b)[how[i]]
      BY <2>1, <3>1, <3>2, SortedAlike
    <3>4. ASSUME NEW how \in Bijection(1..n, 1..n)
          PROVE  (\A i \in 1..n : KeysOf(a)[i] = KeysOf(b)[how[i]]) <=> Paired(how)
      <4>1. ASSUME NEW i \in 1..n
            PROVE  KeysOf(a)[i] = KeysOf(b)[how[i]] <=> SameRow(a[i], b[how[i]])
        <5>1. how[i] \in 1..n
          BY <2>2
        <5>2. a[i] \in Seq(Cells) /\ b[how[i]] \in Seq(Cells)
          BY <1>1, <1>4, <5>1 DEF n
        <5>. QED BY <3>1, <5>1, <5>2, RowKeyTellsRows
      <4>. QED BY <2>2, <4>1
    <3>5. RowsEqualUnordered(a, b) <=>
            \E how \in Bijection(DOMAIN a, DOMAIN b) : Paired(how)
      BY <2>1, <3>3, <3>4
    <3>. QED BY <1>2, <1>4, <2>4, <3>5 DEF CompareResults, ColumnsMatch, a, b
  <2>. QED BY <2>3, <2>4
<1>. QED BY <1>3, <1>4

-----------------------------------------------------------------------------
(***************************************************************************)
(* The handler around them.                                                *)
(***************************************************************************)
\* The handler starts a run once and leaves it alone, so what is proved of a
\* run holds under it (GradingService.grade awaits runGraded).
THEOREM GradingRunsTheSandbox == Spec => SandboxSpec
<1>1. Init => SandboxInit
  BY DEF Init
<1>2. ASSUME [Next]_vars PROVE [SandboxNext]_sandbox
  BY <1>2 DEF Next, vars, Submit, Refuse, Admit, Run, RunStep, Grade, SandboxNext, sandbox
<1>. QED BY <1>1, <1>2, PTL DEF Spec, SandboxSpec

\* A graded submission whose query is within the cap and ends well fails by the
\* timer alone.
THEOREM GradedQueriesFailByTimeoutAlone == Spec => []OnlyTheTimerFailsGoodQueries
BY GradingRunsTheSandbox, GoodQueriesFailByTimeoutAlone, PTL

\* Of submissions of any length the guard lets through those that lead with
\* SELECT or WITH alone and, unless a comment holds a semicolon, exactly the
\* single queries and what writes after a WITH (checkForbiddenStatement).
THEOREM GuardAdmitsQueries == Spec => []GuardAdmitsOneQuery
<1>1. Init => text \in Seq(Tokens)
  BY DEF Init, NoText
<1>2. text \in Seq(Tokens) /\ [Next]_vars => (text \in Seq(Tokens))'
  <2>1. Submit => text' \in Seq(Tokens)
    BY GradingAssumption DEF Submit
  <2>2. Admit => text' \in Seq(Tokens)
    <3>1. "SELECT" \in Tokens
      BY DEF Tokens
    <3>. QED BY <3>1 DEF Admit
  <2>3. [Next]_vars => Submit \/ Admit \/ text' = text
    BY DEF Next, vars, Refuse, Run, RunStep, Grade
  <2>. QED BY <2>1, <2>2, <2>3
<1>3. text \in Seq(Tokens) => GuardAdmitsOneQuery
  BY GuardReadsSql DEF GuardAdmitsOneQuery
<1>. QED BY <1>1, <1>2, <1>3, PTL DEF Spec

\* A refused submission never runs; one that is admitted gets its verdict when
\* its run has settled, and keeps the task and the rows it was compared with.
VerdictInv ==
  /\ ~ admitted => query = NoQuery
  /\ query # NoQuery => task \in PinnedTasks
  /\ verdict # Ungraded => ~ admitted \/ outcome # Pending
  /\ VerdictMatchesAnswer

\* What the comparison is given is a table of cells.
LEMMA ResultHasCells ==
  ASSUME SInv, outcome.ok PROVE query \in Queries /\ Result.rows \in Seq(Seq(Cells))
<1>1. /\ query \in Queries /\ outcome.rows = Len(query.rows)
  BY SandboxAssumption, OutcomesDiffer DEF SInv, WorkerInv, AnswerInv, Answers, Good
<1>2. query.rows \in Seq(Rows)
  BY <1>1, QueryFields
<1>3. Result.rows = query.rows
  BY <1>1, <1>2 DEF Result
<1>. QED BY <1>1, <1>2, <1>3, GradingAssumption

LEMMA StepKeepsVerdict ==
  ASSUME SInv, SInv', VerdictInv, [Next]_vars PROVE VerdictInv'
<1>0. /\ query = NoQuery => outcome = Pending
      /\ query' = NoQuery => outcome' = Pending
      /\ ~ Pending.ok
  BY OutcomesDiffer DEF SInv, WorkerInv
<1>1. CASE Submit
  BY <1>1 DEF Submit, VerdictInv, VerdictMatchesAnswer, Result, sandbox
<1>2. CASE Refuse
  <2>1. /\ query' = NoQuery /\ outcome' = Pending /\ ~ admitted'
        /\ verdict'.status = "NOT_STARTED"
    BY <1>0, <1>2 DEF Refuse, Arrived, Verdict, VerdictInv, sandbox
  <2>. QED BY <1>0, <2>1 DEF VerdictInv, VerdictMatchesAnswer
<1>3. CASE Admit
  BY <1>3 DEF Admit, Arrived, VerdictInv, VerdictMatchesAnswer, sandbox
<1>4. CASE Run
  <2>1. /\ admitted /\ query = NoQuery /\ task' \in PinnedTasks
        /\ verdict' = verdict /\ admitted' = admitted
    BY <1>4 DEF Run, RunGraded
  <2>2. verdict' = Ungraded
    BY <1>0, <2>1 DEF VerdictInv
  <2>. QED BY <2>1, <2>2 DEF VerdictInv, VerdictMatchesAnswer
<1>5. CASE RunStep
  <2>1. /\ query' = query /\ admitted' = admitted /\ task' = task
        /\ columns' = columns /\ verdict' = verdict
    BY <1>5 DEF RunStep, Step, WorkerStep, Prepare, Push, Finish, Post, WorkerFails,
       WorkerExits, WorkerDies, TimerFires, Deliver, Settle
  <2>2. verdict # Ungraded => outcome' = outcome
    BY <1>0, <1>5, <2>1, SettledStays DEF VerdictInv, RunStep, SandboxNext
  <2>. QED BY <2>1, <2>2 DEF VerdictInv, VerdictMatchesAnswer, Result
<1>6. CASE Grade
  <2>1. /\ UNCHANGED <<sandbox, admitted, columns, task>> /\ outcome # Pending
        /\ query' = query /\ outcome' = outcome
    BY <1>6 DEF Grade, sandbox
  <2>2. query # NoQuery /\ task \in PinnedTasks
    BY <1>0, <2>1 DEF VerdictInv
  <2>3. outcome.ok =>
          (CompareResults(Result, task.answer, task.mode)
             <=> SameResult(Result, task.answer, task.mode))
    BY <2>2, ResultHasCells, ComparisonIsSameness, GradingAssumption
  <2>4. verdict'.status = "COMPLETED" <=>
          outcome.ok /\ CompareResults(Result, task.answer, task.mode)
    BY <1>6 DEF Grade, Verdict
  <2>5. Result' = Result
    BY <2>1 DEF Result
  <2>. QED BY <2>1, <2>2, <2>3, <2>4, <2>5 DEF VerdictInv, VerdictMatchesAnswer
<1>7. CASE UNCHANGED vars
  BY <1>7 DEF vars, sandbox, VerdictInv, VerdictMatchesAnswer, Result
<1>. QED BY <1>1, <1>2, <1>3, <1>4, <1>5, <1>6, <1>7 DEF Next

\* A verdict is COMPLETED exactly when the sandbox returned the whole result and
\* it is the pinned one, in order or as often as each row occurs (compareResults),
\* for results of any size, any cells and whatever the run went through.
THEOREM VerdictsAreRight == Spec => []VerdictMatchesAnswer
<1>1. Spec => []SInv
  BY GradingRunsTheSandbox, SandboxInvariance, PTL
<1>2. Init => VerdictInv
  BY DEF Init, SandboxInit, VerdictInv, VerdictMatchesAnswer
<1>3. VerdictInv => VerdictMatchesAnswer
  BY DEF VerdictInv
<1>. QED BY <1>1, <1>2, <1>3, StepKeepsVerdict, PTL DEF Spec
=============================================================================
