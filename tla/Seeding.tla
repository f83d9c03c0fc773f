------------------------------ MODULE Seeding ------------------------------
(***************************************************************************)
(* How the curriculum gets into the database: validate.ts runs every       *)
(* reference query and bakes its answer into one file per level, seed.ts   *)
(* upserts datasets, blocks and tasks with the baked answers               *)
(* (apps/api/prisma/seed/).  Both are run by hand after the content was    *)
(* edited (docs/guides/development.md, "Adding content") and neither is a  *)
(* transaction: either can die between two writes and is then run again.   *)
(*                                                                         *)
(* One action is one upsert or one file.  Each script loads the content    *)
(* modules when it starts and keeps them while the checkout moves on.      *)
(***************************************************************************)
EXTENDS ContentTypes

CONSTANTS
  Releases,    \* the content as it is edited: a sequence of curricula
  MaxCrashes,  \* bound: how often a script dies
  CrashAt      \* bound: the steps of the seed at which it may die

VARIABLES
  release,     \* the curriculum in the checkout
  baked,       \* the answers in each level's baked.json, by block and task
  bake,        \* validate.ts: its content, and the level whose file is next
  seed,        \* seed.ts: its content, the next step, the loaded answers
  db,          \* the SandboxDataset, Block and Task tables
  crashes

vars == <<release, baked, bake, seed, db, crashes>>

IsSequence(s) == Len(s) \in Nat /\ DOMAIN s = 1..Len(s)

\* The lists the scripts walk.
HoldsBlocks(entry) ==
  /\ IsSequence(entry.blocks)
  /\ \A b \in DOMAIN entry.blocks :
       IsSequence(entry.blocks[b].datasets) /\ IsSequence(entry.blocks[b].tasks)

LevelsOf(r) == {Releases[r][i].level : i \in DOMAIN Releases[r]}

-----------------------------------------------------------------------------
\* Defect: tasks first.
StepsOfBlockTasksFirst(l, b) ==
  LET step(kind, def) == [kind |-> kind, level |-> l, block |-> b, def |-> def]
      upsert == [kind |-> "block", level |-> l, block |-> b]
  IN <<upsert>>
       \o [i \in DOMAIN b.tasks |-> step("task", b.tasks[i])]
       \o [i \in DOMAIN b.datasets |-> step("dataset", b.datasets[i])]

StepsOfBlock(l, b) ==
  LET step(kind, def) == [kind |-> kind, level |-> l, block |-> b, def |-> def]
      upsert == [kind |-> "block", level |-> l, block |-> b]
  IN [i \in DOMAIN b.datasets |-> step("dataset", b.datasets[i])]
       \o <<upsert>>
       \o [i \in DOMAIN b.tasks |-> step("task", b.tasks[i])]

\* The awaited calls of main, by level and block; block 0 is what it does when
\* it comes to a level.
Plan ==
  [r \in DOMAIN Releases |->
     [l \in DOMAIN Releases[r] |->
        LET entry == Releases[r][l]
        IN [b \in 0..Len(entry.blocks) |->
              IF b = 0 THEN <<[kind |-> "level", level |-> entry.level]>>
              ELSE StepsOfBlock(entry.level, entry.blocks[b])]]]

\* Where main is in its loops.
At(l, b, s) == [level |-> l, block |-> b, step |-> s]

StepAt(r, at) == Plan[r][at.level][at.block][at.step]

Positions(r) ==
  UNION {UNION {{At(l, b, s) : s \in DOMAIN Plan[r][l][b]} :
                  b \in DOMAIN Plan[r][l]} :
           l \in DOMAIN Plan[r]}

\* The next position: the next upsert, the next block, or the next level.
After(r, at) ==
  IF at.step < Len(Plan[r][at.level][at.block])
  THEN [at EXCEPT !.step = @ + 1]
  ELSE IF at.block < Len(Releases[r][at.level].blocks)
  THEN At(at.level, at.block + 1, 1)
  ELSE At(at.level + 1, 0, 1)

Steps ==
  [r \in DOMAIN Releases |-> {StepAt(r, at) : at \in Positions(r)}]

TaskSteps(r) == {step \in Steps[r] : step.kind = "task"}

TaskStepsOf(r, l) == {step \in TaskSteps(r) : step.level = l}

\* The key under which validate.ts bakes the answer of a task.
BakedKey(step) == <<step.block.order, step.def.order>>

\* runOne: the query fails unless the dataset has the tables it reads.
Runs(dataset, task) == task.reads \subseteq DOMAIN dataset.setup

\* What validate.ts checks of a task before it bakes its answer.
Valid(step) ==
  /\ step.def.dataset \in NamesOf(step.block)
  /\ Runs(DatasetNamed(step.block, step.def.dataset), step.def)

AllValid == [r \in DOMAIN Releases |-> \A step \in TaskSteps(r) : Valid(step)]

\* Defect: answers kept by the order of the task alone.
AnswersByTaskOrder(r, l) ==
  [key \in {BakedKey(s) : s \in TaskStepsOf(r, l)} |->
     (CHOOSE s \in TaskStepsOf(r, l) : s.def.order = key[2]).def.answer]

\* The content validate.ts gives a level's baked.json.
Answers(r, l) ==
  [key \in {BakedKey(s) : s \in TaskStepsOf(r, l)} |->
     (CHOOSE s \in TaskStepsOf(r, l) : BakedKey(s) = key).def.answer]

Bake == [r \in DOMAIN Releases |-> [l \in LevelsOf(r) |-> Answers(r, l)]]

-----------------------------------------------------------------------------
DatasetRow(d) == [setup |-> d.setup, schema |-> d.schema]

TaskRow(task, answer) == [def |-> task, expected |-> answer]

TaskKey(step) == <<step.level, step.block.order, step.def.order>>

\* No two blocks of a release give one dataset name to different datasets, and no
\* two tasks have one place.
KeysAreUnique(r) ==
  \A s, t \in Steps[r] :
    /\ s.kind = "dataset" /\ t.kind = "dataset" /\ s.def.name = t.def.name
         => DatasetRow(s.def) = DatasetRow(t.def)
    /\ s.kind = "task" /\ t.kind = "task" /\ TaskKey(s) = TaskKey(t)
         => s.def = t.def

\* What the author sees to: what the keys of a release name is unique.
ASSUME ContentAssumption ==
  /\ IsSequence(Releases) /\ Len(Releases) > 0
  /\ \A r \in DOMAIN Releases :
       /\ IsSequence(Releases[r]) /\ Len(Releases[r]) > 0
       /\ \A l \in DOMAIN Releases[r] : HoldsBlocks(Releases[r][l])
       /\ KeysAreUnique(r)

NoAnswers == << >>

Nowhere == At(0, 0, 1)

Init ==
  /\ release = 1
  /\ baked = Bake[1]
  /\ bake = [rel |-> 1, next |-> 0]
  /\ seed = [rel |-> 1, at |-> Nowhere, answers |-> NoAnswers, exit |-> "none"]
  /\ db = [datasets |-> << >>, blocks |-> {}, tasks |-> << >>]
  /\ crashes = 0

-----------------------------------------------------------------------------
Edit ==
  /\ release < Len(Releases)
  /\ release' = release + 1
  /\ UNCHANGED <<baked, bake, seed, db, crashes>>

\* validate.ts runs every query first, and writes no file when one fails.
Validate ==
  /\ bake.next = 0
  /\ AllValid[release]
  /\ bake' = [rel |-> release, next |-> 1]
  /\ UNCHANGED <<release, baked, seed, db, crashes>>

WriteBaked ==
  LET levels == Releases[bake.rel]
      l == levels[bake.next].level
  IN /\ bake.next # 0
     /\ baked' = [baked EXCEPT ![l] = Bake[bake.rel][l]]
     /\ bake' = [bake EXCEPT !.next = IF @ = Len(levels) THEN 0 ELSE @ + 1]
     /\ UNCHANGED <<release, seed, db, crashes>>

Seeding == seed.at # Nowhere

StartSeed ==
  /\ ~ Seeding
  /\ bake.next = 0
  /\ seed' = [rel |-> release, at |-> At(1, 0, 1), answers |-> NoAnswers, exit |-> "none"]
  /\ UNCHANGED <<release, baked, bake, db, crashes>>

Step == StepAt(seed.rel, seed.at)

Done ==
  LET next == After(seed.rel, seed.at)
  IN IF next.level > Len(Releases[seed.rel])
     THEN [seed EXCEPT !.at = Nowhere, !.exit = "ok"]
     ELSE [seed EXCEPT !.at = next]

Exit(how) == [seed EXCEPT !.at = Nowhere, !.exit = how]

\* loadBaked, once per level.
LoadBaked ==
  /\ Seeding
  /\ Step.kind = "level"
  /\ seed' = [Done EXCEPT !.answers = baked[Step.level]]
  /\ UNCHANGED <<release, baked, bake, db, crashes>>

\* An awaited upsert returns.
Write(tables) ==
  /\ db' = tables
  /\ seed' = Done
  /\ UNCHANGED <<release, baked, bake, crashes>>

\* An upsert of a row by its unique key: its update, or its create.
Upsert(table, key, row) ==
  IF key \in DOMAIN table THEN [table EXCEPT ![key] = row]
  ELSE [k \in DOMAIN table \cup {key} |-> IF k = key THEN row ELSE table[k]]

UpsertDataset ==
  /\ Seeding
  /\ Step.kind = "dataset"
  /\ Write([db EXCEPT !.datasets = Upsert(@, Step.def.name, DatasetRow(Step.def))])

TasksOfBlockRow(row) == {k \in DOMAIN db.tasks : <<k[1], k[2]>> = row}

\* Defect: a block is replaced, and its tasks go with the old row.
UpsertBlockReplaces ==
  LET row == <<Step.level, Step.block.order>>
  IN /\ Seeding
     /\ Step.kind = "block"
     /\ Write([db EXCEPT
          !.blocks = @ \cup {row},
          !.tasks = [k \in DOMAIN @ \ TasksOfBlockRow(row) |-> @[k]]])

UpsertBlock ==
  /\ Seeding
  /\ Step.kind = "block"
  /\ Write([db EXCEPT !.blocks = @ \cup {<<Step.level, Step.block.order>>}])

\* Defect: the baked answer looked up the wrong way round.
AnswerKeySwapped(step) == <<step.def.order, step.block.order>>

\* The key under which seed.ts looks the answer up.
AnswerKey(step) == <<step.block.order, step.def.order>>

\* Defect: the update branch of the upsert forgotten.
UpsertTaskCreatesOnly ==
  LET key == AnswerKey(Step)
  IN /\ Seeding
     /\ Step.kind = "task"
     /\ key \in DOMAIN seed.answers
     /\ Write([db EXCEPT !.tasks =
          IF TaskKey(Step) \in DOMAIN @ THEN @
          ELSE Upsert(@, TaskKey(Step), TaskRow(Step.def, seed.answers[key]))])

\* Throws, which ends the script, when the answer or the dataset is missing.
UpsertTask ==
  LET key == AnswerKey(Step)
      found == /\ key \in DOMAIN seed.answers
               /\ Step.def.dataset \in NamesOf(Step.block)
  IN /\ Seeding
     /\ Step.kind = "task"
     /\ \/ /\ found
           /\ Write([db EXCEPT !.tasks =
                Upsert(@, TaskKey(Step), TaskRow(Step.def, seed.answers[key]))])
        \/ /\ ~ found
           /\ seed' = Exit("error")
           /\ UNCHANGED <<release, baked, bake, db, crashes>>

SeedStep == LoadBaked \/ UpsertDataset \/ UpsertBlock \/ UpsertTask

\* A script dies; what it has written stays.
CrashSeed ==
  /\ seed.at \in CrashAt
  /\ seed' = Exit("crash")
  /\ UNCHANGED bake

CrashValidate ==
  /\ bake.next # 0
  /\ bake' = [bake EXCEPT !.next = 0]
  /\ UNCHANGED seed

Crash ==
  /\ crashes < MaxCrashes
  /\ CrashSeed \/ CrashValidate
  /\ crashes' = crashes + 1
  /\ UNCHANGED <<release, baked, db>>

Next == Edit \/ Validate \/ WriteBaked \/ StartSeed \/ SeedStep \/ Crash

Spec == Init /\ [][Next]_vars

-----------------------------------------------------------------------------
\* What the step writes is in the database.
InPlace(step) ==
  /\ step.kind = "dataset" =>
       /\ step.def.name \in DOMAIN db.datasets
       /\ db.datasets[step.def.name] = DatasetRow(step.def)
  /\ step.kind = "block" => <<step.level, step.block.order>> \in db.blocks
  /\ step.kind = "task" =>
       /\ TaskKey(step) \in DOMAIN db.tasks
       /\ db.tasks[TaskKey(step)].def = step.def

\* The database holds the content of release r.
Loaded(r) == \A step \in Steps[r] : InPlace(step)

\* Every answer the database expects of a task the seed loads is the baked one.
AnswersAreBaked ==
  \A step \in TaskSteps(seed.rel) :
    LET answers == baked[step.level]
    IN /\ AnswerKey(step) \in DOMAIN answers
       /\ db.tasks[TaskKey(step)].expected = answers[AnswerKey(step)]

\* The content is in and every answer expected is the one its query gives.
InSync ==
  /\ Loaded(release)
  /\ \A key \in DOMAIN db.tasks : db.tasks[key].expected = db.tasks[key].def.answer

Baked(r) == baked = Bake[r]

\* The documented workflow: after an edit the author validates, then seeds, and
\* runs again what failed or died.
FairSpec ==
  /\ Spec
  /\ WF_vars(Validate /\ ~ Baked(release))
  /\ WF_vars(WriteBaked)
  /\ SF_vars(StartSeed /\ Baked(release) /\ ~ InSync)
  /\ WF_vars(SeedStep)

-----------------------------------------------------------------------------
\* A seed that reports success has loaded all of its content, also over what
\* earlier releases and interrupted runs left: no later block takes over the
\* dataset of an earlier one, and no row keeps its old content.
SuccessMeansLoaded == seed.exit = "ok" => Loaded(seed.rel)

\* A task runs on a dataset, and is shown exactly the tables it has.
Serves(dataset, task) ==
  Runs(dataset, task) /\ dataset.schema = dataset.setup

\* The tasks to which release q gives a dataset that does not serve them: its
\* own, or those of releases before it, as when a table is taken away.
TakenAway ==
  [q \in DOMAIN Releases |->
     {task \in {t.def : t \in UNION {TaskSteps(r) : r \in 1..q}} :
        \E d \in Steps[q] :
          d.kind = "dataset" /\ d.def.name = task.dataset /\ ~ Serves(d.def, task)}]

\* At any moment, between two upserts or after a crash, every task a learner
\* can open names a dataset that is there and serves it, unless a release that
\* was seeded took away what it needs: part old and part new works as a whole.
TasksRunThroughout ==
  \A key \in DOMAIN db.tasks :
    LET task == db.tasks[key].def
    IN /\ task.dataset \in DOMAIN db.datasets
       /\ \/ Serves(db.datasets[task.dataset], task)
          \/ \E q \in 1..seed.rel : task \in TakenAway[q]

\* The database holds the content the seed loads, with the answers it loads.
LoadsAgain ==
  /\ Loaded(seed.rel)
  /\ AnswersAreBaked
  /\ Seeding /\ Step.kind = "task" => seed.answers = baked[Step.level]

\* "Idempotent: uses upserts keyed by unique constraints" (seed.ts:7): running
\* the seed over a database it has loaded changes no row.
ReseedingChangesNothing == [][db' = db \/ ~ LoadsAgain]_vars

\* The seed of valid content fails only when the answers it loaded were not baked
\* from the content it is loading.
FailsOnlyWhenStale ==
  [][seed'.exit = "error" /\ seed.exit # "error" /\ AllValid[seed.rel]
     => seed.answers # Bake[seed.rel][Step.level]]_vars

\* The last release gets into the database whole and gradable, whatever died on
\* the way.
ContentGetsIn == <>[]InSync
=============================================================================
