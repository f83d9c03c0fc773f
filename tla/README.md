# sql-education in TLA+

`sql-education` teaches SQL: learners work through blocks of theory and tasks, submit
queries that are graded in a sandbox, earn XP per level, and may ask an AI tutor a limited
number of questions per block. It is a NestJS service (`apps/api`, PostgreSQL through
Prisma, Redis, RabbitMQ, SMTP, an LLM provider) and a Next.js front end (`apps/web`), with
the shared schemas in `packages/contracts`.

This directory holds a model of it: TLA+ modules, TLC configurations that check them on
small instances, and theorems proved with TLAPS for every instance.

The hazard most of it turns on is the same. The service is one Node process: a handler runs
without interruption from one `await` to the next, and **at every `await` any other handler
may run**. Almost every rule of the system ("XP once", "a code every 60 seconds", "10
questions", "one refresh at a time") is a check at one `await` and an effect some awaits
later. So an action is what happens from one awaited call to the next, and the properties
are about what another request, a failure, a restart or a late answer can do in between.

## Contents

1. [Inventory](#1-inventory)
2. [Modules and how they correspond to the code](#2-modules-and-how-they-correspond-to-the-code)
3. [Runs](#3-runs)
4. [Fairness](#4-fairness)
5. [Theorems](#5-theorems)
6. [Findings](#6-findings)
7. [What is only model-checked, and what is not modelled](#7-what-is-only-model-checked-and-what-is-not-modelled)

To check a module: `tlc -config MCStudyConcurrent.cfg MCStudy`; to prove:
`tlapm StudyProofs.tla`.

## 1. Inventory

| Component | State | Operations | Hard behaviour | Correct when |
| --- | --- | --- | --- | --- |
| Study (`study.service.ts`) | `UserTaskProgress`, `UserBlockProgress`, `UserLevelXp` | `submit`, `reveal`, both ending in `reevaluateBlockCompletion` | lock checked several awaits before the write; status read, then written; check and award in one READ COMMITTED transaction; failure between recording the last task and crediting | blocks are credited in order, XP is exactly what the credited blocks are worth, a resolved task stays resolved, a resolved block is credited in the end |
| Progression (`progression.ts`) | none | `computeBlockStatuses`, `isBlockComplete`, XP amounts | orders with gaps, several levels | statuses agree with "the block before is completed" |
| Content (`content.service.ts`) | none | `getDashboard`, `getBlockContent` | several queries, not one snapshot | what is shown was earned, LOCKED is never served |
| Study pages (`DashboardView`, `StudyView`, `TaskCard`, query cache) | cached answers, two copies of the statuses | submit, reveal, refetch, navigate, reload | stale and late answers, failed requests that were recorded, overlapping requests and other tabs | no page is ahead of what the server recorded |
| Grading (`grading/*`) | none | guard, sandbox run, comparison | comments and semicolons, duplicates, cells that print alike | the verdict is that of the reference comparison |
| Sandbox (`sandbox/*`) | one worker and one timer per query | `runGraded`, `executeInSqlite` | answer, error, exit and timer race | settled once, worker always ended, good queries fail by the timer alone |
| Registration (`auth.service.ts`) | `User.status`, Redis code, attempts, cooldown | `register`, `activate`, `resendCode` | check-then-act on every key, keys that expire, failure between account and code | guesses are bounded, the code on file is on its way to the user, nobody is stuck PENDING |
| Mail (`mail/*`) | RabbitMQ channel and queue | `enqueue`, consumer, inline fallback | duplicate, lost and failed deliveries, a channel that closes, restarts | a code that is stored is mailed, and mailed twice only by a fault |
| Sessions (`auth.service.ts`, `token.service.ts`, `jwt-auth.guard.ts`) | Redis `refresh:jti`, cookie, access tokens | `login`, `refresh`, `logout`, `getMe` | rotation is get, find, delete, store; tokens outlive the account | a login has one live session unless two refreshes had both found it alive; a logout ends the whole chain of rotations unless a refresh was past its look at the jti |
| Users (`users.service.ts`) | `User.displayName` | `updateProfile`, `getProfile` | the row may be gone | the page hears of it |
| Test accounts | `User.testAccountExpiresAt`, Redis key per address | `createTestAccount`, the cleanup each minute | deletion under running requests; address limit checked, then set | the requests of a deleted account end |
| AI tutor (`ai/*`) | `UserBlockAiUsage` | `askStream`, retries of `completeStream`, `incrementUsage` | quota read before a long stream, charged after it; retries of a stream | bounded overrun, a reply is of one attempt, charged iff answered |
| Tutor drawer (`AiTutorDrawer`, `lib/api/ai.ts`) | questions left, the input, the growing text | send, close (abort), reopen, leave, refetch | turns that outlive their drawer, page data older than the last answer | no question is withheld, one reply is shown, the input comes back |
| API client, AuthProvider (`apps/web`) | `tokenStore`, `refreshInFlight`, user, cookie | `request` with refresh and retry, bootstrap, `login`, `logout`, `updateProfile` | concurrent 401s, answers after a logout | no needless logout, no endless retry, logged out stays logged out |
| Seed (`prisma/seed`) | `Level`, `SandboxDataset`, `Block`, `Task` rows, baked answers | `validate.ts`, `seed.ts` | one upsert after another over what learners use, scripts that die, answers baked from other content | tasks run at any moment unless an edit took away what they need, success means loaded, the content gets in |
| Auth pages, presentation, prompts, configuration, health | forms, rendering; none | | | |

How they interact. The pages call the API through `request`, which answers a 401 with a
shared refresh; only the tutor's stream goes around it. Behind `JwtAuthGuard`,
`StudyController` calls `StudyService`, which asks `ContentService` for the lock,
`GradingService` for the verdict (and that the sandbox), and writes progress that the
dashboard and the study pages read back through a cache. `AuthService` writes users to
PostgreSQL and codes, cooldowns and jtis to Redis, and hands mails to `MailService`, which
publishes them to a queue that the same process consumes. The cleanup job deletes users at
any time. The seed writes the tables all of this reads.

The compositions modelled follow these arrows: `Registration` = Activation + MailQueue,
`TutorDrawer` = AiTutor + the drawer, `WebAuth` = Session + the browser, and `SessionChains`
over either, `StudyPages` = the writes of StudyService for one learner + the reads + the pages,
`Grading` = Sandbox + guard + comparison, `Seeding` and `TaskAnswers` over the curriculum
itself.

## 2. Modules and how they correspond to the code

### Progression, ProgressionWalk

`Progression` has the curriculum as constants (`Levels`, `Blocks`, `Tasks`, `LevelOf`,
`OrderOf`, `BlockOf`, `XPPerBlock`), with the constraints of `schema.prisma` as an assumption
(a block's order is unique in its level; orders need not be consecutive), and the rules of
`progression.ts` as operators: a block is COMPLETED if credited, else IN_PROGRESS if it is the
first of its level or the block before it is credited, else LOCKED. `ProgressionWalk` is the
algorithm as written, a sort and a walk with a flag; that it computes the rule is proved.

### Study, Curriculum

`Study` is the write side. A request slot `r` has a program counter `pc[r]` naming the
database call it awaits, the operation `op[r]`, and the status it read, `seen[r]`.

| Action | Code |
| --- | --- |
| `Arrive` | a submission, with its verdict, or a reveal of a task |
| `CheckLock` | `assertBlockUnlocked` -> `resolveBlockStatus`; a LOCKED block ends in 403 |
| `ReadStatus` | `userTaskProgress.findUnique` |
| `WriteSubmit` | the upsert of `submit`: `attempts` incremented, status as computed from what was *read* |
| `WriteReveal` | the upsert of `reveal`, skipped when the task read as COMPLETED |
| `Reevaluate` | the reads of `reevaluateBlockCompletion`; not complete ends the request |
| `TxRead`, `TxWriteBlock`, `TxCommit` | the transaction: its read of the block row, the upsert that takes the row's lock, and the commit that makes the row and the XP increment visible |
| `Fail` | a call that throws, a rolled back transaction or a dead process |

The verdict of the grader is an input, `correct`, since what is recorded depends on nothing
else. `Curriculum` is the abstract specification: tasks of open blocks are resolved, blocks
whose tasks are resolved are credited once. `Study` implements it with
`taskStatus <- ShownStatus` (a missing row shows as NOT_STARTED) when a user has one request
at a time; `CompletedTaskStays` and `XpExact` fail when two overlap (section 6).

### StudyPages

What a learner sees. `Ask` is a click on a card and `Elsewhere` a request from another tab; both
are handled as `StudyService` does it, call by call: `HandleRead` (the lock, then the status),
`HandleWrite` (the upsert of what was computed from the status *read*), `HandleCount`,
`HandleCheck` and `HandleCredit` (the re-evaluation), with `Fail` and `Disconnect` in between. So
requests about one task interleave as in `Study`, and rows can be taken back. Two histories say
what happened: `recorded`, the statuses a row has ever had, and `overlapped`, the tasks about
which a request came while another had not yet written.

A read is several queries (`ReadCompleted`, `ReadXp`, `ReadTasks`) with writes in between; its
answer arrives (`Arrived`) in React Query's cache. The learner keeps three copies of the
statuses: the cache, the page's map, and each task card's own state, seeded when the card is
mounted. `Receive` brings an answer to the card, or to the map alone when the card is gone;
`OpenBlock`, `OpenDashboard` and `Load` are navigation, after which nobody takes the answers
under way, and `FetchFails` unmounts the cards for an error.

### Activation, MailQueue, Registration

`Activation` is one e-mail address: `account`, and the three Redis keys `code`, `attempts`,
`cooldown`. Each awaited call of `register`, `activate`, `resendCode` and `provisionCode` is an
action, and so are the expiries of the code and the cooldown. `orderly` is a history variable:
no two requests have overlapped and none has failed. Promises of the code that are lost under
overlap are stated for orderly histories. An example of what overlap does: a wrong guess
compared with the previous code may be counted against, or burn, the next one.

`MailQueue` is the way of a mail. `Enqueue` publishes it, publishes it to a full buffer *and*
sends it inline, or sends it inline because there is no channel; `EnqueueThrows` is the publish
on a closed channel, which nothing catches. The consumer sends, then acknowledges; `Close` and
`Restart` give back to the queue what was not acknowledged. After `Close` the producer's channel
stays closed until a restart, as in the code.

`Registration` composes them in one process: the `mail` call of `Activation` is the `Enqueue`
of its code, and a restart ends the requests in flight as well. Only mails with a code are
followed; the welcome mail takes the same way, and that it may throw before the code is mailed
is a failure of the request.

### AiTutor, TutorDrawer

`AiTutor` is the turns of one user on one block: `used` is the usage row, and each turn reads
it, streams tokens with retries, and increments it after the stream. `answered` and `lost` are
history, for the books. A client that goes away does not stop its turn: the controller drains
the generator all the same.

`TutorDrawer` adds the client: `Send` asks and reads the turn's events, `Close` aborts the
stream and, as in the code, leaves `sending` what it is, `Remount` and `Refetched` take over
`initialRemaining` from page data that may be as old as the cache, `Break` is the failing
connection. An event that comes after the abort reaches nobody.

### Session, WebAuth, SessionChains

`Session` is the server: a session is a number that stands for the access token, the refresh
token and the jti that one `issueSession` creates. `valid` are the sessions with a jti in
Redis, `expired` says which access tokens have expired. Requests run on exchanges, each with
an endpoint, what its handler awaits, the token it carries and the session in its answer.
`SessionSpec` lets clients send anything they were ever given, on any exchanges.

`WebAuth` adds the client the repository ships, on the same exchanges: a page `p` has
`token[p]` (`tokenStore`), `user[p]`, and slots that run flows (`boot`, `login`, `profile`,
`logout`, `api`); the exchange named `p` itself is the page's `refreshInFlight`. `Got401`
joins or starts the refresh; `Refreshed` stores the token and sends every waiting request
again (`_retried`); `RefreshFailed` clears the page. The logins by activation and by test
account do the same with their answer as `login` and are covered by it. `UsesSession` says
that the shipped client is one of those `SessionSpec` allows.

`SessionChains` observes either of the two. `chain` names the login each session goes back to,
through any number of rotations; `ended` are the chains that a logout found alive with no refresh
of them past its look at the jti; `raced` are those of which two refreshes had found one session
alive before either deleted it. Both windows are real: `refresh` gets the jti, awaits the owner
and only then deletes the jti, and `del` is not asked whether it deleted anything. Two refreshes
in that window leave two live sessions of one login; a logout in it, or one whose cookie a
refresh has just rotated away, leaves the session the refresh then issues.

Simplifications: a page is reloaded only when it has nothing under way; the double mount of
React's development mode and navigation are left out; refresh tokens and their keys live 7
days, longer than any modelled behaviour; the account is ACTIVE.

### Sandbox, ForbiddenStatement, ResultComparison, Grading

`Sandbox` is one run: `RunGraded` spawns the worker and arms the timer, `Prepare`, `Push` and
`Finish` are the executor, `Post` its one message, `WorkerFails` and `WorkerExits` the ways to end
without one, `TimerFires` and `Deliver` the events that call `finish` (`Settle`). A query is what
executing it does: the rows it returns and how it ends. Runs share nothing, so one is modelled.
`ForbiddenStatement` is the guard, over texts as sequences of tokens, next to a reading of SQL
comments it is checked against (the first word of the code is SELECT or WITH, a semicolon is the
last of it; a text that leads with WITH may also write); `ResultComparison` is `compareResults`
over typed cells, next to the reference relation; the order its sort uses is one total order of
the keys, since no other property of it matters. `Grading` is the handler around them.

### ContentTypes, NoviceContent, JuniorContent, MiddleContent, Registry, Seeding, TaskAnswers

The curriculum itself, translated file by file: per block its datasets (tables and columns, as set
up and as shown) and its tasks (the dataset, the tables their query reads, the mode, and the
answer as ranks: rows the `ORDER BY` does not tell apart share one). `Seeding` runs `validate.ts`
and `seed.ts` over it, one action per upsert or baked file, with an author who edits (`Edit`) and
scripts that die (`Crash`). The plan of a release is nested as the loops of `main` are: level,
block, and in a block its datasets, the block and its tasks; `seed.at` is a position in it and
`After` the next. An edit may take away: nothing in the scripts keeps a table that tasks of an
earlier release read, and seeding deletes no task. `TaskAnswers` asks what the comparison says of
answers that differ from the reference only in what a task's text leaves open.

### Proof modules

`ProgressionProofs`, `StudyProofs`, `StudyPagesProofs`, `RegistrationProofs`, `SessionProofs`,
`AiTutorProofs`, `GradingProofs`, `SeedingProofs`: section 5.

## 3. Runs

| Run | Question | Bounds |
| --- | --- | --- |
| `study_concurrent` | What survives every interleaving of submissions and reveals, with failures? | 1 user, 2 requests at a time, a block of 2 tasks and the one it unlocks, 2 submissions per task |
| `study_serial` | With one request of a user at a time, does the service keep its promise exactly, and make up for failures? | 1 user, the same curriculum |
| `study_pages` | Is any page ever ahead of the server, and is the walk the predecessor rule? | 3 blocks with a gap in the orders, 2 of them followed as pages; one task in the first; one read under way, 2 requests altogether, of the page or another tab |
| `seed` | What can learners open while the content is loaded, and does it get in? | the whole curriculum and an edit that adds a table and a task and takes a table and a task away; 2 crashes, each in the first or the last block, or between baked files |
| `registration` | What survives overlap of requests about one address and one fault anywhere between the request and the inbox? | 2 requests, 2 codes, cap of 2 guesses, 1 failure or fault |
| `ai_overlap` | How far can the quota be overrun, what may a retry send, what is charged and shown, does the input come back? | a drawer and other tabs, 2 turns, cap 2, 1 retry, 2 tokens per attempt |
| `web_auth` | Rotation, single flight, retry and logout with expiring tokens, a deleted account, a failure | 1 page, 2 requests, 2 sessions, 1 failure; and, as other behaviours, 2 exchanges of clients that present any token |
| `grading` | Is the verdict right, once, whatever the text, the query and the order of events? | texts of up to 5 tokens; results of up to 3 rows of 3 cells, two of which print alike; a cap of 3 rows |
| `study_downgrade`, `study_double_xp` | What overlap breaks (findings) | 1 block of 1 task, 2 requests |
| `web_logout` | Is a page that logged out logged out? (finding) | as `web_auth`, no failure |
| `ordered_ties` | Do right answers pass? (finding) | every seeded task |

Why the bounds are enough. Each race modelled is between two handlers on one row or key; a third
handler adds more of the same (and the theorems remove the bound where they apply). Two tasks in
the first block let a re-evaluation see a half-resolved block; the block behind it lets a late
credit reach the next block's lock; the gap in the orders tells "the block before" from "the order
minus one". Two submissions per task are a first that creates the row and a second that updates
it. Two codes are the one on file and the one that replaces it: under a slow guess, or after a
loss. With one failure the first may be lost and the second is the one the resend must bring,
which `PendingGetsTheMail` asks: its exception is that both were lost. A cap of 2 makes the first
guess and the last one different; two tokens make an interrupted reply different from an empty and
from a complete one. Two sessions are one that is rotated and the one it becomes; a refresh past
them counts as the failure it would be, and a refresh about to issue is counted with the sessions
that live. Two requests in `study_pages` are the two that can overlap. There the followed pages
are one with a task and the one it opens; which of two reads overtakes the other does not matter,
as their answers go to different keys of the cache. Five tokens hold a comment, the code it hides
and what follows it, and `GuardAdmitsQueries` holds for any number of them; three rows hold a
duplicate in any position, and a fourth breaks the cap. The scripts of the seed may die at a step
whose block is half written and learners' tasks already refer to, and at one late enough that the
earlier levels are new and the last one is old.

**study_concurrent.** `CompletedIsPrefix` and `ProgressOnlyInOpenBlocks`: the lock check, made
many awaits before the write, never becomes untrue, because blocks are only ever credited.
`CreditedBlockWorkedThrough`: every task of a credited block has a row (that it is still
*resolved* is false under overlap). `XpCoversCompleted`, `XpBounded`: increments are never
lost, and a block is paid at least once and at most once per overlapping request.

**study_serial.** `KeepsPromise`, the refinement of `Curriculum`: XP once, no resolved task
taken back. `ResolvedBlockGetsCredited`: if the request that resolves a block dies before the
credit, the next submit or reveal in it makes up for it.

**study_pages.** `ShownIsEarned`: cards, page and dashboard never claim a task, a count or XP the
server has not recorded, through failed requests and torn reads; and a task shown COMPLETED still
is, unless requests about it have overlapped. With overlap it need not be: a reveal that read the
row before a submission completed it writes SKIPPED over it, and the card says COMPLETED.
`ShownOpenIsOpen`: a block the dashboard lets one click is open, however old its answer.
`WalkMatchesPredecessorRule`.

**seed.** `TasksRunThroughout`: at every moment, between two upserts or after a crash, a task
names a dataset that is there, with the tables it reads and the schema shown, unless the content
itself takes a table away (`TakenAway`): then the old task is broken from the upsert of its
dataset to its own, and for good if the content no longer has it.
`SuccessMeansLoaded`, `ReseedingChangesNothing`, `FailsOnlyWhenStale`, `ContentGetsIn`: what a
run of the scripts means, and that the documented workflow ends with the content in.

**registration.** `MissesBounded` bounds the wrong guesses one code can be compared with, also
when resends reset the counter under it. `CodeOnFileIsOnItsWay`, `ActiveHasNoCode` and
`BurnsOnlyExhaustedCodes` are for orderly histories. `CopiesExplained`: a mail is sent once,
and once more for each fault at most. `PendingGetsTheMail`: what fails is made up by the
resend. It excepts the closed channel, from which the code does not recover before a restart, and
a behaviour in which each of the codes there are was lost (`NeverMailed`: in no request's hands, not
queued where it can be delivered, not sent).

**ai_overlap.** `QuotaOverrunBounded`: the cap is exceeded by the other turns under way at
most (the cap itself, which `docs/architecture/data-model.md:186` states, is not kept under
overlap). `ChargedIffAnswered`, `NothingWithheld`, `ShownIsOneReply`, `InputComesBack`.

**web_auth.** `OneSessionPerLogin` and `LogoutEndsChain`, with the shipped client and with clients
that present whatever they were given, outside the two windows of `SessionChains`;
`NeverRefusedForNothing` and `CookieIsLive`, what the single flight is for: without failures
and logouts, the browser never presents a cookie it had rotated, however many requests find
their token expired at once; `EveryFlowEnds`; `UsesSession`.

**grading.** `GuardAdmitsOneQuery`: what the guard passes leads with SELECT or WITH, and but for
semicolons in comments it passes exactly the single queries and the single statements that write
under a WITH. `VerdictMatchesAnswer` (UNORDERED rows are compared as multisets),
`OnlyTheTimerFailsGoodQueries`, `SettlesOnce`, `WorkersEnd`, `EverySubmissionIsGraded`.

Every property of a passing run is known to be breakable: a definition marked "Defect" beside
an action is that action with a plausible bug, and putting it in its place makes TLC find the
property violated.

Deadlock is not checked in `grading` alone, where one submission is followed to its end.

## 4. Fairness

Fairness is only ever on the steps the runtime takes by itself.

- *Handlers* (`WF` on `Serve`, `Handle`, `Turn`, `Request`, `Refuse \/ Admit \/ Run`, `Grade`):
  the event loop resumes a handler whose call has returned, and database and Redis calls return
  or fail. A provider's stream ends or fails: its client library has a timeout.
- *Browsers* (`WF` on `Receive`, `ReceiveRefresh`): an answer that arrived is delivered.
- *Workers* (`SandboxFairness`): an armed timer fires, a terminated worker ends, an event that
  arrived is handled. Nothing is assumed of the worker's own steps: it may hang.
- *The broker* (`WF` on `Send \/ Ack`): what is queued is delivered while there is a channel.
- *Clocks* (`WF` on `ExpireCooldown`): a TTL runs out.
- *Scripts* (`WF` on `SeedStep`, `WriteBaked`): a script that runs goes on, or dies.
- *Users* only where the property is about a user who keeps going: a learner asks again in a
  block (`AskAgain`, for `ResolvedBlockGetsCredited`), a pending user asks for a code
  (`StartResend`, for `PendingGetsTheMail`), a page with a user makes requests (`Api`), the
  author follows the documented workflow (`Validate`, `StartSeed`, for `ContentGetsIn`). `SF`
  where what they wait for (a free slot, a script that ended) is there again and again but not
  always.
- `FailuresCease` in `study_serial`: at some point requests stop failing. In the other modules
  failures are bounded, or end what they hit.

Never assumed: that a user logs in again, that no failure happens, or an order among handlers.

## 5. Theorems

All are proved for every value of the constants, from the assumptions the modules name:
finite slots, unique orders per level, positive caps; in `RegistrationAssumption`, that the
codes are among the mails; in `PagesAssumption`, that the learner is a user and the pages
followed are of blocks; in `GradingAssumption`, that texts are made of the tokens
and rows of cells; in `ContentAssumption`, that within a release a dataset name stands for one
dataset and a place for one task. No script checks that; TLC evaluates it for the repository's
curriculum and the edit of it. Nothing is assumed of what an edit keeps.

**StudyProofs** (with lemmas of ProgressionProofs): `TypeCorrectness`, `CreditsAreAPrefix`,
`NoProgressBehindALock`, for any curriculum, number of users, overlap and failures.
`CompletedIsPrefix` is not inductive: a commit adds a block, and that the blocks before it are
credited was checked seven calls earlier. The inductive invariant adds `RequestsKnown` (a slot
in use knows its operation) and `LockCheckHolds` (the block of a request past its check is
open *now*). It is preserved because crediting only ever opens blocks (`OpenIsMonotonic`), and
because asking for the immediate predecessor, as the code does, is as good as asking for all
blocks before while the completed set is a prefix (`UnlockedMeansOpen`, which rests on
`PredecessorExists`, the existence of a maximal block below).

**ProgressionProofs**: `PredecessorExists`, and `WalkUnlocksByPredecessor`: given the blocks of
a level in order, the flag the walk carries is the predecessor rule at every block. With
`SortListsInOrder` (the sort lists every block once, by order) this gives
`WalkGivesBlockStatus`: sort and walk compute the rule, for every curriculum.

What is credited, in the same module. `CreditsAreWorkedThrough`: what a request past its
evaluation knows (`CreditingWorked`) stays true because rows are never deleted. `CreditsPay` and
`OverlapBoundsXp`: `XpBounded` alone is not inductive, since a transaction past its guard will
still pay for a block that another has credited meanwhile; `LateInv` adds what these *late*
transactions are about to pay to the left side of the bound, and `FlightInv` bounds them by the
requests a user can have. `SerialXpIsExact` follows for `MaxInFlight = 1`. `SerialKeepsPromise` is
the refinement for `MaxInFlight = 1`: `Alone` (one request per user) makes `StillSo` an invariant
(what a request has read is still so when it writes), and under it each write is a resolution, a
credit or a stutter of `Curriculum`.

**AiTutorProofs**: `TypeCorrectness`, `OverrunIsBounded`, `RepliesAreOfOneAttempt`,
`TheBooksBalance`. The bound on the overrun is not inductive: a turn at its increment could be
any number of turns past the cap. `OverrunInv` bounds what is charged and what may still be
charged together: every admission saw usage below the cap. `BackoffInv` says that a turn that
backs off has sent nothing; `AccountInv` counts.

The drawer is in the same module: `DrawerTurnsAreTurns`, that the composition implements
`AiTutor`, so that `OverrunIsBoundedWithDrawer` follows; `NoQuestionIsWithheld` and
`OneReplyIsShown` by `DrawerInv`, which adds that no turn knows of more usage than there is
(`SlotsInv`): usage only grows, and what remains only shrinks, so an old number never withholds
a question.

**SessionProofs**: `TypeCorrectness`, `LoginHasOneSession`, `LogoutIsFinal`, for any number of
exchanges and for clients that present any token they were given. `HandlersOwnCalls` ties what
an exchange awaits to its endpoint; without it an exchange about to issue, or answered, could
carry any token. `OneSessionPerLogin` is not inductive: a refresh that has found a session alive
will mint another. `ChainInv` says of a chain that was never raced that one of its sessions lives
or is about to (`OneHeir`), that a refresh past its look holds the only one (`OneHolder`), and of
one that ended that no refresh is left to bring it back (`Over`); dead ids stay dead because they
are issued once. `ShippedClientIsAClient`: `WebAuth` implements `SessionSpec` for any number of
pages and requests. `CallsKnown` and `SlotsQuiet` say what a waiting slot still has (its call, no
exchange), so that resuming it is a request of a client; the corollary `ShippedClientRotates`
takes both properties over to it.

`SingleFlightIsNeverRefused` and `CookieStaysLive` are about one page, with any number of
requests and sessions; with two pages they are false (section 6). Neither is inductive: that the
cookie presented is live depends on who else may be refreshing. `CookieInv` follows the cookie
through a rotation: live unless a refresh holds it; what a refresh holds is live until that
refresh deletes it; what it has minted since is nobody else's and not yet in the browser.
`PageInv` is the single flight: whoever refreshes does it on the page's one exchange, but for
the bootstrap, which runs alone.

**GradingProofs**. The sandbox: `GoodQueriesFailByTimeoutAlone`, `ResultsAreWhole`,
`NoRunGoesUnwatched` by `SInv` (the worker has counted as many rows as it read, what is posted is
an answer of this query, an unsettled run is timed), and `PromiseSettlesOnce`, for any cap and any
queries. The guard: `GuardAdmitsQueries`, for texts of any length, those that lead with WITH
included. The guard and the reading of SQL are recursive functions, and what they compute is an
induction on the text. No induction theorem is needed: that a recursive equation has a solution,
and that the two scans agree, is shown at the least or greatest position where it would not be so,
which exists because `<` is well founded on Nat. `CommentLasts` says that the reading stays in a
comment to its end marker; `StartStopsAtCode`, that the guard's jumps over comments end at the
first code the reading finds. The comparison: `ComparisonIsSameness`, for results of any size.
That two sequences of keys sort alike exactly when they pair up (`SortedAlike`) needs only that
the order is one (`KeyTransitive`, `KeyTotal`): if one sorted sequence held a smaller key
anywhere, the keys up to there would all have to fit below that place in the other (`NoneSmaller`,
a pigeonhole). The handler: `VerdictsAreRight` by `VerdictInv`, and `GradingRunsTheSandbox`, that
it takes no step in a run that `Sandbox` does not allow, so `GradedQueriesFailByTimeoutAlone`
follows.

**RegistrationProofs**, for any number of requests, codes and faults: `TypeCorrectness`;
`MailsAreExplained`. `CopiesExplained` is not inductive: a queued mail can still be sent, so
`MailInv` says it has had one fault fewer; a mail not yet handed over (`Fresh`) has had none, and
`CodesInv` says that no two requests hold one code, so none is enqueued twice.
`MissesAreBounded`, by `MissesInv`: a code survives what the counter holds, plus one cap less one
for each request that has or can no longer reset it, plus the guesses being compared and those
lost in failures and crashes (`Allowance`). Every step that lets a guess go uncounted uses some of
that up. `ActiveAccountsHaveNoCode`, `CodesOnFileAreOnTheirWay` and `OnlyExhaustedCodesAreBurnt`
by `OrderlyInv`: while requests have not overlapped, what the one under way has read is still so
when it acts on it.

**StudyPagesProofs**: `OpenOnThePageIsOpen`, `ShownWorkIsRecorded`, for every curriculum, any
pages, any number of requests, torn reads, failures and other tabs; `WalkAgreesWithRule` by
ProgressionProofs. `PagesInv` follows every copy of a status from the rows a read has fetched,
through the cache and the page's map, to the card and back from the answers under way: each is a
status the row had when it was taken. Rows may be taken back, but credits, XP and the history
`recorded` only grow (`Grows`), so an answer may be late or a copy stale, but never ahead of what
was recorded. That the row still has it is `KeptInv`: a task whose requests have not overlapped
has one that will write its row at most, and that one writes what follows from the row as it is.

**SeedingProofs**, for any content, any number of edits, and scripts that die at any step any
number of times: `SeedsLoadTheirContent`, `TasksAlwaysRun`, `SeededTasksWork`,
`ReseedingIsIdempotent`, `OnlyStaleAnswersFail`. `SuccessMeansLoaded` is not inductive:
`WrittenIsInPlace` says it of what the running seed has come past, and survives an upsert because
keys are unique (a later row of one name is the same row). That nothing is skipped is
`AfterIsNext`: no position lies between one and the next. `TasksRunThroughout` needs to know where
each row came from: `TasksAreProvided` has every task of a release r that was seeded and its
dataset of r or a later one, which holds because a seed never loads an older release than the seed
before it, and because a block's datasets come before its tasks (`DatasetsComeFirst`). Where that
dataset does not serve the task, the content has taken away what it needs, which is the property's
exception. `SeededTasksWork` says how long it lasts: after a seed that succeeds, every task of its
content works that its own release serves.

## 6. Findings

| Run | What the code does | What it says |
| --- | --- | --- |
| `study_downgrade` | a wrong submission that read the status before a correct one was recorded writes NOT_STARTED back over COMPLETED | a wrong submit does not downgrade a completed task |
| `study_double_xp` | two transactions at READ COMMITTED both read the block as uncredited, and both add its XP | XP exactly once |
| `web_logout` | the answer to a profile update that arrives after a logout sets the user again | "drop local auth so the user is logged out" |
| `ordered_ties` | column names the text does not give, and the order of rows its `ORDER BY` leaves open, are compared | a correct query matches the expected output |

Also true of the code, and not given runs: two resends that both find no cooldown both issue a
code; overlapping turns exceed the cap of questions; with two requests at a time a credited
block need not stay resolved (a consequence of the downgrade); after a lost channel every
publish throws until the process restarts; a drawer closed during a question stays blocked when
it is opened again; a refetch that was under way when a task is solved puts the page's older
statuses back, while the card keeps its own; two tabs that refresh at once present the same
cookie and one is logged out, since the single flight is per page; a bare-number token lifetime
is seconds in `parseDurationSeconds` and milliseconds to the JWT library; the guard takes a
semicolon in a comment for the end of the statement and reads on from inside the comment, so of
such a text it says something else than a reader of SQL would, in either direction; it admits
`WITH ... DELETE`, though `docs/architecture/overview.md:102` and
`docs/reference/glossary.md:48` have it admit a single read-only SELECT/WITH (the database is
made for the run, so nothing is lost); UNORDERED rows are compared as multisets, where
`docs/reference/glossary.md:38` says "as sets" (the comment in the code and the tests say
multisets); of two refreshes that both found one session alive each issues the next, and a logout
at that point leaves the refreshed session alive; overlapping requests about one task leave a
card that says COMPLETED over a row that is SKIPPED or NOT_STARTED; an edit that takes a table
away breaks the tasks that read it until they are seeded again, and for good those it no longer
has.

## 7. What is only model-checked, and what is not modelled

Only model-checked:

- all liveness (`ResolvedBlockGetsCredited`, `PendingGetsTheMail`, `InputComesBack`,
  `EveryFlowEnds`, `WorkersEnd`, `EverySubmissionIsGraded`, `ContentGetsIn`), which TLAPS does
  not do;
- what TaskAnswers says of the curriculum's own tasks, given by value.

Not modelled, and why:

- SQL itself, the tutor's prompts and the sanitising of its replies, e-mail texts,
  presentation: functions of text without state the rest depends on.
- String literals and overlapping comment markers in submissions: the guard knows neither, and
  it takes a semicolon in a string for the end of the statement, as it does one in a comment.
- The creation of test accounts with its limit per address (checked before the account is
  created, recorded after: concurrent requests each pass).
- The auth pages (their countdown and code input), configuration, health, start-up: state of
  one component, read once, or constant.
- Two tabs of one browser: the modules allow several pages, but with two the properties of the
  single flight fail as they do in the code, and no text promises them.
- The unit and expiry of refresh tokens, and the order in which a prefetching consumer sends:
  any order is allowed instead.
- The coercion of seeded JSON, hints, theory texts and cell values of the curriculum.
