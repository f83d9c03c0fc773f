----------------------------- MODULE StudyPages -----------------------------
(***************************************************************************)
(* What a learner sees: the reads of ContentService                        *)
(* (apps/api/src/content/content.service.ts), React Query's cache of their *)
(* answers (apps/web/src/app/providers.tsx), and the dashboard and study   *)
(* pages with their task cards (apps/web/src/components/study/).           *)
(*                                                                         *)
(* The server is StudyService for one learner, at the grain the pages can  *)
(* tell apart: a request reads the row of its task, writes what it makes   *)
(* of it, counts the block's tasks, and credits the block in a transaction *)
(* that reads before it writes (Study.tla has the rest).  The requests of  *)
(* this page, of pages that were left and of other tabs go on side by side *)
(* and may overwrite each other's rows.  A read for a page is several      *)
(* queries, between which they write.  The learner keeps three copies of   *)
(* the statuses: the cache, the page's map (statuses) and each card's own  *)
(* state (cards), seeded when the card is mounted and never again.         *)
(***************************************************************************)
EXTENDS ProgressionWalk

CONSTANTS
  Pages,    \* bound: the blocks whose study page is followed
  Requests, \* bound: submits and reveals under way at once, of all tabs
  MaxSent,  \* bound: submits and reveals altogether
  NoData    \* not read, not cached, not mounted, not under way

\* A page is a block's or the dashboard, and no data is not an answer.
ASSUME PagesAssumption ==
  /\ Pages \subseteq Blocks
  /\ "dashboard" \notin Blocks
  /\ MaxSent \in Nat
  /\ \A b \in Blocks : NoData \notin [TasksOf(b) -> TaskStatuses]

Queries == {"dashboard"} \cup Pages

\* A correct submission, a wrong one, or a reveal.
Asks == {"right", "wrong", "reveal"}

\* How far a request is: sent; its task's row read; the row written; its block
\* found complete; that block found not credited yet; done.
Steps == {"sent", "read", "written", "complete", "crediting", "answered"}

\* Who takes its answer: the card and through it the page's map, the map alone
\* when the card is gone, or nobody in this tab.
Takers == {"card", "map", "nobody"}

VARIABLES
  taskStatus, \* the learner's rows: the status of each task, ...
  completed,  \* ... the blocks credited ...
  xp,         \* ... and the XP per level
  recorded,   \* history: the statuses each task's row has ever had
  overlapped, \* history: the tasks about which requests have overlapped
  view,       \* the page that is open, named by its query
  cache,      \* the last answer to each query
  failed,     \* the queries that have data but whose last fetch failed
  fetch,      \* what the handler of each query has read, NoData where none is
  statuses,   \* StudyView.statuses
  cards,      \* the status each mounted TaskCard shows
  sent,       \* how many submits and reveals there have been
  calls       \* the submits and reveals under way, NoData where none is

progress == <<taskStatus, completed, xp>>

server == <<progress, recorded, overlapped>>

page == <<view, cache, failed, fetch, statuses, cards>>

all == <<server, page, sent, calls>>

Nothing == [completed |-> NoData, xp |-> NoData, tasks |-> NoData]

PagesInit ==
  /\ taskStatus = [t \in Tasks |-> "NOT_STARTED"]
  /\ completed = {}
  /\ xp = [l \in Levels |-> 0]
  /\ recorded = [t \in Tasks |-> {"NOT_STARTED"}]
  /\ overlapped = {}
  /\ view = "dashboard"
  /\ cache = [q \in Queries |-> NoData]
  /\ failed = {}
  /\ fetch = [q \in Queries |-> NoData]
  /\ statuses = NoData
  /\ cards = NoData
  /\ sent = 0
  /\ calls = [r \in Requests |-> NoData]

-----------------------------------------------------------------------------
(***************************************************************************)
(* getDashboard and getBlockContent                                        *)
(***************************************************************************)
Unread(q, table) == fetch[q] # NoData /\ fetch[q][table] = NoData

\* Bound: one read under way at a time.
NoFetch == \A q \in Queries : fetch[q] = NoData

\* The page asks: it has no data or stale data when it is mounted or the
\* network is back, or the learner retries.
StartFetch(q) ==
  /\ view = q
  /\ NoFetch
  /\ fetch' = [fetch EXCEPT ![q] = Nothing]
  /\ UNCHANGED <<server, view, cache, failed, statuses, cards, sent, calls>>

\* Defect: a block counted as completed when its tasks are resolved.
GetCompletedBlockIdsByTasks ==
  completed \cup {b \in Blocks : IsBlockComplete(b, taskStatus)}

GetCompletedBlockIds == completed

\* The queries of one answer run in any order; those of a study page's after
\* its lock check, which answers 403 for a locked block.
ReadCompleted(q) ==
  /\ Unread(q, "completed")
  /\ q \in Pages => ComputeSingleBlockStatus(q, BlocksOf(LevelOf[q]),
                                             GetCompletedBlockIds) # "LOCKED"
  /\ fetch' = [fetch EXCEPT ![q].completed = GetCompletedBlockIds]
  /\ UNCHANGED <<server, view, cache, failed, statuses, cards, sent, calls>>

ReadXp(q) ==
  /\ q = "dashboard"
  /\ Unread(q, "xp")
  /\ fetch' = [fetch EXCEPT ![q].xp = xp]
  /\ UNCHANGED <<server, view, cache, failed, statuses, cards, sent, calls>>

\* getTaskStatusMap
ReadTasks(q) ==
  /\ Unread(q, "tasks")
  /\ q \in Pages => ~ Unread(q, "completed")
  /\ fetch' = [fetch EXCEPT ![q].tasks =
       IF q \in Pages THEN [t \in TasksOf(q) |-> taskStatus[t]]
       ELSE [b \in Blocks |-> CountCompletedTasks(b, taskStatus)]]
  /\ UNCHANGED <<server, view, cache, failed, statuses, cards, sent, calls>>

Read(q) == ReadCompleted(q) \/ ReadXp(q) \/ ReadTasks(q)

\* What the dashboard shows of the rows it read.
Summary(read) ==
  [status |-> [b \in Blocks |->
     ComputeSingleBlockStatus(b, BlocksOf(LevelOf[b]), read.completed)],
   solved |-> read.tasks,
   xp |-> read.xp]

\* The answer arrives.  The effect that copies it into the page's map runs
\* when it differs from the one before; the cards take it only when mounted.
Arrived(q) ==
  /\ fetch[q] # NoData
  /\ ~ Unread(q, "tasks") /\ ~ Unread(q, "completed")
  /\ q = "dashboard" => ~ Unread(q, "xp")
  /\ LET answer == IF q \in Pages THEN fetch[q].tasks ELSE Summary(fetch[q])
         shown == q \in Pages /\ view = q
     IN /\ cache' = [cache EXCEPT ![q] = answer]
        /\ statuses' = IF shown /\ answer # cache[q] THEN answer ELSE statuses
        /\ cards' = IF shown /\ cards = NoData THEN answer ELSE cards
  /\ fetch' = [fetch EXCEPT ![q] = NoData]
  /\ failed' = failed \ {q}
  /\ UNCHANGED <<server, view, sent, calls>>

\* Their cards are gone: the answers reach the page's map alone.
WithoutCards ==
  [r \in Requests |-> IF calls[r] # NoData /\ calls[r].taker = "card"
                      THEN [calls[r] EXCEPT !.taker = "map"] ELSE calls[r]]

\* The read fails or is refused.  It is tried once more; then the page shows an
\* error, even when it has data, and its cards are unmounted.
FetchFails(q) ==
  /\ fetch[q] # NoData
  /\ \/ /\ fetch' = [fetch EXCEPT ![q] = Nothing]
        /\ UNCHANGED <<failed, cards, calls>>
     \/ /\ fetch' = [fetch EXCEPT ![q] = NoData]
        /\ failed' = failed \cup {p \in {q} : cache[p] # NoData}
        /\ cards' = IF view = q THEN NoData ELSE cards
        /\ calls' = IF view = q THEN WithoutCards ELSE calls
  /\ UNCHANGED <<server, view, cache, statuses, sent>>

-----------------------------------------------------------------------------
(***************************************************************************)
(* Navigation                                                              *)
(***************************************************************************)
\* The page is gone: its answers are dropped, the requests are still served.
WithoutPage ==
  [r \in Requests |-> IF calls[r] = NoData \/ calls[r].step = "answered" THEN NoData
                      ELSE [calls[r] EXCEPT !.taker = "nobody"]]

\* A page is mounted with what the cache has.
Mount(q, data) ==
  /\ view' = q
  /\ statuses' = IF q \in Pages THEN data ELSE NoData
  /\ cards' = IF q \in Pages /\ q \notin failed THEN data ELSE NoData
  /\ calls' = WithoutPage

\* A locked block's card cannot be clicked.
OpenBlock(b) ==
  /\ view = "dashboard"
  /\ "dashboard" \notin failed
  /\ cache["dashboard"] # NoData
  /\ cache["dashboard"].status[b] # "LOCKED"
  /\ Mount(b, cache[b])
  /\ UNCHANGED <<server, cache, failed, fetch, sent>>

OpenDashboard ==
  /\ view # "dashboard"
  /\ Mount("dashboard", NoData)
  /\ UNCHANGED <<server, cache, failed, fetch, sent>>

\* A page is loaded by its address, of any block: a new cache.
Load(q) ==
  /\ cache' = [p \in Queries |-> NoData]
  /\ fetch' = [p \in Queries |-> NoData]
  /\ failed' = {}
  /\ Mount(q, NoData)
  /\ UNCHANGED <<server, sent>>

-----------------------------------------------------------------------------
(* Requests: TaskCard sends, StudyService serves, TaskCard takes the answer *)
(***************************************************************************)
\* submitting and revealing, of a mounted card.
Busy(t, reveals) ==
  \E r \in Requests :
    /\ calls[r] # NoData /\ calls[r].taker = "card"
    /\ calls[r].task = t /\ (calls[r].ask = "reveal") = reveals

\* A request about task t whose row is still to be written.
Unwritten(r, t) ==
  calls[r] # NoData /\ calls[r].task = t /\ calls[r].step \in {"sent", "read"}

Send(r, t, a, taker) ==
  /\ calls[r] = NoData
  /\ sent < MaxSent
  /\ sent' = sent + 1
  /\ calls' = [calls EXCEPT ![r] = [task |-> t, ask |-> a, step |-> "sent",
                                   status |-> "NOT_STARTED", taker |-> taker]]
  /\ overlapped' = overlapped \cup
       {u \in {t} : \E o \in Requests : Unwritten(o, u)}
  /\ UNCHANGED <<progress, recorded, page>>

\* handleSubmit and handleReveal: each once at a time, but both may be under way.
Ask(r, t, a) ==
  /\ cards # NoData
  /\ t \in DOMAIN cards
  /\ ~ Busy(t, a = "reveal")
  /\ Send(r, t, a, "card")

\* Another tab of the learner's.
Elsewhere(r, t, a) == Send(r, t, a, "nobody")

At(r, step) == calls[r] # NoData /\ calls[r].step = step

\* The handler takes its next step, and that is all when nobody takes its answer.
Proceed(r, step, status) ==
  calls' = [calls EXCEPT ![r] =
    IF step = "answered" /\ @.taker = "nobody" THEN NoData
    ELSE [@ EXCEPT !.step = step, !.status = status]]

\* nextStatus: what a request makes of the status it has read.
NextStatus(ask, read) ==
  IF ask = "right" \/ (ask = "reveal" /\ read = "COMPLETED") THEN "COMPLETED"
  ELSE IF ask = "reveal" THEN "SKIPPED"
  ELSE read

\* assertBlockUnlocked, then the read of the task's row.
HandleRead(r) ==
  /\ At(r, "sent")
  /\ LET t == calls[r].task
     IN /\ Unlocked(BlockOf[t], completed)
        /\ Proceed(r, "read", NextStatus(calls[r].ask, taskStatus[t]))
  /\ UNCHANGED <<server, page, sent>>

\* The upsert overwrites whatever the row has become since it was read.  The
\* answer to a wrong submission is NOT_STARTED whatever the row says.
HandleWrite(r) ==
  /\ At(r, "read")
  /\ LET t == calls[r].task
         status == calls[r].status
     IN /\ taskStatus' = [taskStatus EXCEPT ![t] = status]
        /\ recorded' = [recorded EXCEPT ![t] = @ \cup {status}]
        /\ IF calls[r].ask = "wrong" THEN Proceed(r, "answered", "NOT_STARTED")
           ELSE Proceed(r, "written", status)
  /\ UNCHANGED <<completed, xp, overlapped, page, sent>>

\* reevaluateBlockCompletion: are all tasks of the block resolved, ...
HandleCount(r) ==
  /\ At(r, "written")
  /\ Proceed(r, IF IsBlockComplete(BlockOf[calls[r].task], taskStatus)
                THEN "complete" ELSE "answered", calls[r].status)
  /\ UNCHANGED <<server, page, sent>>

\* ... has the block not been credited, ...
HandleCheck(r) ==
  /\ At(r, "complete")
  /\ Proceed(r, IF BlockOf[calls[r].task] \in completed THEN "answered" ELSE "crediting",
             calls[r].status)
  /\ UNCHANGED <<server, page, sent>>

\* ... then it is, though another request may have done so in between.
HandleCredit(r) ==
  /\ At(r, "crediting")
  /\ LET b == BlockOf[calls[r].task]
     IN /\ completed' = completed \cup {b}
        /\ xp' = [xp EXCEPT ![LevelOf[b]] = @ + XPPerBlock[LevelOf[b]]]
  /\ Proceed(r, "answered", calls[r].status)
  /\ UNCHANGED <<taskStatus, recorded, overlapped, page, sent>>

Handle(r) ==
  HandleRead(r) \/ HandleWrite(r) \/ HandleCount(r) \/ HandleCheck(r) \/ HandleCredit(r)

Over(r) == calls' = [calls EXCEPT ![r] = NoData]

\* updateStatus
UpdateStatus(c, status) ==
  /\ statuses' = [statuses EXCEPT ![c.task] = status]
  /\ cards' = IF c.taker = "card" THEN [cards EXCEPT ![c.task] = status] ELSE cards

Receive(r) ==
  /\ At(r, "answered")
  /\ UpdateStatus(calls[r], calls[r].status)
  /\ Over(r)
  /\ UNCHANGED <<server, view, cache, failed, fetch, sent>>

\* Defect: the status asked for is shown, whatever came of the request.
FailOptimistic(r) ==
  /\ calls[r] # NoData
  /\ Over(r)
  /\ IF calls[r].taker = "nobody" THEN UNCHANGED <<statuses, cards>>
     ELSE UpdateStatus(calls[r], IF calls[r].ask = "right" THEN "COMPLETED"
                                 ELSE IF calls[r].ask = "reveal" THEN "SKIPPED"
                                 ELSE "NOT_STARTED")
  /\ UNCHANGED <<server, view, cache, failed, fetch, sent>>

\* The request fails at whichever of its steps: the card shows an error and
\* leaves the statuses alone.  Nobody sees how the requests of others end.
Fail(r) ==
  /\ calls[r] # NoData
  /\ Over(r)
  /\ UNCHANGED <<server, page, sent>>

\* The connection fails: the card shows an error, the server goes on.
Disconnect(r) ==
  /\ calls[r] # NoData
  /\ calls[r].step # "answered"
  /\ calls' = [calls EXCEPT ![r].taker = "nobody"]
  /\ UNCHANGED <<server, page, sent>>

-----------------------------------------------------------------------------
Navigate == OpenDashboard \/ \E q \in Queries : Load(q) \/ (q \in Pages /\ OpenBlock(q))

PagesNext ==
  \/ \E q \in Queries : StartFetch(q) \/ Read(q) \/ Arrived(q) \/ FetchFails(q)
  \/ Navigate
  \/ \E r \in Requests : Handle(r) \/ Receive(r) \/ Fail(r) \/ Disconnect(r)
  \/ \E r \in Requests, t \in Tasks, a \in Asks : Ask(r, t, a) \/ Elsewhere(r, t, a)

PagesSpec == PagesInit /\ [][PagesNext]_all

-----------------------------------------------------------------------------
\* The walk over the sorted blocks of a level gives each the status its
\* immediate predecessor by order determines, whatever the gaps in the orders
\* (computeBlockStatuses against the rule the lock checks are stated with).
WalkMatchesPredecessorRule ==
  \A b \in Blocks :
    ComputeSingleBlockStatus(b, BlocksOf(LevelOf[b]), completed) =
      BlockStatus(b, completed)

\* However old the dashboard's answer, and whatever the moments its queries
\* ran at, a block it lets the learner click is open on the server, and a
\* study page never shows the tasks of a block that is not.
ShownOpenIsOpen ==
  /\ cache["dashboard"] # NoData =>
       \A b \in Blocks : cache["dashboard"].status[b] # "LOCKED" =>
         Unlocked(b, completed)
  /\ cards # NoData => Unlocked(view, completed)

\* What is shown of task t was once recorded, and the server still has as much
\* unless requests about the task have overlapped.
Earned(shown, t) ==
  /\ shown[t] \in recorded[t]
  /\ t \notin overlapped =>
       /\ shown[t] = "COMPLETED" => taskStatus[t] = "COMPLETED"
       /\ shown[t] = "SKIPPED" => taskStatus[t] \in Resolved

\* The tasks of b that were COMPLETED at some time.
EverCompleted(b) == {t \in TasksOf(b) : "COMPLETED" \in recorded[t]}

\* No page shows what was never so, through failed and overlapping requests,
\* errors that unmount the cards and reads of several moments: a solved or
\* skipped card, the page's count (and with it the block-complete banner) and
\* the dashboard's counts are of work the server had recorded, and XP of what it
\* has.  A page is ahead of what the rows say now only for tasks about which
\* requests overlapped: then one of them has put an older status back.
ShownIsEarned ==
  /\ cards # NoData => \A t \in DOMAIN cards : Earned(cards, t)
  /\ statuses # NoData => \A t \in DOMAIN statuses : Earned(statuses, t)
  /\ cache["dashboard"] # NoData =>
       /\ \A b \in Blocks :
            /\ cache["dashboard"].solved[b] <= Cardinality(EverCompleted(b))
            /\ TasksOf(b) \cap overlapped = {} =>
                 cache["dashboard"].solved[b] <= CountCompletedTasks(b, taskStatus)
       /\ \A l \in Levels : cache["dashboard"].xp[l] <= xp[l]
=============================================================================
