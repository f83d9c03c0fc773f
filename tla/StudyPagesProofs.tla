-------------------------- MODULE StudyPagesProofs --------------------------
(***************************************************************************)
(* Theorems about StudyPages.tla, for every curriculum, any pages and any  *)
(* number of requests: what a learner is shown was so on the server.       *)
(* Everything a page holds - rows read for an answer still to come, the    *)
(* cache, its map of statuses, the cards, the answers it awaits - was true *)
(* when it was taken from the server.  Blocks completed and XP stay so: the *)
(* server only adds to them.  Statuses need not, since a request writes    *)
(* what it made of an older status; what only grows is the history of each *)
(* row (recorded), and it agrees with the row wherever requests about the  *)
(* task have not overlapped (KeptInv).                                     *)
(***************************************************************************)
EXTENDS StudyPages, ProgressionProofs

\* Every status shown of the tasks of block q is one of those in had.
Backed(q, shown, had) ==
  /\ shown \in [TasksOf(q) -> TaskStatuses]
  /\ \A t \in TasksOf(q) : shown[t] \in had[t]

\* The tasks of b that had COMPLETED among their statuses.
CompletedIn(b, had) == {t \in TasksOf(b) : "COMPLETED" \in had[t]}

CountsBacked(counts, had) ==
  /\ counts \in [Blocks -> Nat]
  /\ \A b \in Blocks : counts[b] <= Cardinality(CompletedIn(b, had))

XpBacked(shown, has) ==
  /\ shown \in [Levels -> Nat]
  /\ \A l \in Levels : shown[l] <= has[l]

\* A set of blocks that were credited in turn.
InTurn(credited) == \A b \in credited : Unlocked(b, credited)

\* The server's tables, their history, and that no block was credited past one
\* that is not.
ServerInv ==
  /\ taskStatus \in [Tasks -> TaskStatuses]
  /\ completed \in SUBSET Blocks
  /\ xp \in [Levels -> Nat]
  /\ recorded \in [Tasks -> SUBSET TaskStatuses]
  /\ \A t \in Tasks : taskStatus[t] \in recorded[t] /\ "NOT_STARTED" \in recorded[t]
  /\ InTurn(completed)

\* The row of t still has the best of what it had.
Kept(t) ==
  /\ "COMPLETED" \in recorded[t] => taskStatus[t] = "COMPLETED"
  /\ "SKIPPED" \in recorded[t] => taskStatus[t] \in Resolved

\* A task about which requests have not overlapped has one that will write its
\* row, at most, and that one knows what the row holds.
KeptInv ==
  \A t \in Tasks \ overlapped :
    /\ Kept(t)
    /\ \A r \in Requests : Unwritten(r, t) =>
         /\ \A o \in Requests : Unwritten(o, t) => o = r
         /\ calls[r].step = "read" =>
              calls[r].status = NextStatus(calls[r].ask, taskStatus[t])

\* Rows read for an answer.
FetchedInv(q) ==
  fetch[q] # NoData =>
    /\ fetch[q] = [completed |-> fetch[q].completed, xp |-> fetch[q].xp,
                   tasks |-> fetch[q].tasks]
    /\ fetch[q].completed # NoData =>
         /\ fetch[q].completed \subseteq completed /\ InTurn(fetch[q].completed)
         /\ q \in Pages => Unlocked(q, completed)
    /\ fetch[q].xp # NoData => XpBacked(fetch[q].xp, xp)
    /\ fetch[q].tasks # NoData =>
         IF q \in Pages THEN Backed(q, fetch[q].tasks, recorded)
         ELSE CountsBacked(fetch[q].tasks, recorded)

FetchInv ==
  /\ fetch = [q \in Queries |-> fetch[q]]
  /\ \A q \in Queries : FetchedInv(q)

CacheInv ==
  /\ cache = [q \in Queries |-> cache[q]]
  /\ \A q \in Pages : cache[q] # NoData =>
       Backed(q, cache[q], recorded) /\ Unlocked(q, completed)
  /\ cache["dashboard"] # NoData =>
       /\ \A b \in Blocks : cache["dashboard"].status[b] # "LOCKED" =>
            Unlocked(b, completed)
       /\ CountsBacked(cache["dashboard"].solved, recorded)
       /\ XpBacked(cache["dashboard"].xp, xp)

\* The open page.  Its map has data whenever the cache has, so that an answer
\* that brings nothing new may leave it alone.
ViewInv ==
  /\ view \in Queries
  /\ statuses # NoData => view \in Pages /\ Backed(view, statuses, recorded)
  /\ cards # NoData =>
       /\ view \in Pages /\ Backed(view, cards, recorded)
       /\ Unlocked(view, completed)
       /\ statuses # NoData
  /\ view \in Pages /\ cache[view] # NoData => statuses # NoData

CallRecords ==
  [task : Tasks, ask : Asks, step : Steps, status : TaskStatuses, taker : Takers]

\* A request past the lock check is about an open block; once it has written the
\* row, and before it has read it, its status is one the row had, and once it
\* has read the row it is that one or one it resolves the task to.  A request
\* of the open page is about one of its tasks, whose map is there, and so is the
\* card that takes the answer.
CallInv(r) ==
  calls[r] # NoData =>
    /\ calls[r] \in CallRecords
    /\ calls[r].step # "sent" => Unlocked(BlockOf[calls[r].task], completed)
    /\ calls[r].step # "read" => calls[r].status \in recorded[calls[r].task]
    /\ calls[r].taker # "nobody" =>
         view \in Pages /\ calls[r].task \in TasksOf(view) /\ statuses # NoData
    /\ calls[r].taker = "card" => cards # NoData
    /\ calls[r].step = "answered" => calls[r].taker # "nobody"

CallsInv ==
  /\ calls = [r \in Requests |-> calls[r]]
  /\ \A r \in Requests : CallInv(r)

ShownInv == FetchInv /\ CacheInv /\ ViewInv

PagesInv == ServerInv /\ KeptInv /\ ShownInv /\ CallsInv

-----------------------------------------------------------------------------
(***************************************************************************)
(* The server only adds, to its history if not to its rows.                *)
(***************************************************************************)
Grown(had, later) == \A t \in Tasks : had[t] \subseteq later[t]

Grows ==
  /\ completed \subseteq completed'
  /\ Grown(recorded, recorded')
  /\ \A l \in Levels : xp[l] <= xp'[l]

\* A block that is open stays open when more blocks are completed.
LEMMA UnlockedStays ==
  ASSUME NEW small, NEW large, small \subseteq large, NEW b, Unlocked(b, small)
  PROVE  Unlocked(b, large)
BY DEF Unlocked

\* What was shown of a task stays true.
LEMMA BackedStays ==
  ASSUME NEW q, NEW shown, NEW had, NEW later, Grown(had, later), Backed(q, shown, had)
  PROVE  Backed(q, shown, later)
BY DEF Backed, Grown, TasksOf

LEMMA CompletedInIsFinite ==
  ASSUME NEW b, NEW had
  PROVE  /\ IsFiniteSet(CompletedIn(b, had))
         /\ Cardinality(CompletedIn(b, had)) \in Nat
<1>1. CompletedIn(b, had) \in SUBSET Tasks
  BY DEF CompletedIn, TasksOf
<1>. QED BY <1>1, CurriculumAssumption, FS_Subset, FS_CardinalityType

\* The number of tasks of a block that were completed never falls.
LEMMA CountsStay ==
  ASSUME NEW counts, NEW had, NEW later, Grown(had, later), CountsBacked(counts, had)
  PROVE  CountsBacked(counts, later)
<1> SUFFICES ASSUME NEW b \in Blocks PROVE counts[b] <= Cardinality(CompletedIn(b, later))
  BY DEF CountsBacked
<1>1. CompletedIn(b, had) \in SUBSET CompletedIn(b, later)
  BY DEF Grown, CompletedIn, TasksOf
<1>2. Cardinality(CompletedIn(b, had)) <= Cardinality(CompletedIn(b, later))
  BY <1>1, CompletedInIsFinite, FS_Subset
<1>3. counts[b] \in Nat /\ counts[b] <= Cardinality(CompletedIn(b, had))
  BY DEF CountsBacked
<1>. QED BY <1>2, <1>3, CompletedInIsFinite

LEMMA XpStays ==
  ASSUME NEW shown, NEW has \in [Levels -> Nat], NEW later \in [Levels -> Nat],
         \A l \in Levels : has[l] <= later[l], XpBacked(shown, has)
  PROVE  XpBacked(shown, later)
<1> SUFFICES ASSUME NEW l \in Levels PROVE shown[l] <= later[l]
  BY DEF XpBacked
<1>1. shown[l] \in Nat /\ has[l] \in Nat /\ later[l] \in Nat /\ shown[l] <= has[l] /\ has[l] <= later[l]
  BY DEF XpBacked
<1>. QED BY <1>1

\* Counting what the rows say counts no more than they have said.
LEMMA CountsAreBacked ==
  ASSUME ServerInv
  PROVE  CountsBacked([b \in Blocks |-> CountCompletedTasks(b, taskStatus)], recorded)
<1> SUFFICES ASSUME NEW b \in Blocks
             PROVE  /\ CountCompletedTasks(b, taskStatus) \in Nat
                    /\ CountCompletedTasks(b, taskStatus) <= Cardinality(CompletedIn(b, recorded))
  BY DEF CountsBacked
<1> DEFINE now == {t \in TasksOf(b) : taskStatus[t] = "COMPLETED"}
<1>1. now \in SUBSET CompletedIn(b, recorded)
  BY DEF ServerInv, CompletedIn, TasksOf
<1>2. IsFiniteSet(now) /\ Cardinality(now) \in Nat
      /\ Cardinality(now) <= Cardinality(CompletedIn(b, recorded))
  BY <1>1, CompletedInIsFinite, FS_Subset, FS_CardinalityType
<1>. QED BY <1>2 DEF CountCompletedTasks

\* Nothing is taken away.
LEMMA SameGrows ==
  ASSUME ServerInv, UNCHANGED server
  PROVE  ServerInv' /\ Grows
<1>1. \A l \in Levels : xp[l] <= xp[l]
  BY DEF ServerInv
<1>. QED BY <1>1 DEF ServerInv, Grows, Grown, server, progress

\* Requests that write no row leave the history as true as it was.
LEMMA KeptStays ==
  ASSUME KeptInv, UNCHANGED <<taskStatus, recorded, overlapped>>,
         \A r \in Requests, t \in Tasks : Unwritten(r, t)' =>
           /\ Unwritten(r, t)
           /\ calls'[r].step = "read" =>
                \/ calls'[r] = calls[r]
                \/ /\ calls[r].step = "read"
                   /\ calls'[r].status = calls[r].status /\ calls'[r].ask = calls[r].ask
                \/ calls'[r].status = NextStatus(calls'[r].ask, taskStatus[t])
  PROVE  KeptInv'
<1> SUFFICES ASSUME NEW t \in Tasks \ overlapped
             PROVE  /\ Kept(t)'
                    /\ \A r \in Requests : Unwritten(r, t)' =>
                         /\ \A o \in Requests : Unwritten(o, t)' => o = r
                         /\ calls'[r].step = "read" =>
                              calls'[r].status = NextStatus(calls'[r].ask, taskStatus[t])
  BY DEF KeptInv
<1>1. Kept(t)'
  BY DEF KeptInv, Kept
<1>2. ASSUME NEW r \in Requests, Unwritten(r, t)'
      PROVE  /\ \A o \in Requests : Unwritten(o, t)' => o = r
             /\ calls'[r].step = "read" =>
                  calls'[r].status = NextStatus(calls'[r].ask, taskStatus[t])
  <2>1. Unwritten(r, t) /\ \A o \in Requests : Unwritten(o, t)' => Unwritten(o, t)
    BY <1>2
  <2>2. /\ \A o \in Requests : Unwritten(o, t) => o = r
        /\ calls[r].step = "read" => calls[r].status = NextStatus(calls[r].ask, taskStatus[t])
    BY <2>1 DEF KeptInv
  <2>. QED BY <1>2, <2>1, <2>2
<1>. QED BY <1>1, <1>2

\* In particular those whose answers only find another taker or none.
LEMMA SameKept ==
  ASSUME KeptInv, CallsInv, UNCHANGED server,
         \A r \in Requests :
           \/ calls'[r] = calls[r]
           \/ calls'[r] = NoData
           \/ calls[r] # NoData /\ \E k \in Takers : calls'[r] = [calls[r] EXCEPT !.taker = k]
  PROVE  KeptInv'
<1>1. ASSUME NEW r \in Requests, NEW t \in Tasks, Unwritten(r, t)'
      PROVE  /\ Unwritten(r, t)
             /\ calls'[r] = calls[r] \/ ( /\ calls'[r].step = calls[r].step
                                        /\ calls'[r].status = calls[r].status
                                        /\ calls'[r].ask = calls[r].ask )
  <2>1. calls'[r] # NoData
    BY <1>1 DEF Unwritten
  <2>2. CASE calls'[r] = calls[r]
    BY <1>1, <2>2 DEF Unwritten
  <2>3. ASSUME NEW k \in Takers, calls[r] # NoData, calls'[r] = [calls[r] EXCEPT !.taker = k]
        PROVE  /\ calls'[r].task = calls[r].task /\ calls'[r].step = calls[r].step
               /\ calls'[r].status = calls[r].status /\ calls'[r].ask = calls[r].ask
    BY <2>3 DEF CallsInv, CallInv, CallRecords
  <2>. QED BY <1>1, <2>1, <2>2, <2>3 DEF Unwritten
<1>2. UNCHANGED <<taskStatus, recorded, overlapped>>
  BY DEF server, progress
<1>. QED BY <1>1, <1>2, KeptStays

\* A page, the dashboard or the cache that is left alone stays true.
LEMMA ShownStays ==
  ASSUME ServerInv, ServerInv', Grows, ShownInv,
         UNCHANGED <<view, cache, fetch, statuses, cards>>
  PROVE  ShownInv'
<1>1. /\ completed \subseteq completed' /\ Grown(recorded, recorded')
      /\ xp \in [Levels -> Nat] /\ xp' \in [Levels -> Nat]
      /\ \A l \in Levels : xp[l] <= xp'[l]
  BY PagesAssumption DEF Grows, ServerInv
<1>2. \A b : Unlocked(b, completed) => Unlocked(b, completed')
  BY <1>1, UnlockedStays
<1>3. \A q, shown : Backed(q, shown, recorded) => Backed(q, shown, recorded')
  BY <1>1, BackedStays
<1>4. \A counts : CountsBacked(counts, recorded) => CountsBacked(counts, recorded')
  BY <1>1, CountsStay
<1>5. \A shown : XpBacked(shown, xp) => XpBacked(shown, xp')
  BY <1>1, XpStays
<1>6. FetchInv'
  <2>1. fetch = [q \in Queries |-> fetch[q]]
    BY DEF ShownInv, FetchInv, FetchedInv
  <2>2. \A q \in Queries : fetch[q] # NoData /\ fetch[q].completed # NoData =>
            fetch[q].completed \subseteq completed' /\ InTurn(fetch[q].completed)
            /\ (q \in Pages => Unlocked(q, completed'))
    BY <1>1, <1>2 DEF ShownInv, FetchInv, FetchedInv
  <2>3. \A q \in Queries : fetch[q] # NoData =>
       /\ fetch[q] = [completed |-> fetch[q].completed, xp |-> fetch[q].xp,
                      tasks |-> fetch[q].tasks]
       /\ fetch[q].xp # NoData => XpBacked(fetch[q].xp, xp')
       /\ fetch[q].tasks # NoData =>
            IF q \in Pages THEN Backed(q, fetch[q].tasks, recorded')
            ELSE CountsBacked(fetch[q].tasks, recorded')
    BY <1>3, <1>4, <1>5 DEF ShownInv, FetchInv, FetchedInv
  <2>. QED BY <2>1, <2>2, <2>3 DEF FetchInv, FetchedInv
<1>7. CacheInv'
  BY <1>2, <1>3, <1>4, <1>5 DEF ShownInv, CacheInv
<1>8. ViewInv'
  BY <1>2, <1>3 DEF ShownInv, ViewInv
<1>. QED BY <1>6, <1>7, <1>8 DEF ShownInv

\* So do the requests.
LEMMA CallStays ==
  ASSUME Grows, NEW r \in Requests, CallInv(r), calls'[r] = calls[r],
         UNCHANGED <<view, statuses, cards>>
  PROVE  CallInv(r)'
<1> SUFFICES ASSUME calls[r] # NoData PROVE CallInv(r)'
  BY DEF CallInv
<1>1. /\ calls[r] \in CallRecords /\ recorded[calls[r].task] \subseteq recorded'[calls[r].task]
      /\ completed \subseteq completed'
  BY DEF Grows, Grown, CallInv, CallRecords
<1>2. Unlocked(BlockOf[calls[r].task], completed) => Unlocked(BlockOf[calls[r].task], completed')
  BY <1>1, UnlockedStays
<1>. QED BY <1>1, <1>2 DEF CallInv

-----------------------------------------------------------------------------
(***************************************************************************)
(* The reads.                                                              *)
(***************************************************************************)
\* The walk calls only open blocks open, for blocks credited in turn.
LEMMA OpenIsUnlocked ==
  ASSUME NEW done, InTurn(done), NEW b \in Blocks,
         ComputeSingleBlockStatus(b, BlocksOf(LevelOf[b]), done) # "LOCKED"
  PROVE  Unlocked(b, done)
BY WalkGivesBlockStatus DEF BlockStatus, InTurn

\* Every page is a query, the dashboard's is none of the blocks'.
LEMMA PagesAreQueries ==
  /\ "dashboard" \in Queries /\ Pages \subseteq Queries
  /\ "dashboard" \notin Pages /\ Pages \subseteq Blocks
BY PagesAssumption DEF Queries

\* Only the rows of one query's answer change.
LEMMA FetchedStays ==
  ASSUME PagesInv, UNCHANGED <<server, view, cache, statuses, cards, calls>>, FetchInv'
  PROVE  PagesInv'
<1>1. ServerInv' /\ KeptInv'
  BY SameGrows, SameKept DEF PagesInv
<1>2. CacheInv' /\ ViewInv'
  BY DEF PagesInv, ShownInv, CacheInv, ViewInv, server, progress
<1>3. CallsInv'
  BY DEF PagesInv, CallsInv, CallInv, server, progress
<1>. QED BY <1>1, <1>2, <1>3 DEF PagesInv, ShownInv

LEMMA OneFetch ==
  ASSUME FetchInv, UNCHANGED server, NEW q \in Queries, NEW rows,
         fetch' = [fetch EXCEPT ![q] = rows], FetchedInv(q)'
  PROVE  FetchInv'
<1>1. fetch' = [p \in Queries |-> fetch'[p]]
  BY DEF FetchInv, FetchedInv
<1>2. ASSUME NEW p \in Queries PROVE FetchedInv(p)'
  <2>1. CASE p = q
    BY <2>1
  <2>2. CASE p # q
    <3>1. fetch'[p] = fetch[p]
      BY <2>2 DEF FetchInv, FetchedInv
    <3>. QED BY <3>1 DEF FetchInv, FetchedInv, server, progress
  <2>. QED BY <2>1, <2>2
<1>. QED BY <1>1, <1>2 DEF FetchInv, FetchedInv

LEMMA StartFetchKeeps ==
  ASSUME PagesInv, NEW q \in Queries, StartFetch(q)
  PROVE  PagesInv'
<1>1. FetchInv /\ UNCHANGED server /\ fetch' = [fetch EXCEPT ![q] = Nothing]
  BY DEF PagesInv, ShownInv, StartFetch
<1>2. fetch'[q] = Nothing
  BY <1>1 DEF FetchInv, FetchedInv
<1>3. FetchedInv(q)'
  BY <1>2 DEF FetchedInv, Nothing
<1>4. FetchInv'
  BY <1>1, <1>3, OneFetch
<1>. QED BY <1>4, FetchedStays DEF PagesInv, StartFetch

\* What one more row added to an answer must satisfy.
LEMMA ReadKeeps ==
  ASSUME PagesInv, NEW q \in Queries, fetch[q] # NoData, NEW rows,
         UNCHANGED <<server, view, cache, statuses, cards, calls>>,
         fetch' = [fetch EXCEPT ![q] = rows],
         (fetch'[q] = rows) => FetchedInv(q)'
  PROVE  PagesInv'
<1>1. FetchInv /\ UNCHANGED server
  BY DEF PagesInv, ShownInv
<1>2. fetch'[q] = rows
  BY <1>1 DEF FetchInv, FetchedInv
<1>3. FetchInv'
  BY <1>1, <1>2, OneFetch
<1>. QED BY <1>3, FetchedStays DEF PagesInv

LEMMA ReadCompletedKeeps ==
  ASSUME PagesInv, NEW q \in Queries, ReadCompleted(q)
  PROVE  PagesInv'
<1> DEFINE rows == [fetch[q] EXCEPT !.completed = completed]
<1>1. /\ fetch[q] # NoData /\ fetch' = [fetch EXCEPT ![q] = rows]
      /\ UNCHANGED <<server, view, cache, statuses, cards, calls>>
  BY DEF ReadCompleted, Unread, GetCompletedBlockIds
<1>2. InTurn(completed) /\ FetchedInv(q)
  BY DEF PagesInv, ServerInv, ShownInv, FetchInv, FetchedInv
<1>3. q \in Pages => Unlocked(q, completed)
  BY <1>2, OpenIsUnlocked, PagesAreQueries DEF ReadCompleted, GetCompletedBlockIds
<1>4. ASSUME fetch'[q] = rows PROVE FetchedInv(q)'
  <2>1. /\ fetch[q] = [completed |-> fetch[q].completed, xp |-> fetch[q].xp,
                       tasks |-> fetch[q].tasks]
        /\ fetch[q].xp # NoData => XpBacked(fetch[q].xp, xp)
        /\ fetch[q].tasks # NoData =>
             IF q \in Pages THEN Backed(q, fetch[q].tasks, recorded)
             ELSE CountsBacked(fetch[q].tasks, recorded)
    BY <1>1, <1>2 DEF FetchedInv
  <2>2. fetch'[q] = [completed |-> completed, xp |-> fetch[q].xp, tasks |-> fetch[q].tasks]
    BY <1>4, <2>1
  <2>. QED BY <1>1, <1>2, <1>3, <2>1, <2>2 DEF FetchedInv, server, progress
<1> HIDE DEF rows
<1>. QED BY <1>1, <1>4, ReadKeeps

LEMMA ReadXpKeeps ==
  ASSUME PagesInv, NEW q \in Queries, ReadXp(q)
  PROVE  PagesInv'
<1> DEFINE rows == [fetch[q] EXCEPT !.xp = xp]
<1>1. /\ fetch[q] # NoData /\ fetch' = [fetch EXCEPT ![q] = rows]
      /\ UNCHANGED <<server, view, cache, statuses, cards, calls>>
  BY DEF ReadXp, Unread
<1>2. XpBacked(xp, xp) /\ FetchedInv(q)
  BY PagesAssumption DEF PagesInv, ServerInv, ShownInv, FetchInv, FetchedInv, XpBacked
<1>3. ASSUME fetch'[q] = rows PROVE FetchedInv(q)'
  <2>1. /\ fetch[q] = [completed |-> fetch[q].completed, xp |-> fetch[q].xp,
                       tasks |-> fetch[q].tasks]
        /\ fetch[q].completed # NoData =>
             /\ fetch[q].completed \subseteq completed /\ InTurn(fetch[q].completed)
             /\ q \in Pages => Unlocked(q, completed)
        /\ fetch[q].tasks # NoData =>
             IF q \in Pages THEN Backed(q, fetch[q].tasks, recorded)
             ELSE CountsBacked(fetch[q].tasks, recorded)
    BY <1>1, <1>2 DEF FetchedInv
  <2>2. fetch'[q] = [completed |-> fetch[q].completed, xp |-> xp, tasks |-> fetch[q].tasks]
    BY <1>3, <2>1
  <2>. QED BY <1>1, <1>2, <2>1, <2>2 DEF FetchedInv, server, progress
<1> HIDE DEF rows
<1>. QED BY <1>1, <1>3, ReadKeeps

LEMMA ReadTasksKeeps ==
  ASSUME PagesInv, NEW q \in Queries, ReadTasks(q)
  PROVE  PagesInv'
<1> DEFINE read == IF q \in Pages THEN [t \in TasksOf(q) |-> taskStatus[t]]
                   ELSE [b \in Blocks |-> CountCompletedTasks(b, taskStatus)]
           rows == [fetch[q] EXCEPT !.tasks = read]
<1>1. /\ fetch[q] # NoData /\ fetch' = [fetch EXCEPT ![q] = rows]
      /\ UNCHANGED <<server, view, cache, statuses, cards, calls>>
  BY DEF ReadTasks, Unread
<1>2. FetchedInv(q)
  BY DEF PagesInv, ShownInv, FetchInv, FetchedInv
<1>3. q \in Pages => Backed(q, [t \in TasksOf(q) |-> taskStatus[t]], recorded)
  BY DEF PagesInv, ServerInv, Backed, TasksOf
<1>4. IF q \in Pages THEN Backed(q, read, recorded)
      ELSE CountsBacked(read, recorded)
  BY <1>3, CountsAreBacked DEF PagesInv
<1> HIDE DEF read
<1>5. ASSUME fetch'[q] = rows PROVE FetchedInv(q)'
  <2>1. /\ fetch[q] = [completed |-> fetch[q].completed, xp |-> fetch[q].xp,
                       tasks |-> fetch[q].tasks]
        /\ fetch[q].completed # NoData =>
             /\ fetch[q].completed \subseteq completed /\ InTurn(fetch[q].completed)
             /\ q \in Pages => Unlocked(q, completed)
        /\ fetch[q].xp # NoData => XpBacked(fetch[q].xp, xp)
    BY <1>1, <1>2 DEF FetchedInv
  <2>2. fetch'[q] = [completed |-> fetch[q].completed, xp |-> fetch[q].xp, tasks |-> read]
    BY <1>5, <2>1
  <2>. QED BY <1>1, <1>4, <2>1, <2>2 DEF FetchedInv, server, progress
<1> HIDE DEF rows
<1>. QED BY <1>1, <1>5, ReadKeeps

\* The dashboard made of rows that were true shows blocks as open that are.
LEMMA SummaryIsOpen ==
  ASSUME NEW read, read.completed \subseteq completed, InTurn(read.completed),
         NEW b \in Blocks, Summary(read).status[b] # "LOCKED"
  PROVE  Unlocked(b, completed)
<1>1. ComputeSingleBlockStatus(b, BlocksOf(LevelOf[b]), read.completed) # "LOCKED"
  BY DEF Summary
<1>. QED BY <1>1, OpenIsUnlocked, UnlockedStays

\* A page's answer is an answer.
LEMMA AnswerIsData ==
  ASSUME NEW q \in Pages, NEW shown, NEW done, Backed(q, shown, done)
  PROVE  shown # NoData
BY PagesAssumption DEF Backed

\* Requests still have their page and their card.
LEMMA CallsKeepTheirPage ==
  ASSUME CallsInv, UNCHANGED <<server, view, calls>>,
         statuses # NoData => statuses' # NoData, cards # NoData => cards' # NoData
  PROVE  CallsInv'
BY DEF CallsInv, CallInv, server, progress

LEMMA ArrivedKeeps ==
  ASSUME PagesInv, NEW q \in Queries, Arrived(q)
  PROVE  PagesInv'
<1> DEFINE answer == IF q \in Pages THEN fetch[q].tasks ELSE Summary(fetch[q])
           shown == q \in Pages /\ view = q
<1>1. /\ fetch[q] # NoData /\ fetch[q].tasks # NoData /\ fetch[q].completed # NoData
      /\ q = "dashboard" => fetch[q].xp # NoData
      /\ cache' = [cache EXCEPT ![q] = answer]
      /\ statuses' = IF shown /\ answer # cache[q] THEN answer ELSE statuses
      /\ cards' = IF shown /\ cards = NoData THEN answer ELSE cards
      /\ fetch' = [fetch EXCEPT ![q] = NoData]
      /\ UNCHANGED <<server, view, calls>>
  BY DEF Arrived, Unread
<1>2. /\ fetch[q].completed \subseteq completed /\ InTurn(fetch[q].completed)
      /\ q \in Pages => Unlocked(q, completed) /\ Backed(q, fetch[q].tasks, recorded)
      /\ q \notin Pages => CountsBacked(fetch[q].tasks, recorded)
      /\ fetch[q].xp # NoData => XpBacked(fetch[q].xp, xp)
  BY <1>1 DEF PagesInv, ShownInv, FetchInv, FetchedInv
<1>3. q \in Pages => /\ Backed(q, answer, recorded) /\ answer # NoData
                     /\ Unlocked(q, completed)
  BY <1>2, AnswerIsData
<1>4. q = "dashboard" => /\ \A b \in Blocks : answer.status[b] # "LOCKED" =>
                              Unlocked(b, completed)
                         /\ CountsBacked(answer.solved, recorded)
                         /\ XpBacked(answer.xp, xp)
  <2> SUFFICES ASSUME q = "dashboard"
               PROVE  /\ \A b \in Blocks : answer.status[b] # "LOCKED" =>
                           Unlocked(b, completed)
                      /\ CountsBacked(answer.solved, recorded)
                      /\ XpBacked(answer.xp, xp)
    OBVIOUS
  <2>1. answer = Summary(fetch[q]) /\ q \notin Pages
    BY PagesAreQueries
  <2>2. answer.solved = fetch[q].tasks /\ answer.xp = fetch[q].xp
    BY <2>1 DEF Summary
  <2>3. \A b \in Blocks : answer.status[b] # "LOCKED" => Unlocked(b, completed)
    BY <1>2, <2>1, SummaryIsOpen
  <2>. QED BY <1>1, <1>2, <2>1, <2>2, <2>3
<1> HIDE DEF answer
<1>5. FetchInv'
  <2>1. fetch'[q] = NoData
    BY <1>1 DEF PagesInv, ShownInv, FetchInv, FetchedInv
  <2>2. FetchedInv(q)'
    BY <2>1 DEF FetchedInv
  <2>. QED BY <1>1, <2>2, OneFetch DEF PagesInv, ShownInv
<1>6. CacheInv'
  <2>1. cache = [p \in Queries |-> cache[p]]
    BY DEF PagesInv, ShownInv, CacheInv
  <2>2. cache' = [p \in Queries |-> cache'[p]] /\ cache'[q] = answer
        /\ \A p \in Queries : p # q => cache'[p] = cache[p]
    BY <1>1, <2>1
  <2>3. \A p \in Pages : cache'[p] # NoData =>
          Backed(p, cache'[p], recorded) /\ Unlocked(p, completed)
    BY <1>3, <2>2, PagesAreQueries DEF PagesInv, ShownInv, CacheInv
  <2>4. cache'["dashboard"] # NoData =>
       /\ \A b \in Blocks : cache'["dashboard"].status[b] # "LOCKED" =>
            Unlocked(b, completed)
       /\ CountsBacked(cache'["dashboard"].solved, recorded)
       /\ XpBacked(cache'["dashboard"].xp, xp)
    BY <1>4, <2>2, PagesAreQueries DEF PagesInv, ShownInv, CacheInv
  <2>. QED BY <1>1, <2>2, <2>3, <2>4 DEF CacheInv, server, progress
<1>7. ViewInv'
  <2>1. ViewInv /\ (shown => (cache[q] # NoData => statuses # NoData))
    BY DEF PagesInv, ShownInv, ViewInv
  <2>2. CASE shown
    <3>1. /\ statuses' # NoData /\ Backed(view, statuses', recorded)
          /\ Backed(view, cards', recorded) /\ Unlocked(view, completed)
      BY <1>1, <1>3, <2>1, <2>2 DEF ViewInv
    <3>. QED BY <1>1, <2>1, <2>2, <3>1 DEF ViewInv, server, progress
  <2>3. CASE ~ shown
    <3>1. view \in Pages => cache'[view] = cache[view]
      BY <1>1, <2>3, PagesAreQueries DEF PagesInv, ShownInv, CacheInv
    <3>. QED BY <1>1, <2>1, <2>3, <3>1 DEF ViewInv, server, progress
  <2>. QED BY <2>2, <2>3
<1>8. CallsInv'
  BY <1>1, <1>3, CallsKeepTheirPage DEF PagesInv
<1>9. ServerInv' /\ KeptInv'
  BY <1>1, SameGrows, SameKept DEF PagesInv
<1>. QED BY <1>5, <1>6, <1>7, <1>8, <1>9 DEF PagesInv, ShownInv

LEMMA FetchFailsKeeps ==
  ASSUME PagesInv, NEW q \in Queries, FetchFails(q)
  PROVE  PagesInv'
<1>1. UNCHANGED <<server, view, cache, statuses>>
  BY DEF FetchFails
<1>2. CASE /\ fetch' = [fetch EXCEPT ![q] = Nothing]
           /\ UNCHANGED <<failed, cards, calls>>
  <2>1. fetch'[q] = Nothing
    BY <1>2 DEF PagesInv, ShownInv, FetchInv, FetchedInv
  <2>2. FetchedInv(q)'
    BY <2>1 DEF FetchedInv, Nothing
  <2>3. FetchInv'
    BY <1>1, <1>2, <2>2, OneFetch DEF PagesInv, ShownInv
  <2>. QED BY <1>1, <1>2, <2>3, FetchedStays
<1>3. CASE /\ fetch' = [fetch EXCEPT ![q] = NoData]
           /\ cards' = IF view = q THEN NoData ELSE cards
           /\ calls' = IF view = q THEN WithoutCards ELSE calls
  <2>1. fetch'[q] = NoData
    BY <1>3 DEF PagesInv, ShownInv, FetchInv, FetchedInv
  <2>2. FetchedInv(q)'
    BY <2>1 DEF FetchedInv
  <2>3. FetchInv'
    BY <1>1, <1>3, <2>2, OneFetch DEF PagesInv, ShownInv
  <2>4. CacheInv' /\ ViewInv'
    BY <1>1, <1>3 DEF PagesInv, ShownInv, CacheInv, ViewInv, server, progress
  <2>5. CASE view # q
    <3>1. CallsInv'
      BY <1>1, <1>3, <2>5, CallsKeepTheirPage DEF PagesInv
    <3>2. ServerInv' /\ KeptInv'
      BY <1>1, <1>3, <2>5, SameGrows, SameKept DEF PagesInv
    <3>. QED BY <2>3, <2>4, <3>1, <3>2 DEF PagesInv, ShownInv
  <2>6. CASE view = q
    <3>1. CallsInv /\ calls' = WithoutCards
      BY <1>3, <2>6 DEF PagesInv
    <3>2. ASSUME NEW r \in Requests, calls[r] # NoData
          PROVE  IF calls[r].taker = "card"
                 THEN calls'[r] = [calls[r] EXCEPT !.taker = "map"] ELSE calls'[r] = calls[r]
      BY <3>1, <3>2 DEF WithoutCards
    <3>3. \A r \in Requests : calls[r] = NoData => calls'[r] = NoData
      BY <3>1 DEF WithoutCards
    <3>4. calls' = [r \in Requests |-> calls'[r]]
      BY <3>1 DEF WithoutCards
    <3>5. \A r \in Requests :
            \/ calls'[r] = calls[r] \/ calls'[r] = NoData
            \/ calls[r] # NoData /\ \E k \in Takers : calls'[r] = [calls[r] EXCEPT !.taker = k]
      BY <3>2, <3>3 DEF Takers
    <3>6. ASSUME NEW r \in Requests, calls[r] # NoData PROVE CallInv(r)'
      <4>1. CallInv(r) /\ calls[r] \in CallRecords /\ UNCHANGED <<recorded, completed>>
        BY <1>1, <3>1, <3>6 DEF CallsInv, CallInv, server, progress
      <4>2. CASE calls[r].taker = "card"
        <5>1. calls'[r] = [calls[r] EXCEPT !.taker = "map"]
          BY <3>2, <3>6, <4>2
        <5>2. /\ calls'[r] \in CallRecords
              /\ calls'[r].task = calls[r].task /\ calls'[r].step = calls[r].step
              /\ calls'[r].status = calls[r].status /\ calls'[r].taker = "map"
          BY <4>1, <5>1 DEF CallRecords, Takers
        <5>. QED BY <1>1, <3>6, <4>1, <4>2, <5>2 DEF CallInv
      <4>3. CASE calls[r].taker # "card"
        BY <1>1, <3>2, <3>6, <4>1, <4>3 DEF CallInv
      <4>. QED BY <4>2, <4>3
    <3>7. CallsInv'
      BY <3>3, <3>4, <3>6 DEF CallsInv, CallInv
    <3>8. ServerInv' /\ KeptInv'
      BY <1>1, <3>1, <3>5, SameGrows, SameKept DEF PagesInv
    <3>. QED BY <2>3, <2>4, <3>7, <3>8 DEF PagesInv, ShownInv
  <2>. QED BY <2>5, <2>6
<1>. QED BY <1>2, <1>3 DEF FetchFails

-----------------------------------------------------------------------------
(***************************************************************************)
(* Navigation.                                                             *)
(***************************************************************************)
\* The requests of the page that is left go on, those that were answered are over.
LEMMA LeavingKeeps ==
  ASSUME CallsInv, UNCHANGED server, calls' = WithoutPage
  PROVE  /\ CallsInv'
         /\ \A r \in Requests :
              \/ calls'[r] = NoData
              \/ calls[r] # NoData /\ \E k \in Takers : calls'[r] = [calls[r] EXCEPT !.taker = k]
<1>1. ASSUME NEW r \in Requests
      PROVE  \/ calls'[r] = NoData
             \/ /\ calls[r] # NoData /\ calls[r].step # "answered"
                /\ calls'[r] = [calls[r] EXCEPT !.taker = "nobody"]
  BY DEF WithoutPage
<1>2. calls' = [r \in Requests |-> calls'[r]]
  BY DEF WithoutPage
<1>3. ASSUME NEW r \in Requests, calls'[r] # NoData PROVE CallInv(r)'
  <2>1. /\ calls[r] # NoData /\ calls[r].step # "answered"
        /\ calls'[r] = [calls[r] EXCEPT !.taker = "nobody"]
    BY <1>1, <1>3
  <2>2. CallInv(r) /\ calls[r] \in CallRecords /\ UNCHANGED <<recorded, completed>>
    BY <2>1 DEF CallsInv, CallInv, server, progress
  <2>3. /\ calls'[r] \in CallRecords
        /\ calls'[r].task = calls[r].task /\ calls'[r].step = calls[r].step
        /\ calls'[r].status = calls[r].status /\ calls'[r].taker = "nobody"
    BY <2>1, <2>2 DEF CallRecords, Takers
  <2>. QED BY <2>1, <2>2, <2>3 DEF CallInv
<1>4. CallsInv'
  BY <1>2, <1>3 DEF CallsInv, CallInv
<1>5. "nobody" \in Takers
  BY DEF Takers
<1>. QED BY <1>1, <1>4, <1>5

LEMMA MountKeeps ==
  ASSUME ServerInv, KeptInv, CallsInv, NEW q \in Queries, NEW data, Mount(q, data),
         UNCHANGED server, FetchInv', CacheInv',
         q \in Pages /\ data # NoData =>
           Backed(q, data, recorded) /\ Unlocked(q, completed),
         q \in Pages /\ cache'[q] # NoData => data # NoData
  PROVE  PagesInv'
<1>1. ServerInv'
  BY SameGrows
<1>2. CallsInv' /\ KeptInv'
  <2>1. calls' = WithoutPage
    BY DEF Mount
  <2>. QED BY <2>1, LeavingKeeps, SameKept
<1>3. ViewInv'
  BY DEF ViewInv, Mount, server, progress
<1>. QED BY <1>1, <1>2, <1>3 DEF PagesInv, ShownInv

LEMMA OpenBlockKeeps ==
  ASSUME PagesInv, NEW q \in Pages, OpenBlock(q)
  PROVE  PagesInv'
<1>1. Mount(q, cache[q]) /\ UNCHANGED <<server, cache, failed, fetch>>
  BY DEF OpenBlock
<1>2. FetchInv' /\ CacheInv'
  BY <1>1 DEF PagesInv, ShownInv, FetchInv, FetchedInv, CacheInv, server, progress
<1>3. cache[q] # NoData => Backed(q, cache[q], recorded) /\ Unlocked(q, completed)
  BY DEF PagesInv, ShownInv, CacheInv
<1>. QED BY <1>1, <1>2, <1>3, MountKeeps, PagesAreQueries DEF PagesInv

LEMMA OpenDashboardKeeps ==
  ASSUME PagesInv, OpenDashboard
  PROVE  PagesInv'
<1>1. Mount("dashboard", NoData) /\ UNCHANGED <<server, cache, failed, fetch>>
  BY DEF OpenDashboard
<1>2. FetchInv' /\ CacheInv'
  BY <1>1 DEF PagesInv, ShownInv, FetchInv, FetchedInv, CacheInv, server, progress
<1>. QED BY <1>1, <1>2, MountKeeps, PagesAreQueries DEF PagesInv

LEMMA LoadKeeps ==
  ASSUME PagesInv, NEW q \in Queries, Load(q)
  PROVE  PagesInv'
<1>1. /\ Mount(q, NoData) /\ UNCHANGED server
      /\ cache' = [p \in Queries |-> NoData] /\ fetch' = [p \in Queries |-> NoData]
  BY DEF Load
<1>2. \A p \in Queries : cache'[p] = NoData /\ fetch'[p] = NoData
  BY <1>1
<1>3. cache' = [p \in Queries |-> cache'[p]] /\ fetch' = [p \in Queries |-> fetch'[p]]
  BY <1>1
<1>4. FetchInv'
  BY <1>2, <1>3 DEF FetchInv, FetchedInv
<1>5. CacheInv'
  BY <1>2, <1>3, PagesAreQueries DEF CacheInv
<1>. QED BY <1>1, <1>2, <1>4, <1>5, MountKeeps DEF PagesInv

-----------------------------------------------------------------------------
(***************************************************************************)
(* Requests: the server adds, the calls advance, the page stays.           *)
(***************************************************************************)
LEMMA GrowthKeeps ==
  ASSUME PagesInv, ServerInv', KeptInv', Grows, UNCHANGED <<view, cache, fetch, statuses, cards>>,
         calls' = [r \in Requests |-> calls'[r]],
         \A r \in Requests : calls'[r] = calls[r] \/ CallInv(r)'
  PROVE  PagesInv'
<1>1. ShownInv'
  BY ShownStays DEF PagesInv
<1>2. \A r \in Requests : CallInv(r)'
  BY CallStays DEF PagesInv, CallsInv
<1>. QED BY <1>1, <1>2 DEF PagesInv, CallsInv

LEMMA OneCall ==
  ASSUME CallsInv, NEW r \in Requests, NEW c, calls' = [calls EXCEPT ![r] = c]
  PROVE  /\ calls' = [o \in Requests |-> calls'[o]]
         /\ calls'[r] = c
         /\ \A o \in Requests : o # r => calls'[o] = calls[o]
<1>1. calls = [o \in Requests |-> calls[o]]
  BY DEF CallsInv
<1>. QED BY <1>1

\* A request that takes a step is the same one further on, or over.
LEMMA ProceedCall ==
  ASSUME CallsInv, NEW r \in Requests, calls[r] # NoData, NEW step \in Steps,
         NEW status \in TaskStatuses, Proceed(r, step, status)
  PROVE  /\ calls' = [o \in Requests |-> calls'[o]]
         /\ \A o \in Requests : o # r => calls'[o] = calls[o]
         /\ \/ calls'[r] = NoData
            \/ /\ calls'[r] \in CallRecords
               /\ calls'[r].task = calls[r].task /\ calls'[r].ask = calls[r].ask
               /\ calls'[r].taker = calls[r].taker
               /\ calls'[r].step = step /\ calls'[r].status = status
               /\ step = "answered" => calls[r].taker # "nobody"
<1> DEFINE next == [calls[r] EXCEPT !.step = step, !.status = status]
<1>1. calls[r] \in CallRecords
  BY DEF CallsInv, CallInv
<1>2. /\ next \in CallRecords
      /\ next.task = calls[r].task /\ next.ask = calls[r].ask /\ next.taker = calls[r].taker
      /\ next.step = step /\ next.status = status
  BY <1>1 DEF CallRecords
<1>3. calls' = [calls EXCEPT ![r] =
                  IF step = "answered" /\ calls[r].taker = "nobody" THEN NoData ELSE next]
  BY DEF Proceed
<1> HIDE DEF next
<1>4. /\ calls' = [o \in Requests |-> calls'[o]]
      /\ calls'[r] = IF step = "answered" /\ calls[r].taker = "nobody" THEN NoData ELSE next
      /\ \A o \in Requests : o # r => calls'[o] = calls[o]
  BY <1>3, OneCall
<1>. QED BY <1>2, <1>4

LEMMA ProceedKeeps ==
  ASSUME PagesInv, ServerInv', KeptInv', Grows, UNCHANGED <<view, cache, fetch, statuses, cards>>,
         NEW r \in Requests, calls[r] # NoData, NEW step \in Steps,
         NEW status \in TaskStatuses, Proceed(r, step, status),
         step # "sent" => Unlocked(BlockOf[calls[r].task], completed),
         step # "read" => status \in recorded'[calls[r].task]
  PROVE  PagesInv'
<1>1. CallsInv /\ CallInv(r)
  BY DEF PagesInv, CallsInv
<1>2. /\ calls' = [o \in Requests |-> calls'[o]]
      /\ \A o \in Requests : o # r => calls'[o] = calls[o]
  BY <1>1, ProceedCall
<1>3. Unlocked(BlockOf[calls[r].task], completed) => Unlocked(BlockOf[calls[r].task], completed')
  BY UnlockedStays DEF Grows
<1>4. CallInv(r)'
  <2>1. CASE calls'[r] = NoData
    BY <2>1 DEF CallInv
  <2>2. CASE /\ calls'[r] \in CallRecords
             /\ calls'[r].task = calls[r].task /\ calls'[r].ask = calls[r].ask
             /\ calls'[r].taker = calls[r].taker
             /\ calls'[r].step = step /\ calls'[r].status = status
             /\ step = "answered" => calls[r].taker # "nobody"
    BY <1>1, <1>3, <2>2 DEF CallInv
  <2>. QED BY <1>1, <2>1, <2>2, ProceedCall
<1>. QED BY <1>2, <1>4, GrowthKeeps

-----------------------------------------------------------------------------
\* A new request finds none about its task that is still to write, or the task
\* is one about which requests overlap.
LEMMA SendKeeps ==
  ASSUME PagesInv, NEW r \in Requests, NEW t \in Tasks, NEW a \in Asks, NEW k \in Takers,
         Send(r, t, a, k),
         k # "nobody" => view \in Pages /\ t \in TasksOf(view) /\ statuses # NoData,
         k = "card" => cards # NoData
  PROVE  PagesInv'
<1> DEFINE c == [task |-> t, ask |-> a, step |-> "sent", status |-> "NOT_STARTED", taker |-> k]
<1>1. /\ calls[r] = NoData /\ calls' = [calls EXCEPT ![r] = c]
      /\ overlapped' = overlapped \cup {u \in {t} : \E o \in Requests : Unwritten(o, u)}
      /\ UNCHANGED <<taskStatus, completed, xp, recorded, view, cache, fetch, statuses, cards>>
  BY DEF Send, progress, page
<1>2. /\ calls' = [o \in Requests |-> calls'[o]] /\ calls'[r] = c
      /\ \A o \in Requests : o # r => calls'[o] = calls[o]
  BY <1>1, OneCall DEF PagesInv
<1>3. c \in CallRecords /\ c.task = t /\ c.step = "sent" /\ c.status = "NOT_STARTED" /\ c.taker = k
  BY DEF CallRecords, Steps, TaskStatuses
<1> HIDE DEF c
<1>4. ServerInv' /\ Grows
  <2>1. \A l \in Levels : xp[l] <= xp[l]
    BY DEF PagesInv, ServerInv
  <2>. QED BY <1>1, <2>1 DEF PagesInv, ServerInv, Grows, Grown
<1>5. CallInv(r)'
  <2>1. "NOT_STARTED" \in recorded'[t]
    BY <1>4 DEF ServerInv
  <2>. QED BY <1>1, <1>2, <1>3, <2>1 DEF CallInv
<1>6. KeptInv'
  <2> SUFFICES ASSUME NEW u \in Tasks \ overlapped'
               PROVE  /\ Kept(u)'
                      /\ \A o \in Requests : Unwritten(o, u)' =>
                           /\ \A p \in Requests : Unwritten(p, u)' => p = o
                           /\ calls'[o].step = "read" =>
                                calls'[o].status = NextStatus(calls'[o].ask, taskStatus'[u])
    BY DEF KeptInv
  <2>1. u \in Tasks \ overlapped
    BY <1>1
  <2>2. Kept(u)'
    BY <1>1, <2>1 DEF PagesInv, KeptInv, Kept
  <2>3. \A o \in Requests : o # r => (Unwritten(o, u)' <=> Unwritten(o, u))
    BY <1>2 DEF Unwritten
  <2>4. CASE u # t
    <3>1. ~ Unwritten(r, u)'
      BY <1>2, <1>3, <2>4 DEF Unwritten
    <3>. QED BY <1>1, <1>2, <2>1, <2>2, <2>3, <3>1 DEF PagesInv, KeptInv
  <2>5. CASE u = t
    <3>1. \A o \in Requests : ~ Unwritten(o, u)
      BY <1>1, <2>5
    <3>2. \A o \in Requests : Unwritten(o, u)' => o = r
      BY <2>3, <3>1
    <3>. QED BY <1>2, <1>3, <2>2, <3>2
  <2>. QED BY <2>4, <2>5
<1>. QED BY <1>1, <1>2, <1>4, <1>5, <1>6, GrowthKeeps

LEMMA AskKeeps ==
  ASSUME PagesInv, NEW r \in Requests, NEW t \in Tasks, NEW a \in Asks, Ask(r, t, a)
  PROVE  PagesInv'
<1>1. cards # NoData /\ t \in DOMAIN cards /\ Send(r, t, a, "card")
  BY DEF Ask
<1>2. view \in Pages /\ statuses # NoData /\ t \in TasksOf(view)
  BY <1>1 DEF PagesInv, ShownInv, ViewInv, Backed
<1>. QED BY <1>1, <1>2, SendKeeps DEF Takers

LEMMA ElsewhereKeeps ==
  ASSUME PagesInv, NEW r \in Requests, NEW t \in Tasks, NEW a \in Asks, Elsewhere(r, t, a)
  PROVE  PagesInv'
BY SendKeeps DEF Elsewhere, Takers

\* What a request makes of the row it read is a status.
LEMMA NextStatusIsStatus ==
  ASSUME NEW a \in Asks, NEW s \in TaskStatuses
  PROVE  NextStatus(a, s) \in TaskStatuses
BY DEF NextStatus, Asks, TaskStatuses

LEMMA HandleReadKeeps ==
  ASSUME PagesInv, NEW r \in Requests, HandleRead(r)
  PROVE  PagesInv'
<1> DEFINE t == calls[r].task
           next == NextStatus(calls[r].ask, taskStatus[t])
<1>1. /\ calls[r] # NoData /\ calls[r].step = "sent" /\ Unlocked(BlockOf[t], completed)
      /\ Proceed(r, "read", next) /\ UNCHANGED <<server, page>>
  BY DEF HandleRead, At
<1>2. CallsInv /\ KeptInv /\ calls[r] \in CallRecords
  BY <1>1 DEF PagesInv, CallsInv, CallInv
<1>3. next \in TaskStatuses /\ "read" \in Steps
  BY <1>2, NextStatusIsStatus DEF CallRecords, PagesInv, ServerInv, Steps
<1>4. ServerInv' /\ Grows
  BY <1>1, SameGrows DEF PagesInv
<1>5. KeptInv'
  <2>1. ASSUME NEW o \in Requests, NEW u \in Tasks, Unwritten(o, u)'
        PROVE  /\ Unwritten(o, u)
               /\ calls'[o].step = "read" =>
                    \/ calls'[o] = calls[o]
                    \/ calls'[o].status = NextStatus(calls'[o].ask, taskStatus[u])
    <3>1. CASE o # r
      <4>1. calls'[o] = calls[o]
        BY <1>1, <1>2, <1>3, <3>1, ProceedCall
      <4>. QED BY <2>1, <4>1 DEF Unwritten
    <3>2. CASE o = r
      <4>1. /\ calls'[r] \in CallRecords /\ calls'[r].task = t /\ calls'[r].ask = calls[r].ask
            /\ calls'[r].status = next
        <5>1. calls'[r] # NoData
          BY <2>1, <3>2 DEF Unwritten
        <5> HIDE DEF next
        <5>. QED BY <1>1, <1>2, <1>3, <5>1, ProceedCall
      <4>2. u = t
        BY <2>1, <3>2, <4>1 DEF Unwritten
      <4>. QED BY <1>1, <3>2, <4>1, <4>2 DEF Unwritten
    <3>. QED BY <3>1, <3>2
  <2>2. UNCHANGED <<taskStatus, recorded, overlapped>>
    BY <1>1 DEF server, progress
  <2>. QED BY <1>2, <2>1, <2>2, KeptStays
<1> HIDE DEF next
<1>. QED BY <1>1, <1>3, <1>4, <1>5, ProceedKeeps DEF page

\* A row is overwritten: with nothing worse than it had, unless it has changed
\* since it was read, and that takes another request about the task.
LEMMA WriteKeepsBest ==
  ASSUME PagesInv, NEW r \in Requests, HandleWrite(r)
  PROVE  KeptInv'
<1> DEFINE t == calls[r].task
           status == calls[r].status
<1>1. /\ calls[r] # NoData /\ calls[r].step = "read" /\ CallsInv /\ KeptInv
      /\ taskStatus' = [taskStatus EXCEPT ![t] = status]
      /\ recorded' = [recorded EXCEPT ![t] = @ \cup {status}]
      /\ overlapped' = overlapped
      /\ IF calls[r].ask = "wrong" THEN Proceed(r, "answered", "NOT_STARTED")
         ELSE Proceed(r, "written", status)
  BY DEF HandleWrite, At, PagesInv
<1>2. calls[r] \in CallRecords /\ t \in Tasks /\ calls[r].ask \in Asks /\ status \in TaskStatuses
  BY <1>1 DEF CallsInv, CallInv, CallRecords
<1>3. /\ \A o \in Requests : o # r => calls'[o] = calls[o]
      /\ \A u \in Tasks : ~ Unwritten(r, u)'
  <2>1. {"answered", "written"} \subseteq Steps /\ "NOT_STARTED" \in TaskStatuses
    BY DEF Steps, TaskStatuses
  <2>2. CASE calls[r].ask = "wrong"
    BY <1>1, <2>1, <2>2, ProceedCall DEF Unwritten
  <2>3. CASE calls[r].ask # "wrong"
    <3> HIDE DEF status
    <3>. QED BY <1>1, <1>2, <2>1, <2>3, ProceedCall DEF Unwritten
  <2>. QED BY <2>2, <2>3
<1>4. Unwritten(r, t)
  BY <1>1 DEF Unwritten
<1> SUFFICES ASSUME NEW u \in Tasks \ overlapped
             PROVE  /\ Kept(u)'
                    /\ \A o \in Requests : Unwritten(o, u)' =>
                         /\ \A p \in Requests : Unwritten(p, u)' => p = o
                         /\ calls'[o].step = "read" =>
                              calls'[o].status = NextStatus(calls'[o].ask, taskStatus'[u])
  BY <1>1 DEF KeptInv
<1>5. \A o \in Requests : Unwritten(o, u)' => o # r /\ Unwritten(o, u)
  BY <1>3 DEF Unwritten
<1>6. CASE u # t
  <2>1. taskStatus'[u] = taskStatus[u] /\ recorded'[u] = recorded[u]
    BY <1>1, <1>6 DEF PagesInv, ServerInv
  <2>2. Kept(u)'
    BY <1>1, <2>1 DEF KeptInv, Kept
  <2>. QED BY <1>1, <1>3, <1>5, <2>1, <2>2 DEF KeptInv
<1>7. CASE u = t
  <2>1. /\ status = NextStatus(calls[r].ask, taskStatus[u]) /\ Kept(u)
        /\ \A o \in Requests : Unwritten(o, u) => o = r
    BY <1>1, <1>4, <1>7 DEF KeptInv
  <2>2. taskStatus'[u] = status /\ recorded'[u] = recorded[u] \cup {status}
        /\ taskStatus[u] \in TaskStatuses /\ recorded[u] \subseteq TaskStatuses
        /\ taskStatus[u] \in recorded[u]
    BY <1>1, <1>2, <1>7 DEF PagesInv, ServerInv
  <2> HIDE DEF t, status
  <2>3. Kept(u)'
    BY <1>2, <2>1, <2>2 DEF Kept, NextStatus, Asks, TaskStatuses, Resolved
  <2>. QED BY <1>5, <2>1, <2>3
<1>. QED BY <1>6, <1>7

LEMMA HandleWriteKeeps ==
  ASSUME PagesInv, NEW r \in Requests, HandleWrite(r)
  PROVE  PagesInv'
<1>1. PICK t : t = calls[r].task
  OBVIOUS
<1>2. PICK status : status = calls[r].status
  OBVIOUS
<1>3. /\ calls[r] # NoData /\ calls[r].step = "read"
      /\ taskStatus' = [taskStatus EXCEPT ![t] = status]
      /\ recorded' = [recorded EXCEPT ![t] = @ \cup {status}]
      /\ IF calls[r].ask = "wrong" THEN Proceed(r, "answered", "NOT_STARTED")
         ELSE Proceed(r, "written", status)
      /\ UNCHANGED <<completed, xp, view, cache, fetch, statuses, cards>>
  BY <1>1, <1>2 DEF HandleWrite, At, page
<1>4. CallsInv /\ CallInv(r) /\ calls[r] \in CallRecords /\ t \in Tasks /\ status \in TaskStatuses
  BY <1>1, <1>2, <1>3 DEF PagesInv, CallsInv, CallInv, CallRecords
<1>5. Unlocked(BlockOf[calls[r].task], completed)
  BY <1>3, <1>4 DEF CallInv
<1>6. /\ recorded' \in [Tasks -> SUBSET TaskStatuses] /\ recorded'[t] = recorded[t] \cup {status}
      /\ \A u \in Tasks : u # t => recorded'[u] = recorded[u] /\ taskStatus'[u] = taskStatus[u]
      /\ taskStatus' \in [Tasks -> TaskStatuses] /\ taskStatus'[t] = status
  BY <1>3, <1>4 DEF PagesInv, ServerInv
<1>7. ServerInv'
  BY <1>3, <1>6 DEF PagesInv, ServerInv
<1>8. Grows
  <2>1. \A l \in Levels : xp[l] <= xp[l]
    BY DEF PagesInv, ServerInv
  <2>. QED BY <1>3, <1>6, <2>1 DEF Grows, Grown
<1>9. KeptInv'
  BY WriteKeepsBest
<1>10. /\ {"answered", "written"} \subseteq Steps /\ "NOT_STARTED" \in TaskStatuses
       /\ "NOT_STARTED" \in recorded'[t] /\ status \in recorded'[t]
  BY <1>4, <1>6, <1>7 DEF Steps, TaskStatuses, ServerInv
<1>11. CASE calls[r].ask = "wrong"
  BY <1>1, <1>3, <1>5, <1>7, <1>8, <1>9, <1>10, <1>11, ProceedKeeps
<1>12. CASE calls[r].ask # "wrong"
  BY <1>1, <1>3, <1>4, <1>5, <1>7, <1>8, <1>9, <1>10, <1>12, ProceedKeeps
<1>. QED BY <1>11, <1>12

\* A request that has written the row takes another step: none of those that
\* still have to is another one.
LEMMA ProceedKept ==
  ASSUME CallsInv, KeptInv, NEW r \in Requests, calls[r] # NoData, NEW step \in Steps,
         step \notin {"sent", "read"}, Proceed(r, step, calls[r].status),
         UNCHANGED <<taskStatus, recorded, overlapped>>
  PROVE  KeptInv'
<1>1. calls[r].status \in TaskStatuses
  BY DEF CallsInv, CallInv, CallRecords
<1>2. \A o \in Requests : o # r => calls'[o] = calls[o]
  BY <1>1, ProceedCall
<1>3. \A u \in Tasks : ~ Unwritten(r, u)'
  BY <1>1, ProceedCall DEF Unwritten
<1>4. \A o \in Requests, u \in Tasks :
        Unwritten(o, u)' => Unwritten(o, u) /\ calls'[o] = calls[o]
  BY <1>2, <1>3 DEF Unwritten
<1>. QED BY <1>4, KeptStays

\* Counting and checking write nothing.
LEMMA LookKeeps ==
  ASSUME PagesInv, NEW r \in Requests, calls[r] # NoData, calls[r].step \notin {"sent", "read"},
         NEW step \in Steps, step \notin {"sent", "read"},
         Proceed(r, step, calls[r].status), UNCHANGED <<server, page>>
  PROVE  PagesInv'
<1>1. ServerInv' /\ Grows /\ UNCHANGED <<taskStatus, recorded, overlapped, completed>>
  BY SameGrows DEF PagesInv, server, progress
<1>2. KeptInv'
  BY <1>1, ProceedKept DEF PagesInv
<1>3. /\ calls[r].status \in TaskStatuses /\ Unlocked(BlockOf[calls[r].task], completed)
      /\ calls[r].status \in recorded'[calls[r].task]
  BY <1>1 DEF PagesInv, CallsInv, CallInv, CallRecords
<1>. QED BY <1>1, <1>2, <1>3, ProceedKeeps DEF page

LEMMA HandleCountKeeps ==
  ASSUME PagesInv, NEW r \in Requests, HandleCount(r)
  PROVE  PagesInv'
<1>1. /\ calls[r] # NoData /\ calls[r].step = "written" /\ UNCHANGED <<server, page>>
      /\ \E step \in {"complete", "answered"} : Proceed(r, step, calls[r].status)
  BY DEF HandleCount, At
<1>2. {"complete", "answered"} \subseteq Steps
  BY DEF Steps
<1>. QED BY <1>1, <1>2, LookKeeps

LEMMA HandleCheckKeeps ==
  ASSUME PagesInv, NEW r \in Requests, HandleCheck(r)
  PROVE  PagesInv'
<1>1. /\ calls[r] # NoData /\ calls[r].step = "complete" /\ UNCHANGED <<server, page>>
      /\ \E step \in {"answered", "crediting"} : Proceed(r, step, calls[r].status)
  BY DEF HandleCheck, At
<1>2. {"answered", "crediting"} \subseteq Steps
  BY DEF Steps
<1>. QED BY <1>1, <1>2, LookKeeps

\* A block is credited that was open when the request passed the lock, and so
\* still is.
LEMMA HandleCreditKeeps ==
  ASSUME PagesInv, NEW r \in Requests, HandleCredit(r)
  PROVE  PagesInv'
<1>1. PICK b : b = BlockOf[calls[r].task]
  OBVIOUS
<1>2. PICK l : l = LevelOf[b]
  OBVIOUS
<1>3. /\ calls[r] # NoData /\ calls[r].step = "crediting"
      /\ completed' = completed \cup {b}
      /\ xp' = [xp EXCEPT ![l] = xp[l] + XPPerBlock[l]]
      /\ Proceed(r, "answered", calls[r].status)
      /\ UNCHANGED <<taskStatus, recorded, overlapped, view, cache, fetch, statuses, cards>>
  BY <1>1, <1>2 DEF HandleCredit, At, page
<1>4. /\ calls[r] \in CallRecords /\ Unlocked(b, completed)
      /\ calls[r].status \in recorded[calls[r].task]
  BY <1>1, <1>3 DEF PagesInv, CallsInv, CallInv
<1>5. b \in Blocks /\ l \in Levels /\ XPPerBlock[l] \in Nat
  BY <1>1, <1>2, <1>4, CurriculumAssumption DEF CallRecords
<1>6. /\ completed \in SUBSET Blocks /\ InTurn(completed) /\ xp \in [Levels -> Nat]
  BY DEF PagesInv, ServerInv
<1>7. InTurn(completed')
  BY <1>3, <1>4, <1>6 DEF InTurn, Unlocked
<1>8. xp[l] \in Nat /\ xp[l] + XPPerBlock[l] \in Nat /\ xp[l] <= xp[l] + XPPerBlock[l]
  BY <1>5, <1>6
<1>9. /\ xp' \in [Levels -> Nat]
      /\ \A k \in Levels : xp'[k] = xp[k] \/ (k = l /\ xp'[k] = xp[l] + XPPerBlock[l])
  BY <1>3, <1>6, <1>8
<1>10. \A k \in Levels : xp[k] <= xp'[k]
  <2> SUFFICES ASSUME NEW k \in Levels PROVE xp[k] <= xp'[k]
    OBVIOUS
  <2>1. xp[k] \in Nat
    BY <1>6
  <2>2. CASE xp'[k] = xp[k]
    BY <2>1, <2>2
  <2>3. CASE k = l /\ xp'[k] = xp[l] + XPPerBlock[l]
    BY <1>8, <2>3
  <2>. QED BY <1>9, <2>2, <2>3
<1>11. ServerInv' /\ Grows
  BY <1>3, <1>5, <1>6, <1>7, <1>9, <1>10 DEF PagesInv, ServerInv, Grows, Grown
<1>12. "answered" \in Steps /\ calls[r].status \in TaskStatuses
  BY <1>4 DEF Steps, CallRecords
<1>13. KeptInv'
  BY <1>3, <1>12, ProceedKept DEF PagesInv
<1>. QED BY <1>1, <1>3, <1>4, <1>11, <1>12, <1>13, ProceedKeeps

-----------------------------------------------------------------------------
(***************************************************************************)
(* The answers.                                                            *)
(***************************************************************************)
LEMMA UpdateIsBacked ==
  ASSUME NEW q, NEW shown, NEW had, Backed(q, shown, had), NEW t \in TasksOf(q),
         NEW status \in TaskStatuses, status \in had[t]
  PROVE  Backed(q, [shown EXCEPT ![t] = status], had)
BY DEF Backed

\* A request that is over, or whose answer finds no taker, writes as it would.
LEMMA OverKeeps ==
  ASSUME KeptInv, CallsInv, UNCHANGED server, NEW r \in Requests, Over(r)
  PROVE  /\ KeptInv'
         /\ calls' = [o \in Requests |-> calls'[o]]
         /\ calls'[r] = NoData
         /\ \A o \in Requests : o # r => calls'[o] = calls[o]
<1>1. /\ calls' = [o \in Requests |-> calls'[o]] /\ calls'[r] = NoData
      /\ \A o \in Requests : o # r => calls'[o] = calls[o]
  BY OneCall DEF Over
<1>2. \A o \in Requests : calls'[o] = calls[o] \/ calls'[o] = NoData
  BY <1>1
<1>3. KeptInv'
  BY <1>2, SameKept
<1>. QED BY <1>1, <1>3

LEMMA ReceiveKeeps ==
  ASSUME PagesInv, NEW r \in Requests, Receive(r)
  PROVE  PagesInv'
<1>1. PICK c : c = calls[r]
  OBVIOUS
<1>2. PICK t : t = c.task
  OBVIOUS
<1>3. PICK status : status = c.status
  OBVIOUS
<1>4. /\ c # NoData /\ c.step = "answered" /\ Over(r)
      /\ statuses' = [statuses EXCEPT ![t] = status]
      /\ cards' = IF c.taker = "card" THEN [cards EXCEPT ![t] = status] ELSE cards
      /\ UNCHANGED <<server, view, cache, failed, fetch>>
  BY <1>1, <1>2, <1>3 DEF Receive, At, UpdateStatus
<1>5. UNCHANGED <<taskStatus, completed, xp, recorded, overlapped>>
  BY <1>4 DEF server, progress
<1>6. ServerInv /\ KeptInv /\ CallsInv /\ ViewInv
  BY DEF PagesInv, ShownInv
<1>7. /\ c \in CallRecords /\ status \in recorded[t]
      /\ view \in Pages /\ t \in TasksOf(view) /\ statuses # NoData
      /\ c.taker = "card" => cards # NoData
  BY <1>1, <1>2, <1>3, <1>4, <1>6 DEF CallsInv, CallInv
<1>8. status \in TaskStatuses
  BY <1>3, <1>7 DEF CallRecords
<1>9. /\ Backed(view, statuses, recorded)
      /\ cards # NoData => Backed(view, cards, recorded) /\ Unlocked(view, completed)
      /\ view \in Queries
  BY <1>6, <1>7 DEF ViewInv
<1>10. \A shown : Backed(view, shown, recorded) =>
         LET later == [shown EXCEPT ![t] = status]
         IN  Backed(view, later, recorded) /\ later # NoData
  BY <1>7, <1>8, UpdateIsBacked, AnswerIsData
<1>11. Backed(view, statuses', recorded) /\ statuses' # NoData
  BY <1>4, <1>9, <1>10
<1>12. /\ cards # NoData => Backed(view, cards', recorded) /\ cards' # NoData
       /\ cards = NoData => cards' = NoData
  <2>1. CASE c.taker = "card"
    BY <1>4, <1>7, <1>9, <1>10, <2>1
  <2>2. CASE c.taker # "card"
    BY <1>4, <1>9, <2>2
  <2>. QED BY <2>1, <2>2
<1>13. ViewInv'
  BY <1>4, <1>5, <1>7, <1>9, <1>11, <1>12 DEF ViewInv
<1>14. FetchInv' /\ CacheInv'
  BY <1>4, <1>5 DEF PagesInv, ShownInv, FetchInv, FetchedInv, CacheInv
<1>15. ServerInv'
  BY <1>4, <1>6, SameGrows
<1>16. /\ KeptInv' /\ calls' = [o \in Requests |-> calls'[o]] /\ calls'[r] = NoData
       /\ \A o \in Requests : o # r => calls'[o] = calls[o]
  BY <1>4, <1>6, OverKeeps
<1>17. \A o \in Requests : CallInv(o)'
  <2> SUFFICES ASSUME NEW o \in Requests, calls'[o] # NoData PROVE CallInv(o)'
    BY DEF CallInv
  <2>1. calls'[o] = calls[o] /\ CallInv(o)
    BY <1>6, <1>16 DEF CallsInv
  <2>. QED BY <1>4, <1>5, <1>11, <1>12, <2>1 DEF CallInv
<1>. QED BY <1>13, <1>14, <1>15, <1>16, <1>17 DEF PagesInv, ShownInv, CallsInv

LEMMA FailKeeps ==
  ASSUME PagesInv, NEW r \in Requests, Fail(r)
  PROVE  PagesInv'
<1>1. Over(r) /\ UNCHANGED <<server, page>> /\ KeptInv /\ CallsInv
  BY DEF Fail, PagesInv
<1>2. /\ KeptInv' /\ calls' = [o \in Requests |-> calls'[o]] /\ calls'[r] = NoData
      /\ \A o \in Requests : o # r => calls'[o] = calls[o]
  BY <1>1, OverKeeps
<1>3. \A o \in Requests : calls'[o] = calls[o] \/ CallInv(o)'
  BY <1>2 DEF CallInv
<1>4. ServerInv' /\ Grows
  BY <1>1, SameGrows DEF PagesInv
<1>. QED BY <1>1, <1>2, <1>3, <1>4, GrowthKeeps DEF page

LEMMA DisconnectKeeps ==
  ASSUME PagesInv, NEW r \in Requests, Disconnect(r)
  PROVE  PagesInv'
<1> DEFINE alone == [calls[r] EXCEPT !.taker = "nobody"]
<1>1. /\ calls[r] # NoData /\ calls[r].step # "answered" /\ UNCHANGED <<server, page>>
      /\ calls' = [calls EXCEPT ![r] = alone]
  BY DEF Disconnect
<1>2. KeptInv /\ CallsInv /\ CallInv(r) /\ calls[r] \in CallRecords
  BY <1>1 DEF PagesInv, CallsInv, CallInv
<1>3. /\ alone \in CallRecords
      /\ alone.task = calls[r].task /\ alone.step = calls[r].step
      /\ alone.status = calls[r].status /\ alone.taker = "nobody"
  BY <1>2 DEF CallRecords, Takers
<1>4. alone = [calls[r] EXCEPT !.taker = "nobody"] /\ "nobody" \in Takers
  BY DEF Takers
<1> HIDE DEF alone
<1>5. /\ calls' = [o \in Requests |-> calls'[o]] /\ calls'[r] = alone
      /\ \A o \in Requests : o # r => calls'[o] = calls[o]
  BY <1>1, <1>2, OneCall
<1>6. ServerInv' /\ Grows
  BY <1>1, SameGrows DEF PagesInv
<1>7. KeptInv'
  <2>1. \A o \in Requests :
          \/ calls'[o] = calls[o]
          \/ calls[o] # NoData /\ \E k \in Takers : calls'[o] = [calls[o] EXCEPT !.taker = k]
    BY <1>1, <1>4, <1>5
  <2>. QED BY <1>1, <1>2, <2>1, SameKept
<1>8. CallInv(r)'
  <2>1. UNCHANGED <<completed, recorded>>
    BY <1>1 DEF server, progress
  <2>. QED BY <1>1, <1>2, <1>3, <1>5, <2>1 DEF CallInv
<1>. QED BY <1>1, <1>5, <1>6, <1>7, <1>8, GrowthKeeps DEF page

-----------------------------------------------------------------------------
LEMMA PagesInitKeeps ==
  ASSUME PagesInit
  PROVE  PagesInv
<1>1. \A r \in Requests : calls[r] = NoData
  BY DEF PagesInit
<1>2. ServerInv
  BY DEF PagesInit, ServerInv, InTurn, TaskStatuses
<1>3. KeptInv
  BY <1>1 DEF PagesInit, KeptInv, Kept, Unwritten
<1>4. \A q \in Queries : cache[q] = NoData /\ fetch[q] = NoData
  BY DEF PagesInit
<1>5. FetchInv /\ CacheInv
  BY <1>4, PagesAreQueries DEF PagesInit, FetchInv, FetchedInv, CacheInv
<1>6. ViewInv /\ CallsInv
  BY <1>1, PagesAreQueries DEF PagesInit, ViewInv, CallsInv, CallInv
<1>. QED BY <1>2, <1>3, <1>5, <1>6 DEF PagesInv, ShownInv

\* Every step keeps what the learner holds true.
LEMMA PagesStep ==
  ASSUME PagesInv, [PagesNext]_all
  PROVE  PagesInv'
<1>1. ASSUME NEW q \in Queries, StartFetch(q) \/ Read(q) \/ Arrived(q) \/ FetchFails(q)
      PROVE  PagesInv'
  BY <1>1, StartFetchKeeps, ReadCompletedKeeps, ReadXpKeeps, ReadTasksKeeps, ArrivedKeeps,
     FetchFailsKeeps DEF Read
<1>2. CASE Navigate
  BY <1>2, OpenDashboardKeeps, LoadKeeps, OpenBlockKeeps DEF Navigate
<1>3. ASSUME NEW r \in Requests, Handle(r)
      PROVE  PagesInv'
  BY <1>3, HandleReadKeeps, HandleWriteKeeps, HandleCountKeeps, HandleCheckKeeps,
     HandleCreditKeeps DEF Handle
<1>4. ASSUME NEW r \in Requests, Receive(r) \/ Fail(r) \/ Disconnect(r)
      PROVE  PagesInv'
  BY <1>4, ReceiveKeeps, FailKeeps, DisconnectKeeps
<1>5. ASSUME NEW r \in Requests, NEW t \in Tasks, NEW a \in Asks,
             Ask(r, t, a) \/ Elsewhere(r, t, a)
      PROVE  PagesInv'
  BY <1>5, AskKeeps, ElsewhereKeeps
<1>6. CASE UNCHANGED all
  <2>1. UNCHANGED <<server, view, cache, statuses, cards, calls>> /\ FetchInv'
    BY <1>6 DEF all, page, server, progress, PagesInv, ShownInv, FetchInv, FetchedInv
  <2>. QED BY <2>1, FetchedStays
<1>. QED BY <1>1, <1>2, <1>3, <1>4, <1>5, <1>6 DEF PagesNext

\* Whatever a page holds the server had once recorded; blocks and XP it still
\* has, and the row of a task too, unless requests about it have overlapped.
THEOREM PagesInvariance == PagesSpec => []PagesInv
<1>1. PagesInit => PagesInv
  BY PagesInitKeeps
<1>2. PagesInv /\ [PagesNext]_all => PagesInv'
  BY PagesStep
<1>. QED BY <1>1, <1>2, PTL DEF PagesSpec

\* The walk that computes the dashboard and the lock check gives every block
\* the status the predecessor rule gives it, in every curriculum
\* (computeBlockStatuses).
THEOREM WalkAgreesWithRule == PagesSpec => []WalkMatchesPredecessorRule
<1>1. WalkMatchesPredecessorRule
  BY WalkGivesBlockStatus DEF WalkMatchesPredecessorRule
<1>. QED BY <1>1, PTL

\* The dashboard never lets the learner click a block the server would refuse,
\* and no study page shows the tasks of a locked block (getDashboard's several
\* queries, getBlockContent's lock check, and their cached answers).
THEOREM OpenOnThePageIsOpen == PagesSpec => []ShownOpenIsOpen
<1>1. PagesInv => ShownOpenIsOpen
  BY DEF PagesInv, ShownInv, CacheInv, ViewInv, ShownOpenIsOpen
<1>. QED BY <1>1, PagesInvariance, PTL

\* The rows of a block no task of which has seen overlapping requests still say
\* COMPLETED wherever they ever did.
LEMMA CountsAreKept ==
  ASSUME ServerInv, KeptInv, NEW b \in Blocks, TasksOf(b) \cap overlapped = {}
  PROVE  /\ Cardinality(CompletedIn(b, recorded)) <= CountCompletedTasks(b, taskStatus)
         /\ CountCompletedTasks(b, taskStatus) \in Nat
<1> DEFINE now == {t \in TasksOf(b) : taskStatus[t] = "COMPLETED"}
<1>1. \A t \in TasksOf(b) : t \in Tasks \ overlapped
  BY DEF TasksOf
<1>2. CompletedIn(b, recorded) \in SUBSET now
  BY <1>1 DEF KeptInv, Kept, CompletedIn
<1>3. now \in SUBSET Tasks
  BY DEF TasksOf
<1>4. IsFiniteSet(now) /\ Cardinality(now) \in Nat
  BY <1>3, CurriculumAssumption, FS_Subset, FS_CardinalityType
<1>5. Cardinality(CompletedIn(b, recorded)) <= Cardinality(now)
  BY <1>2, <1>4, FS_Subset
<1>. QED BY <1>4, <1>5 DEF CountCompletedTasks

\* Solved and skipped cards, the page's map and the dashboard's counts show
\* nothing that was not once in the server's rows, and XP it still has; only
\* where requests about a task have overlapped may the rows have gone back
\* (StudyView, TaskCard, DashboardView over submitTask and revealTask).
THEOREM ShownWorkIsRecorded == PagesSpec => []ShownIsEarned
<1>1. ASSUME KeptInv, NEW q, NEW shown, Backed(q, shown, recorded)
      PROVE  \A t \in DOMAIN shown : Earned(shown, t)
  BY <1>1 DEF Backed, Earned, KeptInv, Kept, TasksOf
<1>2. PagesInv => ShownIsEarned
  <2> SUFFICES ASSUME PagesInv PROVE ShownIsEarned
    OBVIOUS
  <2>1. /\ cards # NoData => \A t \in DOMAIN cards : Earned(cards, t)
        /\ statuses # NoData => \A t \in DOMAIN statuses : Earned(statuses, t)
    BY <1>1 DEF PagesInv, ShownInv, ViewInv
  <2>2. ASSUME cache["dashboard"] # NoData, NEW b \in Blocks
        PROVE  /\ cache["dashboard"].solved[b] <= Cardinality(EverCompleted(b))
               /\ TasksOf(b) \cap overlapped = {} =>
                    cache["dashboard"].solved[b] <= CountCompletedTasks(b, taskStatus)
    <3>1. /\ cache["dashboard"].solved[b] \in Nat
          /\ cache["dashboard"].solved[b] <= Cardinality(CompletedIn(b, recorded))
      BY <2>2 DEF PagesInv, ShownInv, CacheInv, CountsBacked
    <3>2. EverCompleted(b) = CompletedIn(b, recorded)
      BY DEF EverCompleted, CompletedIn
    <3>3. CASE TasksOf(b) \cap overlapped = {}
      <4>1. /\ Cardinality(CompletedIn(b, recorded)) <= CountCompletedTasks(b, taskStatus)
            /\ CountCompletedTasks(b, taskStatus) \in Nat
        BY <3>3, CountsAreKept DEF PagesInv
      <4>2. Cardinality(CompletedIn(b, recorded)) \in Nat
        BY CompletedInIsFinite
      <4>. QED BY <3>1, <3>2, <4>1, <4>2
    <3>. QED BY <3>1, <3>2, <3>3
  <2>3. cache["dashboard"] # NoData => \A l \in Levels : cache["dashboard"].xp[l] <= xp[l]
    BY DEF PagesInv, ShownInv, CacheInv, XpBacked
  <2>. QED BY <2>1, <2>2, <2>3 DEF ShownIsEarned
<1>. QED BY <1>2, PagesInvariance, PTL
=============================================================================
