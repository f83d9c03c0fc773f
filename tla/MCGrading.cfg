SPECIFICATION FairSpec
CONSTANTS
  Rows <- MCRows
  Queries <- MCQueries
  MaxRows <- MCMaxRows
  NoQuery = NoQuery
  Texts <- MCTexts
  ColumnLists <- MCColumnLists
  PinnedTasks <- MCPinnedTasks
CHECK_DEADLOCK FALSE
INVARIANTS
  OnlyTheTimerFailsGoodQueries
  GuardAdmitsOneQuery
  VerdictMatchesAnswer
PROPERTIES
  SettlesOnce
  WorkersEnd
  EverySubmissionIsGraded
