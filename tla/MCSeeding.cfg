SPECIFICATION FairSpec
CONSTANTS
  Releases <- MCReleases
  MaxCrashes = 2
  CrashAt <- MCCrashAt
INVARIANTS
  SuccessMeansLoaded
  TasksRunThroughout
PROPERTIES
  ReseedingChangesNothing
  FailsOnlyWhenStale
  ContentGetsIn
