SPECIFICATION RegistrationFairSpec
CONSTANTS
  Requests = {r1, r2}
  Codes = {c1, c2}
  NoCode = NoCode
  MaxCodeAttempts = 2
  MaxFailures = 1
  Jobs <- MCJobs
  MaxFaults = 1
INVARIANTS
  MissesBounded
  ActiveHasNoCode
  CodeOnFileIsOnItsWay
  CopiesExplained
PROPERTIES
  BurnsOnlyExhaustedCodes
  PendingGetsTheMail
