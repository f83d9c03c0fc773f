SPECIFICATION Spec
CONSTANTS
  Levels = {"NOVICE"}
  Blocks <- ChainBlocks
  Tasks <- ChainTasks
  LevelOf <- ChainLevelOf
  OrderOf <- ChainOrderOf
  BlockOf <- ChainBlockOf
  XPPerBlock <- MCXP
  Users = {u1}
  Requests = {r1, r2}
  NoRequest = NoRequest
  MaxInFlight = 2
  MaxAttempts = 2
  CanFail = TRUE
SYMMETRY RequestSymmetry
INVARIANTS
  TypeOK
  CompletedIsPrefix
  ProgressOnlyInOpenBlocks
  CreditedBlockWorkedThrough
  XpCoversCompleted
  XpBounded
