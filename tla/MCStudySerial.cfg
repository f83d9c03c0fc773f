SPECIFICATION FairSpec
CONSTANTS
  Levels = {"NOVICE"}
  Blocks <- ChainBlocks
  Tasks <- ChainTasks
  LevelOf <- ChainLevelOf
  OrderOf <- ChainOrderOf
  BlockOf <- ChainBlockOf
  XPPerBlock <- MCXP
  Users = {u1}
  Requests = {r1}
  NoRequest = NoRequest
  MaxInFlight = 1
  MaxAttempts = 2
  CanFail = TRUE
PROPERTIES
  KeepsPromise
  ResolvedBlockGetsCredited
