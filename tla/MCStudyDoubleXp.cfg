SPECIFICATION Spec
CONSTANTS
  Levels = {"NOVICE"}
  Blocks <- SingleBlocks
  Tasks <- SingleTasks
  LevelOf <- SingleLevelOf
  OrderOf <- SingleOrderOf
  BlockOf <- SingleBlockOf
  XPPerBlock <- MCXP
  Users = {u1}
  Requests = {r1, r2}
  NoRequest = NoRequest
  MaxInFlight = 2
  MaxAttempts = 2
  CanFail = FALSE
INVARIANTS
  XpExact
