SPECIFICATION PagesSpec
CONSTANTS
  Levels = {"NOVICE"}
  Blocks <- MCBlocks
  Tasks <- MCTasks
  LevelOf <- MCLevelOf
  OrderOf <- MCOrderOf
  BlockOf <- MCBlockOf
  XPPerBlock <- MCXP
  Pages = {"b1", "b2"}
  Requests = {r1, r2}
  MaxSent = 2
  NoData = NoData
SYMMETRY MCSymmetry
INVARIANTS
  WalkMatchesPredecessorRule
  ShownOpenIsOpen
  ShownIsEarned
