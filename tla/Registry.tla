------------------------------ MODULE Registry ------------------------------
(***************************************************************************)
(* The registry of levels (apps/api/prisma/seed/registry.ts), the list     *)
(* both scripts iterate.                                                   *)
(***************************************************************************)
EXTENDS NoviceContent, JuniorContent, MiddleContent

LEVELS ==
  <<[level |-> "NOVICE", blocks |-> NoviceBlocks],
    [level |-> "JUNIOR", blocks |-> JuniorBlocks],
    [level |-> "MIDDLE", blocks |-> MiddleBlocks]>>
=============================================================================
