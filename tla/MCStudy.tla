------------------------------ MODULE MCStudy ------------------------------
(***************************************************************************)
(* Small curricula for checking Study.tla.                                 *)
(***************************************************************************)
EXTENDS Study, TLC

MCXP == [l \in Levels |-> IF l = "NOVICE" THEN 100 ELSE 150]

\* One level with a gap in its orders, a block of two tasks and the one it
\* unlocks.
ChainBlocks == {"b1", "b2"}
ChainTasks == {"t1", "t2", "t3"}
ChainLevelOf == [b \in ChainBlocks |-> "NOVICE"]
ChainOrderOf == [b \in ChainBlocks |-> IF b = "b1" THEN 1 ELSE 3]
ChainBlockOf == [t \in ChainTasks |-> IF t = "t3" THEN "b2" ELSE "b1"]

\* One block of one task.
SingleBlocks == {"b1"}
SingleTasks == {"t1"}
SingleLevelOf == [b \in SingleBlocks |-> "NOVICE"]
SingleOrderOf == [b \in SingleBlocks |-> 1]
SingleBlockOf == [t \in SingleTasks |-> "b1"]

RequestSymmetry == Permutations(Requests)
=============================================================================
