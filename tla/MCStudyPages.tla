---------------------------- MODULE MCStudyPages ----------------------------
(***************************************************************************)
(* A level of three blocks with a gap in its orders, for StudyPages.tla.   *)
(***************************************************************************)
EXTENDS StudyPages, TLC

MCBlocks == {"b1", "b2", "b3"}
MCTasks == {"t1"}
MCLevelOf == [b \in MCBlocks |-> "NOVICE"]
MCOrderOf == [b \in MCBlocks |-> CASE b = "b1" -> 1 [] b = "b2" -> 4 [] b = "b3" -> 5]
MCBlockOf == [t \in MCTasks |-> "b1"]
MCXP == [l \in Levels |-> 100]

\* Requests differ by what they are about alone.
MCSymmetry == Permutations(Requests)
=============================================================================
