----------------------------- MODULE MCSeeding -----------------------------
(***************************************************************************)
(* The curriculum of the repository, and an edit of it: the first NOVICE   *)
(* dataset gets a table, the first task reads it and has another answer;   *)
(* the last NOVICE dataset loses a table, two of its tasks no longer read  *)
(* it, the third that did is gone, and there is a new one.                 *)
(***************************************************************************)
EXTENDS Seeding, Registry, TLC

EditedDatasets ==
  <<Dataset("novice-b1-employees",
      NoviceBlock1Datasets[1].setup @@ [offices |-> {"id", "city"}],
      NoviceBlock1Datasets[1].schema @@ [offices |-> {"id", "city"}])>>

EditedTasks ==
  [NoviceBlock1Tasks EXCEPT ![1] =
     Unordered(1, "novice-b1-employees", {"employees", "offices"}, Rows(4))]

Kept == {"authors", "books"}

ShrunkDatasets ==
  <<Dataset("novice-b5-library",
      [table \in Kept |-> NoviceBlock5Datasets[1].setup[table]],
      [table \in Kept |-> NoviceBlock5Datasets[1].schema[table]])>>

ReplacedTasks ==
  [NoviceBlock5Tasks EXCEPT
     ![2] = Unordered(2, "novice-b5-library", {"books"}, Rows(10)),
     ![3] = Unordered(3, "novice-b5-library", {"books"}, Rows(5)),
     ![10] = Unordered(11, "novice-b5-library", {"books"}, Rows(5))]

EditedLEVELS ==
  [LEVELS EXCEPT
     ![1].blocks[1] = Block(1, EditedDatasets, EditedTasks),
     ![1].blocks[5] = Block(5, ShrunkDatasets, ReplacedTasks)]

MCReleases == <<LEVELS, EditedLEVELS>>

\* In the block that loses a table, with some of its tasks written: what comes
\* before it is new, what comes after it is not.
MCCrashAt == {At(1, 5, 9)}
=============================================================================
