-------------------------- MODULE ProgressionWalk --------------------------
(***************************************************************************)
(* computeBlockStatuses (apps/api/src/study/progression.ts) the way the    *)
(* code computes it: sort the given blocks by order, then walk them once   *)
(* carrying prevCompleted.  Study.tla uses the declarative form of         *)
(* Progression.tla; StudyPages.tla computes its dashboard with this one,   *)
(* checks that the two agree, and ProgressionProofs.tla proves it.         *)
(***************************************************************************)
EXTENDS Progression

\* The i-th block is the one that i - 1 come before.
SortedByOrder(blocks) ==
  [i \in 1..Cardinality(blocks) |->
     CHOOSE b \in blocks :
       Cardinality({c \in blocks : OrderOf[c] < OrderOf[b]}) = i - 1]

\* Defect: any earlier completed block opens the next one.
PrevCompletedEver(sorted, done, i) ==
  i = 1 \/ \E j \in 1..(i - 1) : sorted[j] \in done

\* prevCompleted when the walk reaches the i-th block: the block before the
\* first one is treated as done.
PrevCompleted(sorted, done, i) ==
  i = 1 \/ sorted[i - 1] \in done

ComputeBlockStatuses(blocks, done) ==
  LET sorted == SortedByOrder(blocks)
      status(i) == IF sorted[i] \in done THEN "COMPLETED"
                   ELSE IF PrevCompleted(sorted, done, i) THEN "IN_PROGRESS"
                   ELSE "LOCKED"
  IN [b \in blocks |-> status(CHOOSE i \in DOMAIN sorted : sorted[i] = b)]

\* A block that is not in the level's list is reported LOCKED.
ComputeSingleBlockStatus(b, blocks, done) ==
  IF b \in blocks THEN ComputeBlockStatuses(blocks, done)[b] ELSE "LOCKED"
=============================================================================
