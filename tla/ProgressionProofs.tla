------------------------- MODULE ProgressionProofs -------------------------
(***************************************************************************)
(* Facts about the operators of Progression.tla and ProgressionWalk.tla,   *)
(* for every curriculum.                                                   *)
(***************************************************************************)
EXTENDS ProgressionWalk, FiniteSetTheorems, WellFoundedInduction, NaturalsInduction,
        TLAPS

\* Every block before b in its level is in the set: what "open" means to a
\* learner who walked through the level.
Open(b, completed) == \A p \in Blocks : Precedes(p, b) => p \in completed

\* A set of blocks that contains, with a block, every block before it.
IsLevelPrefix(completed) ==
  \A p, b \in Blocks : (Precedes(p, b) /\ b \in completed) => p \in completed

\* A block with a block before it has an immediate predecessor, which is that
\* block or comes after it: the walk of computeBlockStatuses always has a
\* block to look at.
LEMMA PredecessorExists ==
  ASSUME NEW b \in Blocks, NEW q \in Blocks, Precedes(q, b)
  PROVE  \E p \in Blocks : IsPredecessor(p, b) /\ (p = q \/ Precedes(q, p))
<1> USE CurriculumAssumption
<1> DEFINE Below == {p \in Blocks : Precedes(p, b) /\ (p = q \/ Precedes(q, p))}
           Gaps == {n \in Nat : \E p \in Below : n = OrderOf[b] - OrderOf[p]}
<1>1. Gaps # {}
  <2>1. q \in Below
    BY DEF Precedes
  <2>2. OrderOf[b] - OrderOf[q] \in Nat
    BY DEF Precedes
  <2>. QED BY <2>1, <2>2
<1>2. PICK n \in Gaps : \A m \in Gaps : ~ (<<m, n>> \in OpToRel(<, Nat))
  BY <1>1, NatLessThanWellFounded, WFMin
<1>3. PICK p \in Below : n = OrderOf[b] - OrderOf[p]
  OBVIOUS
<1>4. \A r \in Blocks : ~ (Precedes(p, r) /\ Precedes(r, b))
  <2> SUFFICES ASSUME NEW r \in Blocks, Precedes(p, r), Precedes(r, b)
               PROVE  FALSE
    OBVIOUS
  <2>1. r \in Below
    BY DEF Precedes
  <2>2. OrderOf[b] - OrderOf[r] \in Nat
    BY DEF Precedes
  <2>3. OrderOf[b] - OrderOf[r] \in Gaps
    BY <2>1, <2>2
  <2>4. OrderOf[b] - OrderOf[r] < n
    BY <1>3 DEF Precedes
  <2>. QED BY <1>2, <2>2, <2>3, <2>4 DEF OpToRel
<1>. QED BY <1>4 DEF IsPredecessor

\* The code asks for the immediate predecessor only; while the completed set is
\* a prefix of each level that is as good as asking for every block before.
LEMMA UnlockedMeansOpen ==
  ASSUME NEW completed, IsLevelPrefix(completed), NEW b \in Blocks,
         Unlocked(b, completed)
  PROVE  Open(b, completed)
<1> SUFFICES ASSUME NEW q \in Blocks, Precedes(q, b)
             PROVE  q \in completed
  BY DEF Open
<1>1. PICK p \in Blocks : IsPredecessor(p, b) /\ (p = q \/ Precedes(q, p))
  BY PredecessorExists
<1>2. p \in completed
  BY <1>1 DEF Unlocked
<1>. QED BY <1>1, <1>2 DEF IsLevelPrefix

\* A block that is not LOCKED is open.
LEMMA NotLockedMeansOpen ==
  ASSUME NEW completed, IsLevelPrefix(completed), NEW b \in Blocks,
         BlockStatus(b, completed) # "LOCKED"
  PROVE  Open(b, completed)
<1>1. CASE b \in completed
  BY <1>1 DEF IsLevelPrefix, Open
<1>2. CASE b \notin completed
  BY <1>2, UnlockedMeansOpen DEF BlockStatus
<1>. QED BY <1>1, <1>2

\* Crediting one more block never closes an open one.
LEMMA OpenIsMonotonic ==
  ASSUME NEW small, NEW large, small \subseteq large, NEW b,
         Open(b, small)
  PROVE  Open(b, large)
BY DEF Open

\* Crediting an open block keeps the completed set a prefix.
LEMMA CreditKeepsPrefix ==
  ASSUME NEW completed, IsLevelPrefix(completed), NEW b \in Blocks,
         Open(b, completed)
  PROVE  IsLevelPrefix(completed \cup {b})
BY DEF IsLevelPrefix, Open

-----------------------------------------------------------------------------
(***************************************************************************)
(* The walk of computeBlockStatuses gives every block the status the       *)
(* predecessor rule of Progression.tla gives it, for every curriculum,     *)
(* every set of completed blocks and every gap in the order numbers.       *)
(***************************************************************************)
\* sorted lists each of the blocks once, by ascending order.
ListsInOrder(sorted, n, blocks) ==
  /\ sorted \in [1..n -> blocks]
  /\ \A b \in blocks : \E i \in 1..n : sorted[i] = b
  /\ \A i, j \in 1..n : i < j => OrderOf[sorted[i]] < OrderOf[sorted[j]]

\* Positions in the list compare as the orders do.
LEMMA SortedBothWays ==
  ASSUME NEW l \in Levels, NEW n \in Nat, NEW sorted,
         ListsInOrder(sorted, n, BlocksOf(l)),
         NEW i \in 1..n, NEW j \in 1..n, Precedes(sorted[j], sorted[i])
  PROVE  j < i
<1>1. /\ OrderOf[sorted[i]] \in Nat
      /\ OrderOf[sorted[j]] \in Nat
  BY CurriculumAssumption DEF ListsInOrder, BlocksOf
<1>2. i < j => OrderOf[sorted[i]] < OrderOf[sorted[j]]
  BY DEF ListsInOrder
<1>3. OrderOf[sorted[j]] < OrderOf[sorted[i]]
  BY DEF Precedes
<1>. QED BY <1>1, <1>2, <1>3

\* The block the walk has just left is the immediate predecessor.
LEMMA PreviousIsPredecessor ==
  ASSUME NEW l \in Levels, NEW n \in Nat, NEW sorted,
         ListsInOrder(sorted, n, BlocksOf(l)), NEW i \in 1..n, i # 1
  PROVE  IsPredecessor(sorted[i - 1], sorted[i])
<1>1. i - 1 \in 1..n /\ i - 1 < i
  OBVIOUS
<1>2. sorted[i] \in BlocksOf(l) /\ sorted[i - 1] \in BlocksOf(l)
  BY <1>1 DEF ListsInOrder
<1>3. Precedes(sorted[i - 1], sorted[i])
  BY <1>1, <1>2 DEF ListsInOrder, Precedes, BlocksOf
<1>4. ASSUME NEW q \in Blocks, Precedes(sorted[i - 1], q), Precedes(q, sorted[i])
      PROVE  FALSE
  <2>1. q \in BlocksOf(l)
    BY <1>2, <1>4 DEF Precedes, BlocksOf
  <2>2. PICK k \in 1..n : sorted[k] = q
    BY <2>1 DEF ListsInOrder
  <2>3. i - 1 < k
    BY <1>1, <1>4, <2>2, SortedBothWays
  <2>4. k < i
    BY <1>4, <2>2, SortedBothWays
  <2>. QED BY <2>3, <2>4
<1>. QED BY <1>3, <1>4 DEF IsPredecessor

\* A block of the list has no other immediate predecessor.
LEMMA PredecessorIsPrevious ==
  ASSUME NEW l \in Levels, NEW n \in Nat, NEW sorted,
         ListsInOrder(sorted, n, BlocksOf(l)), NEW i \in 1..n,
         NEW p \in Blocks, IsPredecessor(p, sorted[i])
  PROVE  i # 1 /\ p = sorted[i - 1]
<1>1. Precedes(p, sorted[i])
  BY DEF IsPredecessor
<1>2. sorted[i] \in BlocksOf(l)
  BY DEF ListsInOrder
<1>3. PICK k \in 1..n : sorted[k] = p
  BY <1>1, <1>2 DEF ListsInOrder, Precedes, BlocksOf
<1>4. k < i
  BY <1>1, <1>3, SortedBothWays
<1>5. ASSUME k # i - 1 PROVE FALSE
  <2>1. i - 1 \in 1..n /\ k < i - 1
    BY <1>4, <1>5
  <2>2. sorted[i - 1] \in BlocksOf(l)
    BY <2>1 DEF ListsInOrder
  <2>3. Precedes(p, sorted[i - 1])
    BY <1>1, <1>2, <1>3, <2>1, <2>2 DEF ListsInOrder, Precedes, BlocksOf
  <2>4. Precedes(sorted[i - 1], sorted[i])
    BY <1>2, <2>1, <2>2 DEF ListsInOrder, Precedes, BlocksOf
  <2>. QED BY <2>2, <2>3, <2>4 DEF IsPredecessor, BlocksOf
<1>. QED BY <1>3, <1>4, <1>5

\* prevCompleted, when the walk reaches a block, is true exactly when the block
\* is unlocked: completing its immediate predecessor is what opens a block
\* (computeBlockStatuses, progression.ts, the loop over the sorted blocks).
THEOREM WalkUnlocksByPredecessor ==
  ASSUME NEW l \in Levels, NEW n \in Nat, NEW sorted,
         ListsInOrder(sorted, n, BlocksOf(l)), NEW i \in 1..n, NEW done
  PROVE  PrevCompleted(sorted, done, i) <=> Unlocked(sorted[i], done)
<1>1. CASE i = 1
  <2>1. Unlocked(sorted[i], done)
    BY <1>1, PredecessorIsPrevious DEF Unlocked
  <2>. QED BY <1>1, <2>1 DEF PrevCompleted
<1>2. CASE i # 1
  <2>1. IsPredecessor(sorted[i - 1], sorted[i])
    BY <1>2, PreviousIsPredecessor
  <2>2. sorted[i - 1] \in Blocks
    BY <1>2 DEF ListsInOrder, BlocksOf
  <2>3. \A p \in Blocks : IsPredecessor(p, sorted[i]) => p = sorted[i - 1]
    BY PredecessorIsPrevious
  <2>. QED BY <1>2, <2>1, <2>2, <2>3 DEF PrevCompleted, Unlocked
<1>. QED BY <1>1, <1>2

\* The sort lists the blocks of a level each once and in order: it gives each
\* block one place more than there are blocks before it, and the places are
\* taken one for one.
LEMMA SortListsInOrder ==
  ASSUME NEW l \in Levels
  PROVE  /\ Cardinality(BlocksOf(l)) \in Nat
         /\ ListsInOrder(SortedByOrder(BlocksOf(l)), Cardinality(BlocksOf(l)), BlocksOf(l))
<1> DEFINE B == BlocksOf(l)
           n == Cardinality(B)
           Before(b) == {c \in B : OrderOf[c] < OrderOf[b]}
           place == [b \in B |-> Cardinality(Before(b)) + 1]
           sorted == SortedByOrder(B)
<1>1. /\ B \subseteq Blocks /\ IsFiniteSet(B) /\ n \in Nat
      /\ \A b \in B : OrderOf[b] \in Nat
      /\ \A b, c \in B : OrderOf[b] = OrderOf[c] => b = c
  <2>1. B \in SUBSET Blocks
    BY DEF BlocksOf
  <2>2. IsFiniteSet(B)
    BY <2>1, FS_Subset, CurriculumAssumption
  <2>3. n \in Nat
    BY <2>2, FS_CardinalityType
  <2>. QED BY <2>1, <2>2, <2>3, CurriculumAssumption DEF BlocksOf
<1>2. ASSUME NEW b \in B
      PROVE  /\ IsFiniteSet(Before(b)) /\ Cardinality(Before(b)) \in Nat
             /\ place[b] \in 1..n
  <2>1. IsFiniteSet(Before(b)) /\ Cardinality(Before(b)) \in Nat
    <3>1. Before(b) \in SUBSET B
      OBVIOUS
    <3>2. IsFiniteSet(Before(b))
      BY <3>1, <1>1, FS_Subset
    <3>. QED BY <3>2, FS_CardinalityType
  <2>2. IsFiniteSet(B \ {b}) /\ Cardinality(B \ {b}) = n - 1
    BY <1>1, FS_RemoveElement
  <2>3. Before(b) \in SUBSET (B \ {b})
    BY <1>1
  <2>4. Cardinality(Before(b)) <= n - 1
    BY <2>2, <2>3, FS_Subset
  <2>. QED BY <1>1, <2>1, <2>4
<1>3. ASSUME NEW b \in B, NEW c \in B, OrderOf[c] < OrderOf[b]
      PROVE  place[c] < place[b]
  <2>1. (Before(c) \cup {c}) \in SUBSET Before(b)
    BY <1>1, <1>3
  <2>2. c \notin Before(c)
    BY <1>1
  <2>3. IsFiniteSet(Before(c)) /\ Cardinality(Before(c)) \in Nat
        /\ IsFiniteSet(Before(b)) /\ Cardinality(Before(b)) \in Nat
    BY <1>2
  <2>4. Cardinality(Before(c) \cup {c}) = Cardinality(Before(c)) + 1
    BY <2>2, <2>3, FS_AddElement
  <2>5. Cardinality(Before(c) \cup {c}) <= Cardinality(Before(b))
    BY <2>1, <2>3, FS_Subset
  <2>. QED BY <2>3, <2>4, <2>5
<1> HIDE DEF Before
<1>4. \A b, c \in B : place[b] = place[c] => b = c
  <2> SUFFICES ASSUME NEW b \in B, NEW c \in B, place[b] = place[c], b # c PROVE FALSE
    OBVIOUS
  <2>1. place[b] \in Nat /\ place[c] \in Nat
    BY <1>1, <1>2
  <2>2. OrderOf[b] < OrderOf[c] \/ OrderOf[c] < OrderOf[b]
    BY <1>1
  <2>. QED BY <1>3, <2>1, <2>2
<1>5. \A i \in 1..n : \E b \in B : place[b] = i
  <2>1. place \in [B -> 1..n]
    BY <1>2
  <2>2. place \in Injection(B, 1..n)
    BY <1>4, <2>1 DEF Injection, IsInjective
  <2>3. IsFiniteSet(1..n) /\ Cardinality(1..n) = n
    BY <1>1, FS_Interval
  <2>4. place \in Surjection(B, 1..n)
    BY <2>2, <2>3, FS_Injection
  <2>. QED BY <2>4 DEF Surjection
<1>6. ASSUME NEW i \in 1..n PROVE sorted[i] \in B /\ place[sorted[i]] = i
  <2>1. PICK b \in B : place[b] = i
    BY <1>5
  <2>2. Cardinality(Before(b)) = i - 1
    BY <1>2, <2>1
  <2>3. sorted[i] = CHOOSE c \in B : Cardinality(Before(c)) = i - 1
    BY DEF SortedByOrder, Before
  <2>4. sorted[i] \in B /\ Cardinality(Before(sorted[i])) = i - 1
    BY <2>2, <2>3
  <2>. QED BY <2>4
<1>7. sorted \in [1..n -> B]
  <2> DEFINE at(i) == CHOOSE c \in B : Cardinality(Before(c)) = i - 1
  <2>1. sorted = [i \in 1..n |-> at(i)]
    BY DEF SortedByOrder, Before
  <2>2. \A i \in 1..n : at(i) \in B
    BY <1>6, <2>1
  <2> HIDE DEF sorted, B, n, at
  <2>. QED BY <2>1, <2>2
<1>8. \A b \in B : \E i \in 1..n : sorted[i] = b
  BY <1>2, <1>4, <1>6
<1>9. ASSUME NEW i \in 1..n, NEW j \in 1..n, i < j
      PROVE  OrderOf[sorted[i]] < OrderOf[sorted[j]]
  <2>1. /\ sorted[i] \in B /\ sorted[j] \in B
        /\ place[sorted[i]] = i /\ place[sorted[j]] = j
    BY <1>6
  <2>2. OrderOf[sorted[i]] \in Nat /\ OrderOf[sorted[j]] \in Nat
    BY <1>1, <2>1
  <2>3. ~ (OrderOf[sorted[j]] < OrderOf[sorted[i]])
    BY <1>3, <1>9, <2>1
  <2>4. OrderOf[sorted[i]] # OrderOf[sorted[j]]
    BY <1>1, <1>9, <2>1
  <2>. QED BY <2>2, <2>3, <2>4
<1>. QED BY <1>1, <1>7, <1>8, <1>9 DEF ListsInOrder

\* So the status computeBlockStatuses gives a block of its level's list is the
\* one the predecessor rule determines, for every curriculum, every gap in its
\* orders and every set of completed blocks.
THEOREM WalkGivesBlockStatus ==
  ASSUME NEW b \in Blocks, NEW done
  PROVE  ComputeSingleBlockStatus(b, BlocksOf(LevelOf[b]), done) = BlockStatus(b, done)
<1> DEFINE l == LevelOf[b]
           n == Cardinality(BlocksOf(l))
           sorted == SortedByOrder(BlocksOf(l))
           i == CHOOSE k \in DOMAIN sorted : sorted[k] = b
<1>1. l \in Levels /\ b \in BlocksOf(l)
  BY CurriculumAssumption DEF BlocksOf
<1>2. n \in Nat /\ ListsInOrder(sorted, n, BlocksOf(l))
  BY <1>1, SortListsInOrder
<1>3. i \in 1..n /\ sorted[i] = b
  BY <1>1, <1>2 DEF ListsInOrder
<1>4. ComputeBlockStatuses(BlocksOf(l), done)[b] =
        IF sorted[i] \in done THEN "COMPLETED"
        ELSE IF PrevCompleted(sorted, done, i) THEN "IN_PROGRESS"
        ELSE "LOCKED"
  BY <1>1 DEF ComputeBlockStatuses
<1> HIDE DEF i, sorted, n, l
<1>5. PrevCompleted(sorted, done, i) <=> Unlocked(b, done)
  BY <1>1, <1>2, <1>3, WalkUnlocksByPredecessor
<1>6. ComputeSingleBlockStatus(b, BlocksOf(l), done) = ComputeBlockStatuses(BlocksOf(l), done)[b]
  BY <1>1 DEF ComputeSingleBlockStatus
<1>. QED BY <1>3, <1>4, <1>5, <1>6 DEF BlockStatus, l
=============================================================================
