--------------------------- MODULE SeedingProofs ---------------------------
(***************************************************************************)
(* Theorems about Seeding.tla, for any content that keeps to               *)
(* ContentAssumption, any number of edits, and scripts that die at any     *)
(* step, any number of times.                                              *)
(***************************************************************************)
EXTENDS Seeding, SequenceTheorems, TLAPS

-----------------------------------------------------------------------------
(***************************************************************************)
(* The plan.                                                               *)
(***************************************************************************)
LEMMA FunctionIsSequence ==
  ASSUME NEW S, NEW n \in Nat, NEW f \in [1..n -> S]
  PROVE  f \in Seq(S) /\ n = Len(f)
OBVIOUS

LEMMA Concatenation ==
  ASSUME NEW S, NEW f \in Seq(S), NEW g \in Seq(S)
  PROVE  /\ f \o g \in Seq(S)
         /\ Len(f \o g) = Len(f) + Len(g)
         /\ \A i \in 1..Len(f) : (f \o g)[i] = f[i]
         /\ \A i \in 1..Len(g) : (f \o g)[Len(f) + i] = g[i]
<1> DEFINE h == f \o g
           m == Len(f)
           n == Len(g)
<1>1. m \in Nat /\ n \in Nat
  OBVIOUS
<1>2. /\ h \in Seq(S) /\ Len(h) = m + n
      /\ \A i \in 1..m + n : h[i] = IF i <= m THEN f[i] ELSE g[i - m]
  BY ConcatProperties
<1> HIDE DEF h, m, n
<1>3. \A i \in 1..m : h[i] = f[i]
  BY <1>1, <1>2
<1>4. ASSUME NEW i \in 1..n PROVE h[m + i] = g[i]
  <2>1. m + i \in 1..m + n /\ ~ (m + i <= m) /\ (m + i) - m = i
    BY <1>1
  <2>. QED BY <1>2, <2>1
<1>. QED BY <1>2, <1>3, <1>4 DEF h, m, n

AStep(kind, l, b, def) == [kind |-> kind, level |-> l, block |-> b, def |-> def]

BlockStep(l, b) == [kind |-> "block", level |-> l, block |-> b]

\* The upserts of a block: its datasets, the block, its tasks.
LEMMA StepsOfBlockAre ==
  ASSUME NEW l, NEW b, IsSequence(b.datasets), IsSequence(b.tasks)
  PROVE  LET d == Len(b.datasets)
             t == Len(b.tasks)
             steps == StepsOfBlock(l, b)
         IN /\ d \in Nat /\ t \in Nat
            /\ Len(steps) = d + 1 + t
            /\ DOMAIN steps = 1..(d + 1 + t)
            /\ \A i \in 1..d : steps[i] = AStep("dataset", l, b, b.datasets[i])
            /\ steps[d + 1] = BlockStep(l, b)
            /\ \A i \in 1..t : steps[d + 1 + i] = AStep("task", l, b, b.tasks[i])
<1> DEFINE d == Len(b.datasets)
           t == Len(b.tasks)
           D == [i \in 1..d |-> AStep("dataset", l, b, b.datasets[i])]
           T == [i \in 1..t |-> AStep("task", l, b, b.tasks[i])]
           B == <<BlockStep(l, b)>>
           S == {D[i] : i \in 1..d} \cup {T[i] : i \in 1..t} \cup {BlockStep(l, b)}
<1>1. d \in Nat /\ t \in Nat /\ DOMAIN b.datasets = 1..d /\ DOMAIN b.tasks = 1..t
  BY DEF IsSequence
<1>2. StepsOfBlock(l, b) = D \o B \o T
  BY <1>1 DEF StepsOfBlock, AStep, BlockStep
<1> HIDE DEF d, t
<1>3. /\ D \in [1..d -> S] /\ T \in [1..t -> S]
      /\ B \in Seq(S) /\ 1 = Len(B)
  OBVIOUS
<1>4. /\ \A i \in 1..d : D[i] = AStep("dataset", l, b, b.datasets[i])
      /\ \A i \in 1..t : T[i] = AStep("task", l, b, b.tasks[i])
      /\ B[1] = BlockStep(l, b)
  OBVIOUS
<1> HIDE DEF D, T, B, S
<1>5. D \in Seq(S) /\ d = Len(D) /\ T \in Seq(S) /\ t = Len(T)
  BY <1>1, <1>3, FunctionIsSequence, Zenon
<1> DEFINE F == D \o B
<1>6. /\ F \in Seq(S) /\ d + 1 = Len(F)
      /\ \A i \in 1..d : F[i] = D[i]
      /\ \A i \in 1..1 : F[d + i] = B[i]
  <2>1. D \in Seq(S) /\ B \in Seq(S) /\ d = Len(D) /\ 1 = Len(B)
    BY <1>3, <1>5, Zenon
  <2>. HIDE DEF F
  <2>2. D \o B = F
    BY DEF F
  <2>3. /\ D \o B \in Seq(S)
        /\ Len(D \o B) = Len(D) + Len(B)
        /\ \A i \in 1..Len(D) : (D \o B)[i] = D[i]
        /\ \A i \in 1..Len(B) : (D \o B)[Len(D) + i] = B[i]
    BY <2>1, Concatenation
  <2>. QED BY <2>1, <2>2, <2>3, Zenon
<1>7. F[d + 1] = B[1]
  <2>1. 1 \in 1..1
    OBVIOUS
  <2>. QED BY <1>6, <2>1, Zenon
<1> HIDE DEF F
<1> DEFINE G == F \o T
<1>8. /\ G \in Seq(S) /\ d + 1 + t = Len(G)
      /\ \A i \in 1..(d + 1) : G[i] = F[i]
      /\ \A i \in 1..t : G[d + 1 + i] = T[i]
  <2>1. F \in Seq(S) /\ T \in Seq(S) /\ d + 1 = Len(F) /\ t = Len(T)
    BY <1>5, <1>6, Zenon
  <2>. HIDE DEF G
  <2>2. F \o T = G
    BY DEF G
  <2>3. /\ F \o T \in Seq(S)
        /\ Len(F \o T) = Len(F) + Len(T)
        /\ \A i \in 1..Len(F) : (F \o T)[i] = F[i]
        /\ \A i \in 1..Len(T) : (F \o T)[Len(F) + i] = T[i]
    BY <2>1, Concatenation
  <2>. QED BY <2>1, <2>2, <2>3, Zenon
<1>9. StepsOfBlock(l, b) = G
  BY <1>2 DEF F
<1> HIDE DEF G
<1>10. /\ \A i \in 1..d : G[i] = D[i]
       /\ G[d + 1] = B[1]
       /\ DOMAIN G = 1..(d + 1 + t)
  <2>1. \A i \in 1..d : i \in 1..(d + 1)
    BY <1>1
  <2>2. d + 1 \in 1..(d + 1)
    BY <1>1
  <2>3. DOMAIN G = 1..Len(G)
    BY <1>8, LenProperties
  <2>. QED BY <1>6, <1>7, <1>8, <2>1, <2>2, <2>3, Zenon
<1>11. /\ \A i \in 1..t : G[d + 1 + i] = AStep("task", l, b, b.tasks[i])
       /\ \A i \in 1..d : G[i] = AStep("dataset", l, b, b.datasets[i])
       /\ G[d + 1] = BlockStep(l, b)
       /\ Len(G) = d + 1 + t
  BY <1>4, <1>8, <1>10
<1>. QED BY <1>1, <1>9, <1>10, <1>11, Zenon DEF d, t

LEMMA ReleaseShape ==
  ASSUME NEW r \in DOMAIN Releases
  PROVE  /\ r \in Nat /\ r > 0 /\ DOMAIN Releases = 1..Len(Releases) /\ Len(Releases) \in Nat
         /\ Len(Releases[r]) \in Nat /\ Len(Releases[r]) > 0
         /\ DOMAIN Releases[r] = 1..Len(Releases[r])
         /\ \A l \in DOMAIN Releases[r] : HoldsBlocks(Releases[r][l])
<1>1. IsSequence(Releases) /\ IsSequence(Releases[r]) /\ Len(Releases[r]) > 0
  BY ContentAssumption, Zenon
<1>2. \A l \in DOMAIN Releases[r] : HoldsBlocks(Releases[r][l])
  BY ContentAssumption, Zenon
<1>3. r \in 1..Len(Releases) /\ Len(Releases) \in Nat
  BY <1>1 DEF IsSequence
<1>. QED BY <1>1, <1>2, <1>3 DEF IsSequence

BlocksIn(r, l) == Len(Releases[r][l].blocks)

LEMMA LevelPlan ==
  ASSUME NEW r \in DOMAIN Releases, NEW l \in DOMAIN Releases[r]
  PROVE  /\ DOMAIN Plan[r] = DOMAIN Releases[r]
         /\ BlocksIn(r, l) \in Nat
         /\ DOMAIN Releases[r][l].blocks = 1..BlocksIn(r, l)
         /\ DOMAIN Plan[r][l] = 0..BlocksIn(r, l)
         /\ Plan[r][l][0] = <<[kind |-> "level", level |-> Releases[r][l].level]>>
         /\ \A b \in 1..BlocksIn(r, l) :
              /\ Plan[r][l][b] = StepsOfBlock(Releases[r][l].level, Releases[r][l].blocks[b])
              /\ IsSequence(Releases[r][l].blocks[b].datasets)
              /\ IsSequence(Releases[r][l].blocks[b].tasks)
<1> DEFINE entry == Releases[r][l]
           n == BlocksIn(r, l)
           P == [b \in 0..n |->
                   IF b = 0 THEN <<[kind |-> "level", level |-> entry.level]>>
                   ELSE StepsOfBlock(entry.level, entry.blocks[b])]
<1>1. HoldsBlocks(entry)
  BY ReleaseShape
<1>2. n \in Nat /\ DOMAIN entry.blocks = 1..n
  BY <1>1 DEF HoldsBlocks, IsSequence, BlocksIn
<1>3. \A b \in 1..n : IsSequence(entry.blocks[b].datasets) /\ IsSequence(entry.blocks[b].tasks)
  BY <1>1, <1>2 DEF HoldsBlocks
<1>4. DOMAIN Plan[r] = DOMAIN Releases[r] /\ Plan[r][l] = P
  BY DEF Plan, BlocksIn
<1> HIDE DEF entry
<1>5. /\ DOMAIN P = 0..n
      /\ P[0] = <<[kind |-> "level", level |-> entry.level]>>
      /\ \A b \in 1..n : P[b] = StepsOfBlock(entry.level, entry.blocks[b])
  <2>1. 0 \in 0..n /\ \A b \in 1..n : b \in 0..n /\ b # 0
    BY <1>2
  <2>. QED BY <2>1, Zenon
<1> HIDE DEF P, n
<1>. QED BY <1>2, <1>3, <1>4, <1>5 DEF entry, n

StepsIn(r, l, b) == Len(Plan[r][l][b])

LEMMA BlockPlan ==
  ASSUME NEW r \in DOMAIN Releases, NEW l \in DOMAIN Releases[r], NEW b \in 0..BlocksIn(r, l)
  PROVE  /\ StepsIn(r, l, b) \in Nat /\ StepsIn(r, l, b) > 0
         /\ DOMAIN Plan[r][l][b] = 1..StepsIn(r, l, b)
<1>1. CASE b = 0
  <2> DEFINE step == [kind |-> "level", level |-> Releases[r][l].level]
  <2>1. Plan[r][l][b] = <<step>>
    BY <1>1, LevelPlan
  <2> HIDE DEF step
  <2>2. Len(<<step>>) = 1 /\ DOMAIN <<step>> = 1..1
    OBVIOUS
  <2>. QED BY <2>1, <2>2 DEF StepsIn
<1>2. CASE b # 0
  <2> DEFINE B == Releases[r][l].blocks[b]
             level == Releases[r][l].level
             d == Len(B.datasets)
             t == Len(B.tasks)
  <2>1. BlocksIn(r, l) \in Nat
    BY LevelPlan
  <2>2. b \in 1..BlocksIn(r, l)
    BY <1>2, <2>1
  <2>3. Plan[r][l][b] = StepsOfBlock(level, B) /\ IsSequence(B.datasets) /\ IsSequence(B.tasks)
    BY <2>2, LevelPlan
  <2> HIDE DEF B, level
  <2>4. /\ d \in Nat /\ t \in Nat /\ Len(StepsOfBlock(level, B)) = d + 1 + t
        /\ DOMAIN StepsOfBlock(level, B) = 1..(d + 1 + t)
    BY <2>3, StepsOfBlockAre, Zenon
  <2> HIDE DEF d, t
  <2>5. StepsIn(r, l, b) = d + 1 + t
    BY <2>3, <2>4 DEF StepsIn
  <2>6. DOMAIN Plan[r][l][b] = 1..(d + 1 + t)
    BY <2>3, <2>4
  <2>. QED BY <2>4, <2>5, <2>6
<1>. QED BY <1>1, <1>2

IsAt(r, at) ==
  /\ at = At(at.level, at.block, at.step)
  /\ at.level \in DOMAIN Releases[r]
  /\ at.block \in 0..BlocksIn(r, at.level)
  /\ at.step \in 1..StepsIn(r, at.level, at.block)

LEMMA PositionsAre ==
  ASSUME NEW r \in DOMAIN Releases, NEW at
  PROVE  at \in Positions(r) <=> IsAt(r, at)
<1>1. ASSUME at \in Positions(r) PROVE IsAt(r, at)
  <2>1. PICK l \in DOMAIN Plan[r] :
          at \in UNION {{At(l, b, s) : s \in DOMAIN Plan[r][l][b]} : b \in DOMAIN Plan[r][l]}
    BY <1>1, Zenon DEF Positions
  <2>2. PICK b \in DOMAIN Plan[r][l] : at \in {At(l, b, s) : s \in DOMAIN Plan[r][l][b]}
    BY <2>1, Zenon
  <2>3. PICK s \in DOMAIN Plan[r][l][b] : at = At(l, b, s)
    BY <2>2, Zenon
  <2>4. at.level = l /\ at.block = b /\ at.step = s
    BY <2>3 DEF At
  <2>5. l \in DOMAIN Releases[r]
    <3>1. DOMAIN Plan[r] = DOMAIN Releases[r]
      BY DEF Plan
    <3>. QED BY <2>1, <3>1, Zenon
  <2>6. b \in 0..BlocksIn(r, l)
    BY <2>5, LevelPlan
  <2>7. s \in 1..StepsIn(r, l, b)
    BY <2>5, <2>6, BlockPlan
  <2>. QED BY <2>3, <2>4, <2>5, <2>6, <2>7 DEF IsAt
<1>2. ASSUME IsAt(r, at) PROVE at \in Positions(r)
  <2> DEFINE l == at.level
             b == at.block
             s == at.step
  <2>1. at = At(l, b, s) /\ l \in DOMAIN Releases[r] /\ b \in 0..BlocksIn(r, l)
        /\ s \in 1..StepsIn(r, l, b)
    BY <1>2 DEF IsAt
  <2> HIDE DEF l, b, s
  <2>2. l \in DOMAIN Plan[r] /\ b \in DOMAIN Plan[r][l]
    BY <2>1, LevelPlan
  <2>3. s \in DOMAIN Plan[r][l][b]
    BY <2>1, BlockPlan
  <2>4. at \in {At(l, b, i) : i \in DOMAIN Plan[r][l][b]}
    BY <2>1, <2>3, Zenon
  <2>5. at \in UNION {{At(l, c, i) : i \in DOMAIN Plan[r][l][c]} : c \in DOMAIN Plan[r][l]}
    BY <2>2, <2>4, Zenon
  <2> DEFINE W(k) == UNION {{At(k, c, i) : i \in DOMAIN Plan[r][k][c]} : c \in DOMAIN Plan[r][k]}
  <2>6. Positions(r) = UNION {W(k) : k \in DOMAIN Plan[r]}
    BY DEF Positions
  <2>7. at \in W(l)
    BY <2>5
  <2> HIDE DEF W
  <2>8. W(l) \in {W(k) : k \in DOMAIN Plan[r]}
    BY <2>2, Zenon
  <2>. QED BY <2>6, <2>7, <2>8, Zenon
<1>. QED BY <1>1, <1>2

Precedes(p, at) ==
  \/ p.level < at.level
  \/ p.level = at.level /\ p.block < at.block
  \/ p.level = at.level /\ p.block = at.block /\ p.step < at.step

IsPlace(at) ==
  /\ at = At(at.level, at.block, at.step)
  /\ at.level \in Nat /\ at.block \in Nat /\ at.step \in Nat

LEMMA PositionsArePlaces ==
  ASSUME NEW r \in DOMAIN Releases, NEW at, IsAt(r, at)
  PROVE  /\ IsPlace(at) /\ at.level > 0 /\ at.level <= Len(Releases[r])
         /\ BlocksIn(r, at.level) \in Nat /\ at.block <= BlocksIn(r, at.level)
         /\ StepsIn(r, at.level, at.block) \in Nat /\ at.step > 0
         /\ at.step <= StepsIn(r, at.level, at.block)
<1> DEFINE l == at.level
           b == at.block
           n == BlocksIn(r, l)
           m == StepsIn(r, l, b)
<1>1. l \in 1..Len(Releases[r]) /\ Len(Releases[r]) \in Nat
  BY ReleaseShape DEF IsAt
<1>2. n \in Nat /\ b \in 0..n
  BY LevelPlan DEF IsAt
<1>3. m \in Nat
  BY BlockPlan DEF IsAt
<1>4. at.step \in 1..m /\ at = At(at.level, at.block, at.step)
  BY DEF IsAt
<1> HIDE DEF n, m
<1>. QED BY <1>1, <1>2, <1>3, <1>4 DEF IsPlace, n, m

LEMMA PlaceFields ==
  ASSUME NEW l, NEW b, NEW s
  PROVE  At(l, b, s).level = l /\ At(l, b, s).block = b /\ At(l, b, s).step = s
BY DEF At

LEMMA AfterIs ==
  ASSUME NEW r \in DOMAIN Releases, NEW at, IsAt(r, at)
  PROVE  LET l == at.level
             b == at.block
             s == at.step
         IN /\ s < StepsIn(r, l, b) => After(r, at) = At(l, b, s + 1)
            /\ ~ (s < StepsIn(r, l, b)) /\ b < BlocksIn(r, l) => After(r, at) = At(l, b + 1, 1)
            /\ ~ (s < StepsIn(r, l, b)) /\ ~ (b < BlocksIn(r, l)) => After(r, at) = At(l + 1, 0, 1)
<1>1. [at EXCEPT !.step = @ + 1] = At(at.level, at.block, at.step + 1)
  BY DEF IsAt, At
<1>. QED BY <1>1 DEF After, StepsIn, BlocksIn

\* The next position is a position, unless the last level is done.
LEMMA AfterIsAPosition ==
  ASSUME NEW r \in DOMAIN Releases, NEW at, IsAt(r, at)
  PROVE  /\ IsPlace(After(r, at))
         /\ After(r, at).level > 0
         /\ ~ (After(r, at).level > Len(Releases[r])) => IsAt(r, After(r, at))
<1> DEFINE l == at.level
           b == at.block
           s == at.step
           n == BlocksIn(r, l)
           m == StepsIn(r, l, b)
<1>1. /\ l \in Nat /\ b \in Nat /\ s \in Nat /\ l > 0 /\ l <= Len(Releases[r])
      /\ n \in Nat /\ b <= n /\ m \in Nat /\ s > 0 /\ s <= m
  BY PositionsArePlaces DEF IsPlace
<1>2. l \in DOMAIN Releases[r] /\ Len(Releases[r]) \in Nat
      /\ DOMAIN Releases[r] = 1..Len(Releases[r])
  BY ReleaseShape DEF IsAt
<1>3. /\ s < m => After(r, at) = At(l, b, s + 1)
      /\ ~ (s < m) /\ b < n => After(r, at) = At(l, b + 1, 1)
      /\ ~ (s < m) /\ ~ (b < n) => After(r, at) = At(l + 1, 0, 1)
  BY AfterIs
<1>9. b \in 0..n
  BY <1>1
<1> HIDE DEF l, b, s, n, m
<1>4. CASE s < m
  <2>1. s + 1 \in 1..m /\ s + 1 \in Nat
    BY <1>1, <1>4
  <2>2. After(r, at) = At(l, b, s + 1)
    BY <1>3, <1>4
  <2>. QED BY <1>1, <1>2, <1>9, <2>1, <2>2, PlaceFields DEF IsAt, IsPlace, n, m
<1>5. CASE ~ (s < m) /\ b < n
  <2>1. b + 1 \in 0..n /\ b + 1 \in Nat
    BY <1>1, <1>5
  <2>2. StepsIn(r, l, b + 1) \in Nat /\ StepsIn(r, l, b + 1) > 0
    BY <1>2, <2>1, BlockPlan DEF n
  <2>3. 1 \in 1..StepsIn(r, l, b + 1)
    BY <2>2
  <2>4. After(r, at) = At(l, b + 1, 1)
    BY <1>3, <1>5
  <2>. QED BY <1>1, <1>2, <2>1, <2>3, <2>4, PlaceFields DEF IsAt, IsPlace, n
<1>6. CASE ~ (s < m) /\ ~ (b < n)
  <2>1. l + 1 \in Nat /\ l + 1 > 0
    BY <1>1
  <2>2. After(r, at) = At(l + 1, 0, 1)
    BY <1>3, <1>6
  <2>3. IsPlace(After(r, at)) /\ After(r, at).level = l + 1 /\ After(r, at).block = 0
        /\ After(r, at).step = 1
    BY <2>1, <2>2, PlaceFields DEF IsPlace
  <2>4. ASSUME ~ (l + 1 > Len(Releases[r])) PROVE IsAt(r, After(r, at))
    <3>1. l + 1 \in DOMAIN Releases[r]
      BY <1>1, <1>2, <2>4
    <3>2. BlocksIn(r, l + 1) \in Nat
      BY <3>1, LevelPlan
    <3>3. 0 \in 0..BlocksIn(r, l + 1)
      BY <3>2
    <3>4. StepsIn(r, l + 1, 0) \in Nat /\ StepsIn(r, l + 1, 0) > 0
      BY <3>1, <3>3, BlockPlan
    <3>5. 1 \in 1..StepsIn(r, l + 1, 0)
      BY <3>4
    <3>. QED BY <2>3, <3>1, <3>3, <3>5 DEF IsAt, IsPlace
  <2>. QED BY <2>1, <2>3, <2>4
<1>. QED BY <1>4, <1>5, <1>6

\* Nothing lies between a position and the next one.
LEMMA AfterIsNext ==
  ASSUME NEW r \in DOMAIN Releases, NEW at, IsAt(r, at), NEW p, IsAt(r, p),
         \/ Precedes(p, After(r, at))
         \/ After(r, at).level > Len(Releases[r])
  PROVE  p = at \/ Precedes(p, at)
<1> DEFINE l == at.level
           b == at.block
           s == at.step
           n == BlocksIn(r, l)
           m == StepsIn(r, l, b)
           k == p.level
           c == p.block
           i == p.step
<1>1. /\ l \in Nat /\ b \in Nat /\ s \in Nat /\ l > 0 /\ l <= Len(Releases[r])
      /\ n \in Nat /\ b <= n /\ m \in Nat /\ s > 0 /\ s <= m
      /\ at = At(l, b, s)
  BY PositionsArePlaces DEF IsPlace
<1>2. /\ k \in Nat /\ c \in Nat /\ i \in Nat /\ k <= Len(Releases[r])
      /\ c <= BlocksIn(r, k) /\ i <= StepsIn(r, k, c) /\ i > 0
      /\ p = At(k, c, i)
  BY PositionsArePlaces DEF IsPlace
<1>3. /\ s < m => After(r, at) = At(l, b, s + 1)
      /\ ~ (s < m) /\ b < n => After(r, at) = At(l, b + 1, 1)
      /\ ~ (s < m) /\ ~ (b < n) => After(r, at) = At(l + 1, 0, 1)
  BY AfterIs
<1>4. Len(Releases[r]) \in Nat
  BY ReleaseShape
<1>5. k = l => c <= n
  BY <1>2
<1>6. k = l /\ c = b => i <= m
  BY <1>2
<1>7. Precedes(p, at) <=> (k < l \/ (k = l /\ c < b) \/ (k = l /\ c = b /\ i < s))
  BY DEF Precedes
<1> DEFINE x == After(r, at)
<1>8. \/ k < x.level
      \/ k = x.level /\ c < x.block
      \/ k = x.level /\ c = x.block /\ i < x.step
      \/ x.level > Len(Releases[r])
  BY DEF Precedes
<1> HIDE DEF n, m, l, b, s, k, c, i, x
<1>9. k = l /\ c = b /\ i = s => p = at
  BY <1>1, <1>2
<1>10. CASE s < m
  <2>1. x.level = l /\ x.block = b /\ x.step = s + 1
    BY <1>3, <1>10, PlaceFields DEF x
  <2>. QED BY <1>1, <1>2, <1>4, <1>7, <1>8, <1>9, <2>1
<1>11. CASE ~ (s < m) /\ b < n
  <2>1. x.level = l /\ x.block = b + 1 /\ x.step = 1
    BY <1>3, <1>11, PlaceFields DEF x
  <2>. QED BY <1>1, <1>2, <1>4, <1>6, <1>7, <1>8, <1>9, <1>11, <2>1
<1>12. CASE ~ (s < m) /\ ~ (b < n)
  <2>1. x.level = l + 1 /\ x.block = 0 /\ x.step = 1
    BY <1>3, <1>12, PlaceFields DEF x
  <2>. QED BY <1>1, <1>2, <1>4, <1>5, <1>6, <1>7, <1>8, <1>9, <1>12, <2>1
<1>. QED BY <1>10, <1>11, <1>12

\* What a step of a block is, and what comes before a task.
LEMMA BlockSteps ==
  ASSUME NEW r \in DOMAIN Releases, NEW at, IsAt(r, at), at.block # 0
  PROVE  LET l == at.level
             level == Releases[r][l].level
             block == Releases[r][l].blocks[at.block]
             step == StepAt(r, at)
         IN /\ step.kind \in {"dataset", "block", "task"}
            /\ step.level = level /\ step.block = block
            /\ step.kind = "task" =>
                 \A i \in DOMAIN block.datasets :
                   \E p : /\ IsAt(r, p) /\ Precedes(p, at)
                         /\ StepAt(r, p) = AStep("dataset", level, block, block.datasets[i])
<1> DEFINE l == at.level
           b == at.block
           s == at.step
           level == Releases[r][l].level
           block == Releases[r][l].blocks[b]
           d == Len(block.datasets)
           t == Len(block.tasks)
           steps == StepsOfBlock(level, block)
<1>1. /\ l \in DOMAIN Releases[r] /\ b \in 0..BlocksIn(r, l) /\ b \in Nat /\ s \in Nat /\ l \in Nat
      /\ s \in 1..StepsIn(r, l, b) /\ BlocksIn(r, l) \in Nat
  BY PositionsArePlaces DEF IsAt, IsPlace
<1>2. b \in 1..BlocksIn(r, l)
  BY <1>1
<1>3. Plan[r][l][b] = steps /\ IsSequence(block.datasets) /\ IsSequence(block.tasks)
  BY <1>1, <1>2, LevelPlan
<1>4. DOMAIN block.datasets = 1..d /\ d \in Nat
  BY <1>3 DEF IsSequence
<1>5. StepAt(r, at) = steps[s]
  BY <1>3 DEF StepAt
<1> HIDE DEF l, b, level, block
<1>6. /\ t \in Nat /\ Len(steps) = d + 1 + t
      /\ \A i \in 1..d : steps[i] = AStep("dataset", level, block, block.datasets[i])
      /\ steps[d + 1] = BlockStep(level, block)
      /\ \A i \in 1..t : steps[d + 1 + i] = AStep("task", level, block, block.tasks[i])
  <2>1. IsSequence(block.datasets) /\ IsSequence(block.tasks)
    BY <1>3
  <2>. QED BY <2>1, StepsOfBlockAre, ZenonT(60)
<1>8. /\ \A kind, def : /\ AStep(kind, level, block, def).kind = kind
                         /\ AStep(kind, level, block, def).level = level
                         /\ AStep(kind, level, block, def).block = block
      /\ BlockStep(level, block).kind = "block"
      /\ BlockStep(level, block).level = level
      /\ BlockStep(level, block).block = block
  BY DEF AStep, BlockStep
<1> HIDE DEF d, t, steps, s
<1>7. /\ StepsIn(r, l, b) = d + 1 + t
      /\ s \in 1..(d + 1 + t) /\ d \in Nat /\ t \in Nat /\ s \in Nat
  <2>1. StepsIn(r, l, b) = d + 1 + t
    BY <1>3, <1>6, Zenon DEF StepsIn
  <2>. QED BY <1>1, <1>4, <1>6, <2>1
<1>9. CASE s \in 1..d
  <2>1. steps[s] = AStep("dataset", level, block, block.datasets[s])
    BY <1>6, <1>9
  <2>2. steps[s].kind = "dataset" /\ steps[s].level = level /\ steps[s].block = block
    BY <2>1, <1>8
  <2>. QED BY <1>5, <2>1, <2>2 DEF l, b, level, block
<1>10. CASE s = d + 1
  <2>1. steps[s] = BlockStep(level, block)
    BY <1>6, <1>10
  <2>2. steps[s].kind = "block" /\ steps[s].level = level /\ steps[s].block = block
    BY <2>1, <1>8
  <2>. QED BY <1>5, <2>1, <2>2 DEF l, b, level, block
<1>11. CASE s > d + 1
  <2> DEFINE j == s - (d + 1)
  <2>1. j \in 1..t /\ d + 1 + j = s
    BY <1>7, <1>11
  <2> HIDE DEF j
  <2>2. steps[s] = AStep("task", level, block, block.tasks[j])
    BY <1>6, <2>1
  <2>3. ASSUME NEW i \in DOMAIN block.datasets
        PROVE  \E p : /\ IsAt(r, p) /\ Precedes(p, at)
                      /\ StepAt(r, p) = AStep("dataset", level, block, block.datasets[i])
    <3> DEFINE p == At(l, b, i)
    <3>1. i \in 1..d /\ i \in Nat /\ i < s /\ i \in 1..StepsIn(r, l, b)
      BY <1>4, <1>7, <1>11
    <3>2. p.level = l /\ p.block = b /\ p.step = i
      BY PlaceFields
    <3> HIDE DEF p
    <3>3. IsAt(r, p)
      BY <1>1, <3>1, <3>2 DEF p, IsAt
    <3>4. Precedes(p, at)
      BY <3>1, <3>2 DEF Precedes, l, b, s
    <3>5. StepAt(r, p) = AStep("dataset", level, block, block.datasets[i])
      BY <1>3, <1>6, <3>1, <3>2 DEF StepAt
    <3>. QED BY <3>3, <3>4, <3>5
  <2>4. steps[s].kind = "task" /\ steps[s].level = level /\ steps[s].block = block
    BY <2>2, <1>8
  <2>. QED BY <1>5, <2>3, <2>4 DEF l, b, level, block
<1>12. s \in 1..d \/ s = d + 1 \/ s > d + 1
  BY <1>1, <1>4
<1>. QED BY <1>9, <1>10, <1>11, <1>12

LEMMA StepFields ==
  ASSUME NEW r \in DOMAIN Releases, NEW at, IsAt(r, at)
  PROVE  /\ StepAt(r, at) \in Steps[r]
         /\ StepAt(r, at).level \in LevelsOf(r)
         /\ StepAt(r, at).kind \in {"level", "dataset", "block", "task"}
         /\ (at.block = 0) <=> (StepAt(r, at).kind = "level")
<1>1. StepAt(r, at) \in Steps[r]
  <2>1. at \in Positions(r)
    BY PositionsAre
  <2>2. Steps[r] = {StepAt(r, p) : p \in Positions(r)}
    BY DEF Steps
  <2>. QED BY <2>1, <2>2, Zenon
<1>2. at.level \in DOMAIN Releases[r] /\ Releases[r][at.level].level \in LevelsOf(r)
  BY DEF IsAt, LevelsOf
<1>3. CASE at.block = 0
  <2> DEFINE step == [kind |-> "level", level |-> Releases[r][at.level].level]
  <2>1. Plan[r][at.level][at.block] = <<step>>
    BY <1>2, <1>3, LevelPlan
  <2>2. Len(<<step>>) = 1
    OBVIOUS
  <2>3. StepsIn(r, at.level, at.block) = 1
    BY <2>1, <2>2, Zenon DEF StepsIn
  <2>5. at.step = 1
    BY <2>3 DEF IsAt
  <2>4. StepAt(r, at) = step
    BY <2>1, <2>5 DEF StepAt
  <2>. QED BY <1>1, <1>2, <1>3, <2>4
<1>4. CASE at.block # 0
  <2> DEFINE level == Releases[r][at.level].level
             block == Releases[r][at.level].blocks[at.block]
  <2>1. StepAt(r, at).kind \in {"dataset", "block", "task"} /\ StepAt(r, at).level = level
    BY <1>4, BlockSteps
  <2>. QED BY <1>1, <1>2, <1>4, <2>1
<1>. QED BY <1>3, <1>4

LEMMA DatasetsComeFirst ==
  ASSUME NEW r \in DOMAIN Releases, NEW at, IsAt(r, at), StepAt(r, at).kind = "task",
         NEW name \in NamesOf(StepAt(r, at).block)
  PROVE  \E p : /\ IsAt(r, p) /\ Precedes(p, at)
               /\ StepAt(r, p).kind = "dataset" /\ StepAt(r, p).def.name = name
<1> DEFINE level == Releases[r][at.level].level
           block == Releases[r][at.level].blocks[at.block]
<1>1. at.block # 0
  BY StepFields
<1>3. StepAt(r, at).block = block
  BY <1>1, BlockSteps
<1>4. PICK i \in DOMAIN block.datasets : block.datasets[i].name = name
  BY <1>3 DEF NamesOf
<1>5. PICK p : /\ IsAt(r, p) /\ Precedes(p, at)
               /\ StepAt(r, p) = AStep("dataset", level, block, block.datasets[i])
  BY <1>1, BlockSteps
<1>6. StepAt(r, p).kind = "dataset" /\ StepAt(r, p).def = block.datasets[i]
  BY <1>5 DEF AStep
<1>. QED BY <1>4, <1>5, <1>6

-----------------------------------------------------------------------------
(***************************************************************************)
(* The tables.                                                             *)
(***************************************************************************)
IsTable(table) == table = [k \in DOMAIN table |-> table[k]]

AreTables(tables) ==
  /\ tables = [datasets |-> tables.datasets, blocks |-> tables.blocks, tasks |-> tables.tasks]
  /\ IsTable(tables.datasets)
  /\ IsTable(tables.tasks)
  /\ \A k \in DOMAIN tables.tasks :
       tables.tasks[k] = TaskRow(tables.tasks[k].def, tables.tasks[k].expected)

\* InPlace, of any tables.
Holds(tables, step) ==
  /\ step.kind = "dataset" =>
       /\ step.def.name \in DOMAIN tables.datasets
       /\ tables.datasets[step.def.name] = DatasetRow(step.def)
  /\ step.kind = "block" => <<step.level, step.block.order>> \in tables.blocks
  /\ step.kind = "task" =>
       /\ TaskKey(step) \in DOMAIN tables.tasks
       /\ tables.tasks[TaskKey(step)].def = step.def

LEMMA HoldsIsInPlace ==
  /\ \A step : InPlace(step) <=> Holds(db, step)
  /\ \A step : (InPlace(step) <=> Holds(db, step))'
<1>1. \A step : InPlace(step) <=> Holds(db, step)
  BY Zenon DEF InPlace, Holds
<1>2. \A step : (InPlace(step) <=> Holds(db, step))'
  BY Zenon DEF InPlace, Holds
<1>. QED BY <1>1, <1>2

LEMMA UpsertIs ==
  ASSUME NEW table, NEW key, NEW row
  PROVE  /\ DOMAIN Upsert(table, key, row) = DOMAIN table \cup {key}
         /\ Upsert(table, key, row)[key] = row
         /\ \A k \in DOMAIN table : k # key => Upsert(table, key, row)[k] = table[k]
         /\ IsTable(Upsert(table, key, row))
BY DEF Upsert, IsTable

\* The upsert of a row that is there is the identity.
LEMMA UpsertOfARowThatIsThere ==
  ASSUME NEW table, IsTable(table), NEW key \in DOMAIN table
  PROVE  Upsert(table, key, table[key]) = table
<1>1. DOMAIN table \cup {key} = DOMAIN table
  OBVIOUS
<1>2. Upsert(table, key, table[key]) = [k \in DOMAIN table |-> table[k]]
  BY <1>1 DEF Upsert
<1>. QED BY <1>2 DEF IsTable

\* Rows of one name are the same, and rows of one place.
SameDataset(x, step) ==
  x.kind = "dataset" /\ x.def.name = step.def.name => DatasetRow(x.def) = DatasetRow(step.def)

SameTask(x, step) == x.kind = "task" /\ TaskKey(x) = TaskKey(step) => x.def = step.def

LEMMA DatasetUpserted ==
  ASSUME NEW tables, AreTables(tables), NEW step, step.kind = "dataset",
         NEW new, new = [tables EXCEPT !.datasets =
                           Upsert(@, step.def.name, DatasetRow(step.def))]
  PROVE  /\ AreTables(new)
         /\ new.datasets = Upsert(tables.datasets, step.def.name, DatasetRow(step.def))
         /\ new.tasks = tables.tasks
         /\ Holds(new, step)
         /\ \A x : Holds(tables, x) /\ SameDataset(x, step) => Holds(new, x)
<1> DEFINE key == step.def.name
           U == Upsert(tables.datasets, key, DatasetRow(step.def))
<1>1. new = [datasets |-> U, blocks |-> tables.blocks, tasks |-> tables.tasks]
  BY DEF AreTables
<1>2. /\ DOMAIN U = DOMAIN tables.datasets \cup {key}
      /\ U[key] = DatasetRow(step.def)
      /\ \A k \in DOMAIN tables.datasets : k # key => U[k] = tables.datasets[k]
      /\ IsTable(U)
  BY UpsertIs
<1> HIDE DEF U
<1>3. new.datasets = U /\ new.blocks = tables.blocks /\ new.tasks = tables.tasks
  BY <1>1
<1>4. AreTables(new)
  BY <1>1, <1>2, <1>3 DEF AreTables
<1>5. Holds(new, step)
  BY <1>2, <1>3 DEF Holds
<1>6. ASSUME NEW x, Holds(tables, x), SameDataset(x, step) PROVE Holds(new, x)
  BY <1>2, <1>3, <1>6 DEF Holds, SameDataset
<1>. QED BY <1>3, <1>4, <1>5, <1>6 DEF U

LEMMA BlockUpserted ==
  ASSUME NEW tables, AreTables(tables), NEW step, step.kind = "block",
         NEW new, new = [tables EXCEPT !.blocks = @ \cup {<<step.level, step.block.order>>}]
  PROVE  /\ AreTables(new)
         /\ new.datasets = tables.datasets /\ new.tasks = tables.tasks
         /\ Holds(new, step)
         /\ \A x : Holds(tables, x) => Holds(new, x)
<1> DEFINE row == <<step.level, step.block.order>>
<1>1. new = [datasets |-> tables.datasets, blocks |-> tables.blocks \cup {row}, tasks |-> tables.tasks]
  BY DEF AreTables
<1>2. new.datasets = tables.datasets /\ new.blocks = tables.blocks \cup {row} /\ new.tasks = tables.tasks
  BY <1>1
<1>3. AreTables(new)
  BY <1>1, <1>2 DEF AreTables
<1>4. Holds(new, step)
  BY <1>2 DEF Holds
<1>5. ASSUME NEW x, Holds(tables, x) PROVE Holds(new, x)
  BY <1>2, <1>5 DEF Holds
<1>. QED BY <1>2, <1>3, <1>4, <1>5

LEMMA TaskUpserted ==
  ASSUME NEW tables, AreTables(tables), NEW step, step.kind = "task", NEW answer,
         NEW new, new = [tables EXCEPT !.tasks =
                           Upsert(@, TaskKey(step), TaskRow(step.def, answer))]
  PROVE  /\ AreTables(new)
         /\ new.datasets = tables.datasets
         /\ new.tasks = Upsert(tables.tasks, TaskKey(step), TaskRow(step.def, answer))
         /\ Holds(new, step)
         /\ \A x : Holds(tables, x) /\ SameTask(x, step) => Holds(new, x)
<1> DEFINE key == TaskKey(step)
           row == TaskRow(step.def, answer)
           U == Upsert(tables.tasks, key, row)
<1>1. new = [datasets |-> tables.datasets, blocks |-> tables.blocks, tasks |-> U]
  BY DEF AreTables
<1>2. row.def = step.def /\ row = TaskRow(row.def, row.expected)
  BY DEF TaskRow
<1> HIDE DEF key, row
<1>3. /\ DOMAIN U = DOMAIN tables.tasks \cup {key}
      /\ U[key] = row
      /\ \A k \in DOMAIN tables.tasks : k # key => U[k] = tables.tasks[k]
      /\ IsTable(U)
  BY UpsertIs
<1> HIDE DEF U
<1>4. new.datasets = tables.datasets /\ new.blocks = tables.blocks /\ new.tasks = U
  BY <1>1
<1>5. ASSUME NEW k \in DOMAIN U PROVE U[k] = TaskRow(U[k].def, U[k].expected)
  <2>1. CASE k = key
    BY <1>2, <1>3, <2>1
  <2>2. CASE k # key
    BY <1>3, <2>2 DEF AreTables
  <2>. QED BY <2>1, <2>2
<1>6. AreTables(new)
  BY <1>1, <1>3, <1>4, <1>5 DEF AreTables
<1>7. Holds(new, step)
  BY <1>2, <1>3, <1>4 DEF Holds, key
<1>8. ASSUME NEW x, Holds(tables, x), SameTask(x, step) PROVE Holds(new, x)
  BY <1>2, <1>3, <1>4, <1>8 DEF Holds, SameTask, key
<1>. QED BY <1>4, <1>6, <1>7, <1>8 DEF U, key, row

-----------------------------------------------------------------------------
(***************************************************************************)
(* The invariant.                                                          *)
(***************************************************************************)
\* The seed keeps to the plan of a release that was in the checkout.
SeedKeepsToPlan ==
  /\ release \in DOMAIN Releases
  /\ seed.rel \in DOMAIN Releases /\ seed.rel <= release
  /\ seed = [rel |-> seed.rel, at |-> seed.at, answers |-> seed.answers, exit |-> seed.exit]
  /\ Seeding => seed.at \in Positions(seed.rel) /\ seed.exit = "none"

\* What the running seed has come past is in the database.
WrittenIsInPlace ==
  Seeding =>
    \A p \in Positions(seed.rel) : Precedes(p, seed.at) => InPlace(StepAt(seed.rel, p))

\* A dataset of this name is there, of release r or a later one.
Provided(r, name) ==
  /\ name \in DOMAIN db.datasets
  /\ \E q \in DOMAIN Releases :
       /\ q >= r /\ q <= seed.rel
       /\ \E d \in Steps[q] :
            /\ d.kind = "dataset" /\ d.def.name = name
            /\ db.datasets[name] = DatasetRow(d.def)

\* Every task is one of a release that was seeded, and its dataset is of that
\* release or a later one.
TasksAreProvided ==
  \A key \in DOMAIN db.tasks :
    \E r \in DOMAIN Releases :
      /\ r <= seed.rel
      /\ \E t \in TaskSteps(r) : db.tasks[key].def = t.def
      /\ Provided(r, db.tasks[key].def.dataset)

SeedingInv ==
  /\ SeedKeepsToPlan
  /\ AreTables(db)
  /\ WrittenIsInPlace
  /\ TasksAreProvided
  /\ SuccessMeansLoaded

-----------------------------------------------------------------------------
LEMMA NowhereIsNoPosition ==
  ASSUME NEW r \in DOMAIN Releases
  PROVE  Nowhere \notin Positions(r)
<1>1. ASSUME IsAt(r, Nowhere) PROVE FALSE
  <2>1. Nowhere.level > 0
    BY <1>1, PositionsArePlaces
  <2>2. Nowhere.level = 0
    BY PlaceFields DEF Nowhere
  <2>. QED BY <2>1, <2>2
<1>. QED BY <1>1, PositionsAre

LEMMA FirstPosition ==
  ASSUME NEW r \in DOMAIN Releases
  PROVE  /\ At(1, 0, 1) \in Positions(r)
         /\ \A p \in Positions(r) : ~ Precedes(p, At(1, 0, 1))
<1> DEFINE f == At(1, 0, 1)
<1>1. f.level = 1 /\ f.block = 0 /\ f.step = 1
  BY PlaceFields
<1>2. 1 \in DOMAIN Releases[r]
  BY ReleaseShape
<1>3. BlocksIn(r, 1) \in Nat
  BY <1>2, LevelPlan
<1>4. 0 \in 0..BlocksIn(r, 1)
  BY <1>3
<1>5. StepsIn(r, 1, 0) \in Nat /\ StepsIn(r, 1, 0) > 0
  BY <1>2, <1>4, BlockPlan
<1>6. 1 \in 1..StepsIn(r, 1, 0)
  BY <1>5
<1>7. f = At(f.level, f.block, f.step)
  BY <1>1, Zenon
<1> HIDE DEF f
<1>8. IsAt(r, f)
  BY <1>1, <1>2, <1>4, <1>6, <1>7 DEF IsAt
<1>9. ASSUME NEW p \in Positions(r) PROVE ~ Precedes(p, f)
  <2>1. IsPlace(p) /\ p.level > 0 /\ p.step > 0
    BY PositionsAre, PositionsArePlaces
  <2>. QED BY <1>1, <2>1 DEF Precedes, IsPlace
<1>. QED BY <1>8, <1>9, PositionsAre DEF f

\* What a step of the seed makes of its state.
LEMMA DoneIs ==
  ASSUME SeedKeepsToPlan, Seeding, NEW r, r = seed.rel, NEW at, at = seed.at,
         NEW next, next = After(r, at)
  PROVE  /\ r \in DOMAIN Releases /\ at \in Positions(r)
         /\ next.level > Len(Releases[r]) =>
              /\ Done = [rel |-> r, at |-> Nowhere, answers |-> seed.answers, exit |-> "ok"]
              /\ \A p \in Positions(r) : p = at \/ Precedes(p, at)
         /\ ~ (next.level > Len(Releases[r])) =>
              /\ Done = [rel |-> r, at |-> next, answers |-> seed.answers, exit |-> "none"]
              /\ next \in Positions(r)
              /\ \A p \in Positions(r) : Precedes(p, next) => p = at \/ Precedes(p, at)
<1>1. r \in DOMAIN Releases /\ at \in Positions(r)
  BY DEF SeedKeepsToPlan
<1>2. IsAt(r, at)
  BY <1>1, PositionsAre
<1>3. next.level > Len(Releases[r]) =>
        Done = [rel |-> r, at |-> Nowhere, answers |-> seed.answers, exit |-> "ok"]
  BY DEF Done, SeedKeepsToPlan
<1>4. ~ (next.level > Len(Releases[r])) =>
        Done = [rel |-> r, at |-> next, answers |-> seed.answers, exit |-> "none"]
  BY DEF Done, SeedKeepsToPlan
<1>5. ~ (next.level > Len(Releases[r])) => next \in Positions(r)
  BY <1>1, <1>2, AfterIsAPosition, PositionsAre
<1>6. ASSUME NEW p \in Positions(r), Precedes(p, next) \/ next.level > Len(Releases[r])
      PROVE  p = at \/ Precedes(p, at)
  <2>1. IsAt(r, p)
    BY <1>1, PositionsAre
  <2>. QED BY <1>1, <1>2, <1>6, <2>1, AfterIsNext
<1>. QED BY <1>1, <1>3, <1>4, <1>5, <1>6

\* A step of the seed that is in place when the seed moves on, and undoes none of
\* those before.
LEMMA MovingOn ==
  ASSUME SeedKeepsToPlan, WrittenIsInPlace, Seeding, UNCHANGED release,
         \E answers : seed' = [Done EXCEPT !.answers = answers],
         NEW r, r = seed.rel, NEW at, at = seed.at,
         Holds(db', StepAt(r, at)),
         \A p \in Positions(r) : Holds(db, StepAt(r, p)) => Holds(db', StepAt(r, p))
  PROVE  SeedKeepsToPlan' /\ WrittenIsInPlace' /\ SuccessMeansLoaded' /\ seed'.rel = r
<1> DEFINE next == After(r, at)
<1>1. PICK answers : seed' = [Done EXCEPT !.answers = answers]
  OBVIOUS
<1>2. /\ r \in DOMAIN Releases /\ at \in Positions(r)
      /\ next.level > Len(Releases[r]) =>
           /\ Done = [rel |-> r, at |-> Nowhere, answers |-> seed.answers, exit |-> "ok"]
           /\ \A p \in Positions(r) : p = at \/ Precedes(p, at)
      /\ ~ (next.level > Len(Releases[r])) =>
           /\ Done = [rel |-> r, at |-> next, answers |-> seed.answers, exit |-> "none"]
           /\ next \in Positions(r)
           /\ \A p \in Positions(r) : Precedes(p, next) => p = at \/ Precedes(p, at)
  BY DoneIs
<1> HIDE DEF next
<1>3. release' \in DOMAIN Releases /\ r <= release'
  BY DEF SeedKeepsToPlan
<1>4. ASSUME NEW p \in Positions(r), p = at \/ Precedes(p, at)
      PROVE  Holds(db', StepAt(r, p))
  <2>1. CASE p = at
    BY <2>1
  <2>2. CASE Precedes(p, at)
    <3>1. InPlace(StepAt(r, p))
      BY <2>2 DEF WrittenIsInPlace
    <3>. QED BY <3>1, HoldsIsInPlace
  <2>. QED BY <1>4, <2>1, <2>2
<1>5. CASE next.level > Len(Releases[r])
  <2>1. seed' = [rel |-> r, at |-> Nowhere, answers |-> answers, exit |-> "ok"]
    BY <1>1, <1>2, <1>5
  <2>2. /\ seed'.rel = r /\ ~ Seeding' /\ seed'.exit = "ok"
        /\ seed' = [rel |-> seed'.rel, at |-> seed'.at, answers |-> seed'.answers, exit |-> seed'.exit]
    BY <2>1 DEF Seeding
  <2>3. ASSUME NEW step \in Steps[r] PROVE InPlace(step)'
    <3>1. PICK p \in Positions(r) : step = StepAt(r, p)
      BY <1>2 DEF Steps
    <3>2. Holds(db', step)
      BY <1>2, <1>4, <1>5, <3>1
    <3>. QED BY <3>2, HoldsIsInPlace
  <2>. QED BY <1>2, <1>3, <2>2, <2>3
       DEF SeedKeepsToPlan, WrittenIsInPlace, SuccessMeansLoaded, Loaded
<1>6. CASE ~ (next.level > Len(Releases[r]))
  <2>1. seed' = [rel |-> r, at |-> next, answers |-> answers, exit |-> "none"]
    BY <1>1, <1>2, <1>6
  <2>2. /\ seed'.rel = r /\ seed'.at = next /\ seed'.exit = "none"
        /\ seed' = [rel |-> seed'.rel, at |-> seed'.at, answers |-> seed'.answers, exit |-> seed'.exit]
    BY <2>1
  <2>3. ASSUME NEW p \in Positions(r), Precedes(p, next) PROVE InPlace(StepAt(r, p))'
    <3>1. Holds(db', StepAt(r, p))
      BY <1>2, <1>4, <1>6, <2>3
    <3>. QED BY <3>1, HoldsIsInPlace
  <2>4. SeedKeepsToPlan'
    BY <1>2, <1>3, <1>6, <2>2 DEF SeedKeepsToPlan
  <2>5. WrittenIsInPlace'
    BY <2>2, <2>3 DEF WrittenIsInPlace
  <2>. QED BY <2>2, <2>4, <2>5 DEF SuccessMeansLoaded
<1>. QED BY <1>5, <1>6

LEMMA DatasetsStayProvided ==
  ASSUME SeedKeepsToPlan, SeedKeepsToPlan', seed.rel <= seed'.rel,
         \A name \in DOMAIN db.datasets :
           /\ name \in DOMAIN db'.datasets
           /\ \/ db'.datasets[name] = db.datasets[name]
              \/ \E d \in Steps[seed'.rel] :
                   /\ d.kind = "dataset" /\ d.def.name = name
                   /\ db'.datasets[name] = DatasetRow(d.def),
         NEW r \in DOMAIN Releases, r <= seed.rel, NEW name, Provided(r, name)
  PROVE  Provided(r, name)'
<1>1. r \in Nat /\ seed.rel \in Nat /\ seed'.rel \in Nat /\ seed'.rel \in DOMAIN Releases
  BY ReleaseShape DEF SeedKeepsToPlan
<1>2. name \in DOMAIN db.datasets /\ name \in DOMAIN db'.datasets
  BY DEF Provided
<1>3. PICK q \in DOMAIN Releases :
        /\ q >= r /\ q <= seed.rel
        /\ \E d \in Steps[q] :
             /\ d.kind = "dataset" /\ d.def.name = name
             /\ db.datasets[name] = DatasetRow(d.def)
  BY Zenon DEF Provided
<1>4. CASE db'.datasets[name] = db.datasets[name]
  <2>1. q \in Nat
    BY ReleaseShape
  <2>2. q >= r /\ q <= seed'.rel
    BY <1>1, <1>3, <2>1
  <2>3. \E d \in Steps[q] :
          /\ d.kind = "dataset" /\ d.def.name = name
          /\ db'.datasets[name] = DatasetRow(d.def)
    BY <1>3, <1>4, Zenon
  <2>. QED BY <1>2, <2>2, <2>3, Zenon DEF Provided
<1>5. CASE \E d \in Steps[seed'.rel] :
             /\ d.kind = "dataset" /\ d.def.name = name
             /\ db'.datasets[name] = DatasetRow(d.def)
  <2>1. seed'.rel >= r /\ seed'.rel <= seed'.rel
    BY <1>1
  <2>. QED BY <1>1, <1>2, <1>5, <2>1, Zenon DEF Provided
<1>. QED BY <1>2, <1>4, <1>5

LEMMA TasksStayProvided ==
  ASSUME SeedKeepsToPlan, SeedKeepsToPlan', seed.rel <= seed'.rel, TasksAreProvided,
         \A name \in DOMAIN db.datasets :
           /\ name \in DOMAIN db'.datasets
           /\ \/ db'.datasets[name] = db.datasets[name]
              \/ \E d \in Steps[seed'.rel] :
                   /\ d.kind = "dataset" /\ d.def.name = name
                   /\ db'.datasets[name] = DatasetRow(d.def),
         NEW key \in DOMAIN db'.tasks, key \in DOMAIN db.tasks,
         db'.tasks[key] = db.tasks[key]
  PROVE  \E r \in DOMAIN Releases :
           /\ r <= seed'.rel
           /\ \E t \in TaskSteps(r) : db'.tasks[key].def = t.def
           /\ Provided(r, db.tasks[key].def.dataset)'
<1>1. PICK name : name = db.tasks[key].def.dataset
  OBVIOUS
<1>2. PICK r \in DOMAIN Releases :
        /\ r <= seed.rel
        /\ \E t \in TaskSteps(r) : db.tasks[key].def = t.def
        /\ Provided(r, name)
  BY <1>1, Zenon DEF TasksAreProvided
<1>3. Provided(r, name)'
  BY <1>2, DatasetsStayProvided
<1>4. r \in Nat /\ seed.rel \in Nat /\ seed'.rel \in Nat
  BY ReleaseShape DEF SeedKeepsToPlan
<1>5. r <= seed'.rel
  BY <1>2, <1>4
<1>. QED BY <1>1, <1>2, <1>3, <1>5

LEMMA NothingWritten ==
  ASSUME SeedKeepsToPlan, SeedKeepsToPlan', seed.rel <= seed'.rel, TasksAreProvided, UNCHANGED db
  PROVE  TasksAreProvided'
<1>1. ASSUME NEW key \in DOMAIN db'.tasks
      PROVE  \E r \in DOMAIN Releases :
               /\ r <= seed'.rel
               /\ \E t \in TaskSteps(r) : db'.tasks[key].def = t.def
               /\ Provided(r, db.tasks[key].def.dataset)'
  BY TasksStayProvided
<1>. QED BY <1>1, Zenon DEF TasksAreProvided

LEMMA InitHolds == Init => SeedingInv
<1> SUFFICES ASSUME Init PROVE SeedingInv
  OBVIOUS
<1>1. 1 \in DOMAIN Releases
  BY ContentAssumption DEF IsSequence
<1>2. /\ release = 1 /\ seed = [rel |-> 1, at |-> Nowhere, answers |-> NoAnswers, exit |-> "none"]
      /\ db = [datasets |-> << >>, blocks |-> {}, tasks |-> << >>]
  BY Zenon DEF Init
<1>3. ~ Seeding
  BY <1>2 DEF Seeding
<1>4. SeedKeepsToPlan
  BY <1>1, <1>2, <1>3 DEF SeedKeepsToPlan
<1>5. DOMAIN db.tasks = {} /\ AreTables(db)
  BY <1>2 DEF AreTables, IsTable
<1>. QED BY <1>2, <1>3, <1>4, <1>5
     DEF SeedingInv, WrittenIsInPlace, TasksAreProvided, SuccessMeansLoaded

LEMMA EditKeepsInv ==
  ASSUME SeedingInv, Edit PROVE SeedingInv'
<1>1. /\ release' = release + 1 /\ release < Len(Releases)
      /\ seed' = seed /\ db' = db
  BY Zenon DEF Edit
<1>2. release \in DOMAIN Releases /\ seed.rel \in DOMAIN Releases /\ seed.rel <= release
  BY DEF SeedingInv, SeedKeepsToPlan
<1>3. DOMAIN Releases = 1..Len(Releases) /\ Len(Releases) \in Nat /\ release \in Nat /\ seed.rel \in Nat
  BY <1>2, ReleaseShape
<1>4. release' \in DOMAIN Releases /\ seed.rel <= release'
  BY <1>1, <1>2, <1>3
<1>5. SeedKeepsToPlan'
  BY <1>1, <1>4 DEF SeedingInv, SeedKeepsToPlan, Seeding
<1>6. seed.rel <= seed'.rel
  BY <1>1, <1>3
<1>7. TasksAreProvided'
  BY <1>1, <1>5, <1>6, NothingWritten DEF SeedingInv
<1>8. WrittenIsInPlace' /\ SuccessMeansLoaded' /\ AreTables(db')
  BY <1>1 DEF SeedingInv, WrittenIsInPlace, SuccessMeansLoaded, Seeding, InPlace, Loaded
<1>. QED BY <1>5, <1>7, <1>8 DEF SeedingInv

\* validate.ts, and steps that change nothing.
LEMMA ElsewhereKeepsInv ==
  ASSUME SeedingInv, UNCHANGED <<release, seed, db>> PROVE SeedingInv'
<1>1. release' = release /\ seed' = seed /\ db' = db
  OBVIOUS
<1>2. SeedKeepsToPlan'
  BY <1>1 DEF SeedingInv, SeedKeepsToPlan, Seeding
<1>3. seed.rel <= seed'.rel
  <2>1. seed.rel \in Nat
    BY ReleaseShape DEF SeedingInv, SeedKeepsToPlan
  <2>. QED BY <1>1, <2>1
<1>4. TasksAreProvided'
  BY <1>1, <1>2, <1>3, NothingWritten DEF SeedingInv
<1>5. WrittenIsInPlace' /\ SuccessMeansLoaded' /\ AreTables(db')
  BY <1>1 DEF SeedingInv, WrittenIsInPlace, SuccessMeansLoaded, Seeding, InPlace, Loaded
<1>. QED BY <1>2, <1>4, <1>5 DEF SeedingInv

LEMMA StartSeedKeepsInv ==
  ASSUME SeedingInv, StartSeed PROVE SeedingInv'
<1> DEFINE f == At(1, 0, 1)
<1>1. /\ seed' = [rel |-> release, at |-> f, answers |-> NoAnswers, exit |-> "none"]
      /\ release' = release /\ db' = db
  BY Zenon DEF StartSeed
<1>2. release \in DOMAIN Releases /\ seed.rel \in DOMAIN Releases /\ seed.rel <= release
  BY DEF SeedingInv, SeedKeepsToPlan
<1>3. release \in Nat
  BY <1>2, ReleaseShape
<1> HIDE DEF f
<1>4. seed'.rel = release /\ seed'.at = f /\ seed'.answers = NoAnswers /\ seed'.exit = "none"
  BY <1>1
<1>5. f \in Positions(release) /\ \A p \in Positions(release) : ~ Precedes(p, f)
  BY <1>2, FirstPosition DEF f
<1>6. SeedKeepsToPlan'
  BY <1>1, <1>2, <1>3, <1>4, <1>5 DEF SeedKeepsToPlan
<1>7. WrittenIsInPlace'
  BY <1>4, <1>5 DEF WrittenIsInPlace
<1>8. TasksAreProvided'
  BY <1>1, <1>2, <1>4, <1>6, NothingWritten DEF SeedingInv
<1>. QED BY <1>1, <1>4, <1>6, <1>7, <1>8 DEF SeedingInv, SuccessMeansLoaded

\* The seed ends before its plan does.
LEMMA ExitKeepsInv ==
  ASSUME SeedingInv, UNCHANGED <<release, db>>, NEW how \in {"error", "crash"}, seed' = Exit(how)
  PROVE  SeedingInv'
<1>1. seed' = [rel |-> seed.rel, at |-> Nowhere, answers |-> seed.answers, exit |-> how]
  BY DEF Exit, SeedingInv, SeedKeepsToPlan
<1>2. /\ seed'.rel = seed.rel /\ seed'.exit = how /\ ~ Seeding'
      /\ seed' = [rel |-> seed'.rel, at |-> seed'.at, answers |-> seed'.answers, exit |-> seed'.exit]
  BY <1>1 DEF Seeding
<1>3. SeedKeepsToPlan'
  BY <1>2 DEF SeedingInv, SeedKeepsToPlan
<1>4. seed.rel <= seed'.rel
  <2>1. seed.rel \in Nat
    BY ReleaseShape DEF SeedingInv, SeedKeepsToPlan
  <2>. QED BY <1>2, <2>1
<1>5. TasksAreProvided'
  BY <1>3, <1>4, NothingWritten DEF SeedingInv
<1>6. SuccessMeansLoaded' /\ WrittenIsInPlace'
  BY <1>2 DEF SuccessMeansLoaded, WrittenIsInPlace
<1>. QED BY <1>3, <1>5, <1>6 DEF SeedingInv

LEMMA DoneKeepsAnswers ==
  ASSUME SeedKeepsToPlan, Seeding PROVE Done = [Done EXCEPT !.answers = seed.answers]
<1>1. PICK r : r = seed.rel
  OBVIOUS
<1>2. PICK next : next = After(seed.rel, seed.at)
  OBVIOUS
<1>3. \/ Done = [rel |-> r, at |-> Nowhere, answers |-> seed.answers, exit |-> "ok"]
      \/ Done = [rel |-> r, at |-> next, answers |-> seed.answers, exit |-> "none"]
  BY <1>1, <1>2, DoneIs
<1>. QED BY <1>3

LEMMA LoadBakedKeepsInv ==
  ASSUME SeedingInv, LoadBaked PROVE SeedingInv'
<1>1. PICK r : r = seed.rel
  OBVIOUS
<1>2. PICK at : at = seed.at
  OBVIOUS
<1>3. /\ Seeding /\ StepAt(r, at).kind = "level" /\ UNCHANGED <<release, db>>
      /\ \E answers : seed' = [Done EXCEPT !.answers = answers]
  BY <1>1, <1>2 DEF LoadBaked, Step
<1>4. Holds(db', StepAt(r, at))
  BY <1>3 DEF Holds
<1>5. SeedKeepsToPlan' /\ WrittenIsInPlace' /\ SuccessMeansLoaded' /\ seed'.rel = r
  BY <1>1, <1>2, <1>3, <1>4, MovingOn DEF SeedingInv
<1>6. seed.rel <= seed'.rel
  <2>1. seed.rel \in Nat
    BY ReleaseShape DEF SeedingInv, SeedKeepsToPlan
  <2>. QED BY <1>1, <1>5, <2>1
<1>7. TasksAreProvided'
  BY <1>3, <1>5, <1>6, NothingWritten DEF SeedingInv
<1>. QED BY <1>3, <1>5, <1>7 DEF SeedingInv

\* A step that writes a row.
LEMMA WriteKeepsInv ==
  ASSUME SeedingInv, Seeding, UNCHANGED release, seed' = Done, AreTables(db'),
         NEW r, r = seed.rel, NEW at, at = seed.at,
         Holds(db', StepAt(r, at)),
         \A p \in Positions(r) : Holds(db, StepAt(r, p)) => Holds(db', StepAt(r, p)),
         \A name \in DOMAIN db.datasets :
           /\ name \in DOMAIN db'.datasets
           /\ \/ db'.datasets[name] = db.datasets[name]
              \/ \E d \in Steps[r] :
                   /\ d.kind = "dataset" /\ d.def.name = name
                   /\ db'.datasets[name] = DatasetRow(d.def),
         \A key \in DOMAIN db'.tasks :
           \/ key \in DOMAIN db.tasks /\ db'.tasks[key] = db.tasks[key]
           \/ \E t \in TaskSteps(r) :
                /\ db'.tasks[key].def = t.def
                /\ t.def.dataset \in DOMAIN db'.datasets
                /\ \E d \in Steps[r] :
                     /\ d.kind = "dataset" /\ d.def.name = t.def.dataset
                     /\ db'.datasets[t.def.dataset] = DatasetRow(d.def)
  PROVE  SeedingInv'
<1>1. SeedKeepsToPlan /\ WrittenIsInPlace /\ TasksAreProvided
  BY DEF SeedingInv
<1>2. \E answers : seed' = [Done EXCEPT !.answers = answers]
  BY <1>1, DoneKeepsAnswers
<1>3. SeedKeepsToPlan' /\ WrittenIsInPlace' /\ SuccessMeansLoaded' /\ seed'.rel = r
  BY <1>1, <1>2, MovingOn
<1>4. r \in DOMAIN Releases /\ r \in Nat
  BY <1>1, ReleaseShape DEF SeedKeepsToPlan
<1>5. seed.rel <= seed'.rel
  BY <1>3, <1>4
<1>6. ASSUME NEW key \in DOMAIN db'.tasks
      PROVE  \E q \in DOMAIN Releases :
               /\ q <= seed'.rel
               /\ \E t \in TaskSteps(q) : db'.tasks[key].def = t.def
               /\ Provided(q, db.tasks[key].def.dataset)'
  <2>1. CASE key \in DOMAIN db.tasks /\ db'.tasks[key] = db.tasks[key]
    BY <1>1, <1>3, <1>5, <2>1, TasksStayProvided
  <2>2. ASSUME NEW t \in TaskSteps(r),
               db'.tasks[key].def = t.def, t.def.dataset \in DOMAIN db'.datasets,
               \E d \in Steps[r] :
                 /\ d.kind = "dataset" /\ d.def.name = t.def.dataset
                 /\ db'.datasets[t.def.dataset] = DatasetRow(d.def)
        PROVE  \E q \in DOMAIN Releases :
                 /\ q <= seed'.rel
                 /\ \E u \in TaskSteps(q) : db'.tasks[key].def = u.def
                 /\ Provided(q, db.tasks[key].def.dataset)'
    <3>1. r >= r /\ r <= seed'.rel
      BY <1>3, <1>4
    <3>3. PICK name : name = t.def.dataset
      OBVIOUS
    <3>4. Provided(r, name)'
      BY <1>4, <2>2, <3>1, <3>3, Zenon DEF Provided
    <3>2. Provided(r, db.tasks[key].def.dataset)'
      BY <2>2, <3>3, <3>4
    <3>. QED BY <1>4, <2>2, <3>1, <3>2, Zenon
  <2>. QED BY <2>1, <2>2
<1>7. TasksAreProvided'
  BY <1>6, Zenon DEF TasksAreProvided
<1>. QED BY <1>3, <1>7 DEF SeedingInv

LEMMA StepIsOfThePlan ==
  ASSUME SeedKeepsToPlan, Seeding, NEW r, r = seed.rel
  PROVE  /\ r \in DOMAIN Releases
         /\ Step \in Steps[r]
         /\ \A p \in Positions(r) : StepAt(r, p) \in Steps[r]
         /\ KeysAreUnique(r)
<1>1. r \in DOMAIN Releases /\ seed.at \in Positions(r)
  BY DEF SeedKeepsToPlan
<1>2. \A p \in Positions(r) : StepAt(r, p) \in Steps[r]
  BY <1>1, Zenon DEF Steps
<1>3. KeysAreUnique(r)
  BY <1>1, ContentAssumption, Zenon
<1>. QED BY <1>1, <1>2, <1>3 DEF Step

LEMMA UpsertDatasetKeepsInv ==
  ASSUME SeedingInv, UpsertDataset PROVE SeedingInv'
<1>1. PICK r : r = seed.rel
  OBVIOUS
<1>2. PICK at : at = seed.at
  OBVIOUS
<1>3. PICK step : step = StepAt(r, at)
  OBVIOUS
<1>4. step = Step
  BY <1>1, <1>2, <1>3 DEF Step
<1>5. /\ Seeding /\ step.kind = "dataset" /\ UNCHANGED release /\ seed' = Done
      /\ db' = [db EXCEPT !.datasets = Upsert(@, step.def.name, DatasetRow(step.def))]
  BY <1>4 DEF UpsertDataset, Write
<1>6. /\ SeedKeepsToPlan /\ AreTables(db) /\ r \in DOMAIN Releases /\ step \in Steps[r]
      /\ \A p \in Positions(r) : StepAt(r, p) \in Steps[r]
      /\ KeysAreUnique(r)
  BY <1>1, <1>4, <1>5, StepIsOfThePlan DEF SeedingInv
<1> DEFINE name == step.def.name
           row == DatasetRow(step.def)
<1>7. /\ AreTables(db') /\ Holds(db', step) /\ db'.tasks = db.tasks
      /\ db'.datasets = Upsert(db.datasets, name, row)
      /\ \A x : Holds(db, x) /\ SameDataset(x, step) => Holds(db', x)
  BY <1>5, <1>6, DatasetUpserted
<1>8. ASSUME NEW p \in Positions(r), Holds(db, StepAt(r, p)) PROVE Holds(db', StepAt(r, p))
  <2>1. PICK x \in Steps[r] : x = StepAt(r, p)
    BY <1>6
  <2>2. SameDataset(x, step)
    BY <1>5, <1>6, Zenon DEF KeysAreUnique, SameDataset
  <2>3. Holds(db, x)
    BY <1>8, <2>1, Zenon
  <2>4. Holds(db', x)
    BY <1>7, <2>2, <2>3, Zenon
  <2>. QED BY <2>1, <2>4, Zenon
<1>9. /\ DOMAIN db'.datasets = DOMAIN db.datasets \cup {name}
      /\ db'.datasets[name] = row
      /\ \A k \in DOMAIN db.datasets : k # name => db'.datasets[k] = db.datasets[k]
  <2>1. PICK table : table = db.datasets
    OBVIOUS
  <2>2. db'.datasets = Upsert(table, name, row)
    BY <1>7, <2>1
  <2>3. /\ DOMAIN Upsert(table, name, row) = DOMAIN table \cup {name}
        /\ Upsert(table, name, row)[name] = row
        /\ \A k \in DOMAIN table : k # name => Upsert(table, name, row)[k] = table[k]
    <3>. HIDE DEF name, row
    <3>. QED BY DEF Upsert
  <2>. QED BY <2>1, <2>2, <2>3, Zenon
<1>10. \A k \in DOMAIN db.datasets :
         /\ k \in DOMAIN db'.datasets
         /\ \/ db'.datasets[k] = db.datasets[k]
            \/ \E d \in Steps[r] :
                 /\ d.kind = "dataset" /\ d.def.name = k
                 /\ db'.datasets[k] = DatasetRow(d.def)
  BY <1>5, <1>6, <1>9
<1>11. \A key \in DOMAIN db'.tasks : key \in DOMAIN db.tasks /\ db'.tasks[key] = db.tasks[key]
  BY <1>7
<1>. QED BY <1>1, <1>2, <1>3, <1>5, <1>7, <1>8, <1>10, <1>11, WriteKeepsInv

LEMMA UpsertBlockKeepsInv ==
  ASSUME SeedingInv, UpsertBlock PROVE SeedingInv'
<1>1. PICK r : r = seed.rel
  OBVIOUS
<1>2. PICK at : at = seed.at
  OBVIOUS
<1>3. PICK step : step = StepAt(r, at)
  OBVIOUS
<1>4. step = Step
  BY <1>1, <1>2, <1>3 DEF Step
<1>5. /\ Seeding /\ step.kind = "block" /\ UNCHANGED release /\ seed' = Done
      /\ db' = [db EXCEPT !.blocks = @ \cup {<<step.level, step.block.order>>}]
  BY <1>4 DEF UpsertBlock, Write
<1>6. AreTables(db)
  BY DEF SeedingInv
<1>7. /\ AreTables(db') /\ Holds(db', step)
      /\ db'.datasets = db.datasets /\ db'.tasks = db.tasks
      /\ \A x : Holds(db, x) => Holds(db', x)
  BY <1>5, <1>6, BlockUpserted
<1>8. \A key \in DOMAIN db'.tasks : key \in DOMAIN db.tasks /\ db'.tasks[key] = db.tasks[key]
  BY <1>7
<1>9. \A k \in DOMAIN db.datasets : k \in DOMAIN db'.datasets /\ db'.datasets[k] = db.datasets[k]
  BY <1>7
<1>. QED BY <1>1, <1>2, <1>3, <1>5, <1>7, <1>8, <1>9, WriteKeepsInv

LEMMA UpsertTaskKeepsInv ==
  ASSUME SeedingInv, UpsertTask PROVE SeedingInv'
<1>1. PICK r : r = seed.rel
  OBVIOUS
<1>2. PICK at : at = seed.at
  OBVIOUS
<1>3. PICK step : step = StepAt(r, at)
  OBVIOUS
<1>4. step = Step
  BY <1>1, <1>2, <1>3 DEF Step
<1>5. /\ Seeding /\ step.kind = "task"
      /\ \/ /\ step.def.dataset \in NamesOf(step.block)
            /\ UNCHANGED release /\ seed' = Done
            /\ \E answer :
                 db' = [db EXCEPT !.tasks = Upsert(@, TaskKey(step), TaskRow(step.def, answer))]
         \/ seed' = Exit("error") /\ UNCHANGED <<release, db>>
  BY <1>4 DEF UpsertTask, Write
<1>6. /\ SeedKeepsToPlan /\ AreTables(db) /\ r \in DOMAIN Releases /\ step \in Steps[r]
      /\ \A p \in Positions(r) : StepAt(r, p) \in Steps[r]
      /\ KeysAreUnique(r)
  BY <1>1, <1>4, <1>5, StepIsOfThePlan DEF SeedingInv
<1>7. CASE seed' = Exit("error") /\ UNCHANGED <<release, db>>
  BY <1>7, ExitKeepsInv
<1>8. ASSUME step.def.dataset \in NamesOf(step.block), UNCHANGED release, seed' = Done,
             NEW answer,
             db' = [db EXCEPT !.tasks = Upsert(@, TaskKey(step), TaskRow(step.def, answer))]
      PROVE  SeedingInv'
  <2> DEFINE key == TaskKey(step)
             row == TaskRow(step.def, answer)
  <2>1. /\ AreTables(db') /\ Holds(db', step)
        /\ db'.datasets = db.datasets
        /\ db'.tasks = Upsert(db.tasks, key, row)
        /\ \A x : Holds(db, x) /\ SameTask(x, step) => Holds(db', x)
    BY <1>5, <1>6, <1>8, TaskUpserted
  <2>2. ASSUME NEW p \in Positions(r), Holds(db, StepAt(r, p)) PROVE Holds(db', StepAt(r, p))
    <3>1. PICK x \in Steps[r] : x = StepAt(r, p)
      BY <1>6
    <3>2. SameTask(x, step)
      BY <1>5, <1>6, Zenon DEF KeysAreUnique, SameTask
    <3>3. Holds(db, x)
      BY <2>2, <3>1, Zenon
    <3>4. Holds(db', x)
      BY <2>1, <3>2, <3>3, Zenon
    <3>. QED BY <3>1, <3>4, Zenon
  <2>3. /\ DOMAIN db'.tasks = DOMAIN db.tasks \cup {key}
        /\ db'.tasks[key] = row
        /\ \A k \in DOMAIN db.tasks : k # key => db'.tasks[k] = db.tasks[k]
    <3>1. PICK table : table = db.tasks
      OBVIOUS
    <3>2. db'.tasks = Upsert(table, key, row)
      BY <2>1, <3>1
    <3>3. /\ DOMAIN Upsert(table, key, row) = DOMAIN table \cup {key}
          /\ Upsert(table, key, row)[key] = row
          /\ \A k \in DOMAIN table : k # key => Upsert(table, key, row)[k] = table[k]
      <4>. HIDE DEF key, row
      <4>. QED BY DEF Upsert
    <3>. QED BY <3>1, <3>2, <3>3, Zenon
  <2>4. at \in Positions(r) /\ IsAt(r, at)
    BY <1>1, <1>2, <1>5, <1>6, PositionsAre DEF SeedKeepsToPlan
  <2>5. PICK p : /\ IsAt(r, p) /\ Precedes(p, at)
                 /\ StepAt(r, p).kind = "dataset" /\ StepAt(r, p).def.name = step.def.dataset
    BY <1>3, <1>5, <1>6, <1>8, <2>4, DatasetsComeFirst
  <2>6. InPlace(StepAt(r, p))
    BY <1>1, <1>2, <1>5, <1>6, <2>5, PositionsAre DEF SeedingInv, WrittenIsInPlace
  <2>7. PICK d \in Steps[r] : /\ d.kind = "dataset" /\ d.def.name = step.def.dataset
                             /\ step.def.dataset \in DOMAIN db.datasets
                             /\ db.datasets[step.def.dataset] = DatasetRow(d.def)
    BY <1>6, <2>5, <2>6, PositionsAre DEF InPlace
  <2>8. step \in TaskSteps(r) /\ row.def = step.def
    BY <1>5, <1>6 DEF TaskSteps, TaskRow
  <2>9. ASSUME NEW k \in DOMAIN db'.tasks
        PROVE  \/ k \in DOMAIN db.tasks /\ db'.tasks[k] = db.tasks[k]
               \/ \E t \in TaskSteps(r) :
                    /\ db'.tasks[k].def = t.def
                    /\ t.def.dataset \in DOMAIN db'.datasets
                    /\ \E x \in Steps[r] :
                         /\ x.kind = "dataset" /\ x.def.name = t.def.dataset
                         /\ db'.datasets[t.def.dataset] = DatasetRow(x.def)
    <3>1. CASE k = key
      BY <2>1, <2>3, <2>7, <2>8, <3>1
    <3>2. CASE k # key
      BY <2>3, <3>2
    <3>. QED BY <3>1, <3>2
  <2>10. \A k \in DOMAIN db.datasets : k \in DOMAIN db'.datasets /\ db'.datasets[k] = db.datasets[k]
    BY <2>1
  <2>. QED BY <1>1, <1>2, <1>3, <1>5, <1>8, <2>1, <2>2, <2>9, <2>10, WriteKeepsInv
<1>. QED BY <1>5, <1>7, <1>8

\* A crash of the seed at whichever step.
LEMMA CrashKeepsInv ==
  ASSUME SeedingInv, Crash PROVE SeedingInv'
<1>1. CASE CrashSeed
  BY <1>1, ExitKeepsInv DEF Crash, CrashSeed
<1>2. CASE CrashValidate
  BY <1>2, ElsewhereKeepsInv DEF Crash, CrashValidate
<1>. QED BY <1>1, <1>2 DEF Crash

LEMMA NextKeepsInv ==
  ASSUME SeedingInv, [Next]_vars PROVE SeedingInv'
<1>1. CASE Edit
  BY <1>1, EditKeepsInv
<1>2. CASE Validate
  BY <1>2, ElsewhereKeepsInv DEF Validate
<1>3. CASE WriteBaked
  BY <1>3, ElsewhereKeepsInv DEF WriteBaked
<1>4. CASE StartSeed
  BY <1>4, StartSeedKeepsInv
<1>5. CASE LoadBaked
  BY <1>5, LoadBakedKeepsInv
<1>6. CASE UpsertDataset
  BY <1>6, UpsertDatasetKeepsInv
<1>7. CASE UpsertBlock
  BY <1>7, UpsertBlockKeepsInv
<1>8. CASE UpsertTask
  BY <1>8, UpsertTaskKeepsInv
<1>9. CASE Crash
  BY <1>9, CrashKeepsInv
<1>10. CASE UNCHANGED vars
  BY <1>10, ElsewhereKeepsInv DEF vars
<1>. QED BY <1>1, <1>2, <1>3, <1>4, <1>5, <1>6, <1>7, <1>8, <1>9, <1>10 DEF Next, SeedStep

\* The seed keeps to the plan of its release, what it has come past is in place,
\* every task has its dataset, and success means that the content is in.
THEOREM SeedingInvariance == Spec => []SeedingInv
<1>1. Init => SeedingInv
  BY InitHolds
<1>2. SeedingInv /\ [Next]_vars => SeedingInv'
  BY NextKeepsInv
<1>. QED BY <1>1, <1>2, PTL DEF Spec

-----------------------------------------------------------------------------
(***************************************************************************)
(* What the runs check.                                                    *)
(***************************************************************************)
\* A seed that reports success (seed.ts: the end of main) has every dataset,
\* block and task of its content in the database, whatever the seeds before it
\* left there.
THEOREM SeedsLoadTheirContent == Spec => []SuccessMeansLoaded
<1>1. SeedingInv => SuccessMeansLoaded
  BY DEF SeedingInv
<1>. QED BY <1>1, SeedingInvariance, PTL

\* A task has its dataset, which serves it if the content lets it.
LEMMA ProvidedTasksRun ==
  ASSUME SeedingInv, NEW key \in DOMAIN db.tasks
  PROVE  LET task == db.tasks[key].def
         IN /\ task.dataset \in DOMAIN db.datasets
            /\ \/ Serves(db.datasets[task.dataset], task)
               \/ \E q \in 1..seed.rel : task \in TakenAway[q]
<1>1. PICK task : task = db.tasks[key].def
  OBVIOUS
<1>2. PICK r \in DOMAIN Releases :
        (\E t \in TaskSteps(r) : task = t.def) /\ Provided(r, task.dataset)
  BY <1>1 DEF SeedingInv, TasksAreProvided
<1>3. PICK q \in DOMAIN Releases :
        /\ q >= r /\ q <= seed.rel
        /\ \E d \in Steps[q] :
             /\ d.kind = "dataset" /\ d.def.name = task.dataset
             /\ db.datasets[task.dataset] = DatasetRow(d.def)
  BY <1>2 DEF Provided
<1>4. PICK d \in Steps[q] :
        /\ d.kind = "dataset" /\ d.def.name = task.dataset
        /\ db.datasets[task.dataset] = DatasetRow(d.def)
  BY <1>3
<1>5. CASE Serves(d.def, task)
  <2>1. DatasetRow(d.def).setup = d.def.setup /\ DatasetRow(d.def).schema = d.def.schema
    BY DEF DatasetRow
  <2>2. Serves(db.datasets[task.dataset], task)
    BY <1>4, <1>5, <2>1 DEF Serves, Runs
  <2>. QED BY <1>1, <1>2, <2>2 DEF Provided
<1>6. CASE ~ Serves(d.def, task)
  <2>1. r \in 1..q /\ q \in 1..seed.rel
    BY <1>2, <1>3, ContentAssumption DEF IsSequence, SeedingInv, SeedKeepsToPlan
  <2>2. task \in {t.def : t \in UNION {TaskSteps(x) : x \in 1..q}}
    BY <1>2, <2>1, Zenon
  <2>3. task \in TakenAway[q]
    BY <1>3, <1>4, <1>6, <2>2, Zenon DEF TakenAway
  <2>. QED BY <1>1, <1>2, <2>1, <2>3 DEF Provided
<1>. QED BY <1>5, <1>6

\* Between any two upserts, and after any crash, every task in the database has
\* its dataset, with the tables its query reads, shown as they are set up -
\* unless a release seeded since the task was gives that dataset without them,
\* as an edit may that nothing refuses (seed.ts: datasets before tasks, in every
\* block, and no task is ever deleted).
THEOREM TasksAlwaysRun == Spec => []TasksRunThroughout
<1>1. SeedingInv => TasksRunThroughout
  BY ProvidedTasksRun DEF TasksRunThroughout
<1>. QED BY <1>1, SeedingInvariance, PTL

\* The task is in the database, as its release has it, with a dataset that
\* serves it.
Works(step) ==
  /\ TaskKey(step) \in DOMAIN db.tasks
  /\ db.tasks[TaskKey(step)].def = step.def
  /\ step.def.dataset \in DOMAIN db.datasets
  /\ Serves(db.datasets[step.def.dataset], step.def)

\* The task's own release gives it a dataset that serves it.
Served(r, step) ==
  /\ step.def.dataset \in NamesOf(step.block)
  /\ \A d \in Steps[r] :
       d.kind = "dataset" /\ d.def.name = step.def.dataset => Serves(d.def, step.def)

\* A seed that reports success heals what edits had broken: every task of its
\* content that this content serves works then (seed.ts: the end of main).
THEOREM SeededTasksWork ==
  Spec => [](seed.exit = "ok" =>
               \A t \in TaskSteps(seed.rel) : Served(seed.rel, t) => Works(t))
<1>1. SeedingInv => (seed.exit = "ok" =>
                       \A t \in TaskSteps(seed.rel) : Served(seed.rel, t) => Works(t))
  <2> SUFFICES ASSUME SeedingInv, seed.exit = "ok", NEW t \in TaskSteps(seed.rel),
                      Served(seed.rel, t)
               PROVE  Works(t)
    OBVIOUS
  <2>1. PICK r : r = seed.rel
    OBVIOUS
  <2>2. /\ r \in DOMAIN Releases
        /\ \A step \in Steps[r] : InPlace(step)
    BY <2>1 DEF SeedingInv, SeedKeepsToPlan, SuccessMeansLoaded, Loaded
  <2>3. t \in Steps[r] /\ t.kind = "task"
    BY <2>1 DEF TaskSteps
  <2>4. /\ TaskKey(t) \in DOMAIN db.tasks
        /\ db.tasks[TaskKey(t)].def = t.def
    BY <2>2, <2>3 DEF InPlace
  <2>5. PICK at \in Positions(r) : t = StepAt(r, at)
    BY <2>2, <2>3 DEF Steps
  <2>6. IsAt(r, at)
    BY <2>2, <2>5, PositionsAre
  <2>7. t.def.dataset \in NamesOf(StepAt(r, at).block)
    BY <2>5 DEF Served
  <2>8. PICK p : /\ IsAt(r, p)
                 /\ StepAt(r, p).kind = "dataset" /\ StepAt(r, p).def.name = t.def.dataset
    BY <2>2, <2>3, <2>5, <2>6, <2>7, DatasetsComeFirst
  <2>9. PICK d \in Steps[r] : d.kind = "dataset" /\ d.def.name = t.def.dataset
    BY <2>2, <2>8, StepFields
  <2>10. Serves(d.def, t.def)
    BY <2>1, <2>9 DEF Served
  <2>11. t.def.dataset \in DOMAIN db.datasets /\ db.datasets[t.def.dataset] = DatasetRow(d.def)
    BY <2>2, <2>9 DEF InPlace
  <2>12. DatasetRow(d.def).setup = d.def.setup /\ DatasetRow(d.def).schema = d.def.schema
    BY DEF DatasetRow
  <2>13. Serves(db.datasets[t.def.dataset], t.def)
    BY <2>10, <2>11, <2>12 DEF Serves, Runs
  <2>. QED BY <2>4, <2>11, <2>13 DEF Works
<1>. QED BY <1>1, SeedingInvariance, PTL

LEMMA RepeatedDatasetIsKept ==
  ASSUME SeedingInv, LoadsAgain, UpsertDataset PROVE db' = db
<1>1. PICK step : step = Step
  OBVIOUS
<1>2. PICK tables : tables = db
  OBVIOUS
<1>3. /\ Seeding /\ step.kind = "dataset"
      /\ db' = [tables EXCEPT !.datasets = Upsert(@, step.def.name, DatasetRow(step.def))]
  BY <1>1, <1>2 DEF UpsertDataset, Write
<1>4. /\ AreTables(tables) /\ InPlace(step)
  BY <1>1, <1>2, <1>3, StepIsOfThePlan DEF SeedingInv, LoadsAgain, Loaded
<1>5. /\ step.def.name \in DOMAIN tables.datasets
      /\ tables.datasets[step.def.name] = DatasetRow(step.def)
  BY <1>2, <1>3, <1>4 DEF InPlace
<1>6. Upsert(tables.datasets, step.def.name, DatasetRow(step.def)) = tables.datasets
  BY <1>4, <1>5, UpsertOfARowThatIsThere DEF AreTables
<1>. QED BY <1>2, <1>3, <1>4, <1>6 DEF AreTables

LEMMA RepeatedBlockIsKept ==
  ASSUME SeedingInv, LoadsAgain, UpsertBlock PROVE db' = db
<1>1. PICK step : step = Step
  OBVIOUS
<1>2. PICK tables : tables = db
  OBVIOUS
<1>3. /\ Seeding /\ step.kind = "block"
      /\ db' = [tables EXCEPT !.blocks = @ \cup {<<step.level, step.block.order>>}]
  BY <1>1, <1>2 DEF UpsertBlock, Write
<1>4. /\ AreTables(tables) /\ InPlace(step)
  BY <1>1, <1>2, <1>3, StepIsOfThePlan DEF SeedingInv, LoadsAgain, Loaded
<1>5. tables.blocks \cup {<<step.level, step.block.order>>} = tables.blocks
  BY <1>2, <1>3, <1>4 DEF InPlace
<1>. QED BY <1>2, <1>3, <1>4, <1>5 DEF AreTables

LEMMA RepeatedTaskIsKept ==
  ASSUME SeedingInv, LoadsAgain, UpsertTask PROVE db' = db
<1>1. PICK step : step = Step
  OBVIOUS
<1>2. PICK tables : tables = db
  OBVIOUS
<1>3. PICK answer : answer = seed.answers[AnswerKey(step)]
  OBVIOUS
<1> DEFINE key == TaskKey(step)
           row == TaskRow(step.def, answer)
<1>4. /\ Seeding /\ step.kind = "task"
      /\ db' = tables \/ db' = [tables EXCEPT !.tasks = Upsert(@, key, row)]
  BY <1>1, <1>2, <1>3 DEF UpsertTask, Write
<1>5. AreTables(tables) /\ InPlace(step)
  BY <1>1, <1>2, <1>4, StepIsOfThePlan DEF SeedingInv, LoadsAgain, Loaded
<1>6. /\ key \in DOMAIN tables.tasks /\ tables.tasks[key].def = step.def
      /\ tables.tasks[key] = TaskRow(tables.tasks[key].def, tables.tasks[key].expected)
  BY <1>2, <1>4, <1>5 DEF InPlace, AreTables
<1>7. key[1] = step.level /\ <<key[2], key[3]>> = AnswerKey(step)
  BY DEF TaskKey, AnswerKey
<1>8. tables.tasks[key].expected = baked[step.level][AnswerKey(step)]
  <2>1. step \in TaskSteps(seed.rel)
    BY <1>1, <1>4, StepIsOfThePlan DEF SeedingInv, TaskSteps
  <2>2. db.tasks[TaskKey(step)].expected = baked[step.level][AnswerKey(step)]
    BY <2>1 DEF LoadsAgain, AnswersAreBaked
  <2>. QED BY <1>2, <2>2
<1>9. seed.answers = baked[step.level]
  BY <1>1, <1>4 DEF LoadsAgain
<1>10. tables.tasks[key] = row
  BY <1>3, <1>6, <1>7, <1>8, <1>9
<1>11. Upsert(tables.tasks, key, row) = tables.tasks
  BY <1>5, <1>6, <1>10, UpsertOfARowThatIsThere DEF AreTables
<1>. QED BY <1>2, <1>4, <1>5, <1>11 DEF AreTables

\* Running the seed again over a database it has loaded, with the answers it
\* loaded, changes no row ("Idempotent: uses upserts keyed by unique
\* constraints", seed.ts:7).
THEOREM ReseedingIsIdempotent == Spec => ReseedingChangesNothing
<1>1. SeedingInv /\ [Next]_vars => [db' = db \/ ~ LoadsAgain]_vars
  <2>. SUFFICES ASSUME SeedingInv, Next, LoadsAgain PROVE db' = db
    BY DEF vars
  <2>1. CASE Edit \/ Validate \/ WriteBaked \/ StartSeed \/ LoadBaked \/ Crash
    BY <2>1 DEF Edit, Validate, WriteBaked, StartSeed, LoadBaked, Crash
  <2>. QED BY <2>1, RepeatedDatasetIsKept, RepeatedBlockIsKept, RepeatedTaskIsKept
       DEF Next, SeedStep
<1>. QED BY <1>1, SeedingInvariance, PTL DEF Spec, ReseedingChangesNothing

\* A valid task finds its answer among those baked from its release.
LEMMA BakedAnswersAreFound ==
  ASSUME SeedingInv, Seeding, Step.kind = "task", AllValid[seed.rel],
         seed.answers = Bake[seed.rel][Step.level]
  PROVE  AnswerKey(Step) \in DOMAIN seed.answers /\ Step.def.dataset \in NamesOf(Step.block)
<1>1. PICK r : r = seed.rel
  OBVIOUS
<1>2. PICK step : step = Step
  OBVIOUS
<1>3. /\ r \in DOMAIN Releases /\ step \in Steps[r] /\ AllValid[r]
      /\ step.level \in LevelsOf(r)
  <2>1. r \in DOMAIN Releases /\ step \in Steps[r]
    BY <1>1, <1>2, StepIsOfThePlan DEF SeedingInv
  <2>2. IsAt(seed.rel, seed.at)
    BY <1>1, <2>1, PositionsAre DEF SeedingInv, SeedKeepsToPlan
  <2>3. step.level \in LevelsOf(r)
    BY <1>1, <1>2, <2>1, <2>2, StepFields DEF Step
  <2>4. AllValid[r]
    BY <1>1
  <2>. QED BY <2>1, <2>3, <2>4
<1>4. step \in TaskSteps(r) /\ step \in TaskStepsOf(r, step.level)
  BY <1>2, <1>3 DEF TaskSteps, TaskStepsOf
<1>5. Valid(step)
  <2>1. AllValid[r] = \A x \in TaskSteps(r) : Valid(x)
    BY <1>3 DEF AllValid
  <2>. QED BY <1>3, <1>4, <2>1
<1>6. Bake[r][step.level] = Answers(r, step.level)
  BY <1>3 DEF Bake
<1>7. DOMAIN Answers(r, step.level) = {BakedKey(x) : x \in TaskStepsOf(r, step.level)}
  BY DEF Answers
<1>8. BakedKey(step) \in DOMAIN seed.answers
  BY <1>1, <1>2, <1>4, <1>6, <1>7
<1>. QED BY <1>2, <1>5, <1>8 DEF Valid, BakedKey, AnswerKey

\* The seed throws (seed.ts: "Missing baked result for ...") only when the
\* answers it loaded are not those of the content it is loading: content that
\* was validated, and baked since its last edit, goes through.
THEOREM OnlyStaleAnswersFail == Spec => FailsOnlyWhenStale
<1>1. SeedingInv /\ [Next]_vars
        => [seed'.exit = "error" /\ seed.exit # "error" /\ AllValid[seed.rel]
             => seed.answers # Bake[seed.rel][Step.level]]_vars
  <2>. SUFFICES ASSUME SeedingInv, Next, seed'.exit = "error", seed.exit # "error", AllValid[seed.rel],
                       seed.answers = Bake[seed.rel][Step.level]
                PROVE  FALSE
    OBVIOUS
  <2>1. CASE Edit \/ Validate \/ WriteBaked
    BY <2>1 DEF Edit, Validate, WriteBaked
  <2>2. CASE StartSeed
    BY <2>2 DEF StartSeed
  <2>3. ASSUME Seeding, \E answers : seed' = [Done EXCEPT !.answers = answers] PROVE FALSE
    <3>1. PICK r : r = seed.rel
      OBVIOUS
    <3>2. PICK next : next = After(seed.rel, seed.at)
      OBVIOUS
    <3>3. \/ Done = [rel |-> r, at |-> Nowhere, answers |-> seed.answers, exit |-> "ok"]
          \/ Done = [rel |-> r, at |-> next, answers |-> seed.answers, exit |-> "none"]
      BY <2>3, <3>1, <3>2, DoneIs DEF SeedingInv
    <3>. QED BY <2>3, <3>3
  <2>4. CASE LoadBaked
    BY <2>3, <2>4 DEF LoadBaked
  <2>5. ASSUME Seeding, seed' = Done PROVE FALSE
    BY <2>3, <2>5, DoneKeepsAnswers DEF SeedingInv
  <2>6. CASE UpsertDataset \/ UpsertBlock
    BY <2>5, <2>6 DEF UpsertDataset, UpsertBlock, Write
  <2>7. CASE UpsertTask
    <3>1. Seeding /\ Step.kind = "task"
      BY <2>7 DEF UpsertTask
    <3>2. AnswerKey(Step) \in DOMAIN seed.answers /\ Step.def.dataset \in NamesOf(Step.block)
      BY <3>1, BakedAnswersAreFound
    <3>3. seed' = Done
      BY <2>7, <3>2 DEF UpsertTask, Write
    <3>. QED BY <2>5, <3>1, <3>3
  <2>8. CASE Crash
    <3>1. CASE CrashSeed
      <4>1. seed' = [rel |-> seed.rel, at |-> Nowhere, answers |-> seed.answers, exit |-> "crash"]
        BY <3>1 DEF CrashSeed, Exit, SeedingInv, SeedKeepsToPlan
      <4>. QED BY <4>1
    <3>2. CASE CrashValidate
      BY <3>2 DEF CrashValidate
    <3>. QED BY <2>8, <3>1, <3>2 DEF Crash
  <2>. QED BY <2>1, <2>2, <2>4, <2>6, <2>7, <2>8 DEF Next, SeedStep
<1>. QED BY <1>1, SeedingInvariance, PTL DEF Spec, FailsOnlyWhenStale
=============================================================================
