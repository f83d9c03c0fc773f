---------------------------- MODULE AiTutorProofs ----------------------------
(***************************************************************************)
(* Theorems about AiTutor.tla, for any cap, any number of overlapping      *)
(* turns and any behaviour of the provider, and about TutorDrawer.tla, for *)
(* any use of the drawer besides.                                          *)
(***************************************************************************)
EXTENDS TutorDrawer, FiniteSetTheorems, TLAPS

\* Turns past the quota check that may still be charged.
Chargeable == {"findBlock", "increment"} \cup Streaming

ChargeableTurns == {r \in Turns : pc[r] \in Chargeable}

\* The bound is not inductive by itself: a turn at its increment could be any
\* number of turns past the cap.  What is already charged and what may still be
\* charged are bounded together, because every admission saw usage below the cap
\* and there are at most Cardinality(Turns) turns to admit.
OverrunInv ==
  used + Cardinality(ChargeableTurns) <= Cap + Cardinality(Turns) - 1

\* A turn that backs off has an attempt left and has sent nothing; this is what
\* makes ReplyOfOneAttempt inductive.
BackoffInv ==
  /\ \A r \in Turns :
       pc[r] = "backoff" => attempt[r] < MaxRetries /\ tokens[r] = 0
  /\ ReplyOfOneAttempt

IInv == TypeOK /\ OverrunInv /\ BackoffInv

USE TutorAssumption DEF account, ReplyOfOneAttempt

LEMMA ChargeableFinite ==
  /\ IsFiniteSet(ChargeableTurns)
  /\ Cardinality(ChargeableTurns) \in Nat
  /\ Cardinality(ChargeableTurns) <= Cardinality(Turns)
  /\ Cardinality(Turns) \in Nat
<1>1. ChargeableTurns \in SUBSET Turns
  BY DEF ChargeableTurns
<1>. QED BY <1>1, FS_Subset, FS_CardinalityType

LEMMA InitIInv == Init => IInv
<1> SUFFICES ASSUME Init PROVE IInv
  OBVIOUS
<1>1. TypeOK
  BY DEF Init, TypeOK, Calls, Admitted, Streaming
<1>2. ChargeableTurns = {}
  BY DEF Init, ChargeableTurns, Chargeable, Streaming
<1>3. Cardinality(ChargeableTurns) = 0
  BY <1>2, FS_EmptySet
<1>4. BackoffInv
  BY DEF Init, BackoffInv
<1>. QED BY <1>1, <1>3, <1>4, ChargeableFinite
         DEF IInv, OverrunInv, Init, TypeOK

\* A step that charges nothing and leaves no more turns chargeable.
LEMMA NoNewChargeable ==
  ASSUME IInv, TypeOK', BackoffInv', used' = used,
         ChargeableTurns' \subseteq ChargeableTurns
  PROVE  IInv'
<1>1. /\ Cardinality(ChargeableTurns') \in Nat
      /\ Cardinality(ChargeableTurns') <= Cardinality(ChargeableTurns)
  BY ChargeableFinite, FS_Subset, FS_CardinalityType
<1>. QED BY <1>1, ChargeableFinite DEF IInv, OverrunInv, TypeOK

LEMMA EndKeeps ==
  ASSUME IInv, NEW r \in Turns, End(r), used' = used,
         answered' \in Nat, lost' \in Nat
  PROVE  IInv'
<1>1. TypeOK'
  BY DEF IInv, TypeOK, End, Goto, Calls
<1>2. ChargeableTurns' \subseteq ChargeableTurns
  BY DEF IInv, TypeOK, End, Goto, ChargeableTurns, Chargeable, Streaming
<1>3. BackoffInv'
  BY DEF IInv, TypeOK, End, Goto, BackoffInv
<1>. QED BY <1>1, <1>2, <1>3, NoNewChargeable

LEMMA AskKeeps == ASSUME IInv, NEW r \in Turns, Ask(r) PROVE IInv'
<1>1. TypeOK'
  BY DEF IInv, TypeOK, Ask, Goto, Calls
<1>2. ChargeableTurns' \subseteq ChargeableTurns
  BY DEF IInv, TypeOK, Ask, Goto, ChargeableTurns, Chargeable, Streaming
<1>3. BackoffInv'
  BY DEF IInv, TypeOK, Ask, Goto, BackoffInv
<1>. QED BY <1>1, <1>2, <1>3, NoNewChargeable DEF Ask

LEMMA ReadUsedKeeps == ASSUME IInv, NEW r \in Turns, ReadUsed(r) PROVE IInv'
<1>1. CASE ~ Configured \/ used >= Cap
  BY <1>1, EndKeeps DEF ReadUsed, IInv, TypeOK
<1>2. CASE ~ (~ Configured \/ used >= Cap)
  <2>1. TypeOK'
    BY <1>2 DEF IInv, TypeOK, ReadUsed, Goto, Calls, Admitted
  <2>2. used' = used /\ used < Cap /\ used \in Nat
    BY <1>2 DEF IInv, TypeOK, ReadUsed
  <2>3. ChargeableTurns' \in SUBSET Turns
    BY DEF ChargeableTurns
  <2>4. /\ Cardinality(ChargeableTurns') \in Nat
        /\ Cardinality(ChargeableTurns') <= Cardinality(Turns)
    BY <2>3, FS_Subset, FS_CardinalityType
  <2>5. BackoffInv'
    BY <1>2 DEF IInv, TypeOK, ReadUsed, Goto, BackoffInv
  <2>. QED BY <2>1, <2>2, <2>4, <2>5, ChargeableFinite DEF IInv, OverrunInv
<1>. QED BY <1>1, <1>2

\* The steps between admission and charge keep their turn chargeable.
LEMMA StreamKeeps ==
  ASSUME IInv, NEW r \in Turns,
         \/ FindBlock(r)
         \/ Token(r)
         \/ StreamEnd(r)
         \/ Retry(r)
  PROVE  IInv'
<1>1. CASE FindBlock(r)
  <2>1. TypeOK'
    BY <1>1 DEF IInv, TypeOK, FindBlock, Goto, Calls, Admitted, Streaming
  <2>2. ChargeableTurns' \subseteq ChargeableTurns
    BY <1>1 DEF IInv, TypeOK, FindBlock, Goto, ChargeableTurns, Chargeable
  <2>3. BackoffInv'
    BY <1>1 DEF IInv, TypeOK, FindBlock, Goto, BackoffInv
  <2>. QED BY <1>1, <2>1, <2>2, <2>3, NoNewChargeable DEF FindBlock
<1>2. CASE Token(r)
  <2>1. TypeOK'
    BY <1>2 DEF IInv, TypeOK, Token
  <2>2. ChargeableTurns' \subseteq ChargeableTurns
    BY <1>2 DEF Token, ChargeableTurns
  <2>3. BackoffInv'
    BY <1>2 DEF IInv, TypeOK, Token, BackoffInv
  <2>. QED BY <1>2, <2>1, <2>2, <2>3, NoNewChargeable DEF Token
<1>3. CASE StreamEnd(r)
  <2>1. TypeOK'
    BY <1>3 DEF IInv, TypeOK, StreamEnd, Goto, Calls, Admitted
  <2>2. ChargeableTurns' \subseteq ChargeableTurns
    BY <1>3 DEF IInv, TypeOK, StreamEnd, Goto, ChargeableTurns, Chargeable,
                Streaming
  <2>3. BackoffInv'
    BY <1>3 DEF IInv, TypeOK, StreamEnd, Goto, BackoffInv
  <2>. QED BY <1>3, <2>1, <2>2, <2>3, NoNewChargeable DEF StreamEnd
<1>4. CASE Retry(r)
  <2>1. TypeOK'
    BY <1>4 DEF IInv, BackoffInv, TypeOK, Retry, Goto, Calls, Admitted,
                Streaming
  <2>2. ChargeableTurns' \subseteq ChargeableTurns
    BY <1>4 DEF IInv, TypeOK, Retry, Goto, ChargeableTurns, Chargeable,
                Streaming
  <2>3. BackoffInv'
    BY <1>4 DEF IInv, TypeOK, Retry, Goto, BackoffInv
  <2>. QED BY <1>4, <2>1, <2>2, <2>3, NoNewChargeable DEF Retry
<1>. QED BY <1>1, <1>2, <1>3, <1>4

LEMMA StreamErrorKeeps ==
  ASSUME IInv, NEW r \in Turns, StreamError(r) PROVE IInv'
<1>1. CASE ~ (tokens[r] = 0 /\ attempt[r] < MaxRetries)
  BY <1>1, EndKeeps DEF StreamError, IInv, TypeOK
<1>2. CASE tokens[r] = 0 /\ attempt[r] < MaxRetries
  <2>1. TypeOK'
    BY <1>2 DEF IInv, TypeOK, StreamError, Goto, Calls, Admitted, Streaming
  <2>2. ChargeableTurns' \subseteq ChargeableTurns
    BY <1>2 DEF IInv, TypeOK, StreamError, Goto, ChargeableTurns, Chargeable,
                Streaming
  <2>3. BackoffInv'
    BY <1>2 DEF IInv, TypeOK, StreamError, Goto, BackoffInv
  <2>. QED BY <1>2, <2>1, <2>2, <2>3, NoNewChargeable DEF StreamError
<1>. QED BY <1>1, <1>2

\* The charge moves one turn from what may still be charged to what is.
LEMMA IncrementKeeps ==
  ASSUME IInv, NEW r \in Turns, Increment(r) PROVE IInv'
<1>1. TypeOK'
  BY DEF IInv, TypeOK, Increment, Goto, Calls, Admitted
<1>2. BackoffInv'
  BY DEF IInv, TypeOK, Increment, Goto, BackoffInv
<1>3. r \in ChargeableTurns /\ ChargeableTurns' = ChargeableTurns \ {r}
  BY DEF IInv, TypeOK, Increment, Goto, ChargeableTurns, Chargeable, Streaming
<1>4. Cardinality(ChargeableTurns') = Cardinality(ChargeableTurns) - 1
  BY <1>3, ChargeableFinite, FS_RemoveElement
<1>5. used' = used + 1 /\ used \in Nat
  BY DEF Increment, IInv, TypeOK
<1>. QED BY <1>1, <1>2, <1>4, <1>5, ChargeableFinite DEF IInv, OverrunInv

LEMMA StepKeeps == IInv /\ [Next]_vars => IInv'
<1> SUFFICES ASSUME IInv, [Next]_vars PROVE IInv'
  OBVIOUS
<1>1. ASSUME NEW r \in Turns, Ask(r) PROVE IInv'
  BY <1>1, AskKeeps
<1>2. ASSUME NEW r \in Turns, Token(r) PROVE IInv'
  BY <1>2, StreamKeeps
<1>3. ASSUME NEW r \in Turns, Serve(r) PROVE IInv'
  <2>1. CASE ReadUsed(r)
    BY <2>1, ReadUsedKeeps
  <2>2. CASE FindBlock(r) \/ StreamEnd(r) \/ Retry(r)
    BY <2>2, StreamKeeps
  <2>3. CASE StreamError(r)
    BY <2>3, StreamErrorKeeps
  <2>4. CASE Increment(r)
    BY <2>4, IncrementKeeps
  <2>5. CASE Done(r)
    <3>1. answered' \in Nat /\ lost' \in Nat
      BY <2>5 DEF Done, IInv, TypeOK
    <3>. QED BY <2>5, <3>1, EndKeeps DEF Done
  <2>. QED BY <1>3, <2>1, <2>2, <2>3, <2>4, <2>5 DEF Serve
<1>4. ASSUME NEW r \in Turns, Fail(r) PROVE IInv'
  <2>1. answered' \in Nat /\ lost' \in Nat
    BY <1>4 DEF Fail, IInv, TypeOK
  <2>. QED BY <1>4, <2>1, EndKeeps DEF Fail
<1>5. CASE UNCHANGED vars
  BY <1>5 DEF vars, IInv, TypeOK, OverrunInv, BackoffInv, ChargeableTurns
<1>. QED BY <1>1, <1>2, <1>3, <1>4, <1>5 DEF Next

\* The invariant of every behaviour of the turns.
THEOREM Invariance == Spec => []IInv
BY InitIInv, StepKeeps, PTL DEF Spec

\* Every variable keeps its type; in particular no turn ever makes more than
\* MaxRetries + 1 attempts.
THEOREM TypeCorrectness == Spec => []TypeOK
BY Invariance, PTL DEF IInv

\* However many turns overlap, the cap is passed by fewer questions than there
\* are turns at a time; one turn at a time never passes it.
THEOREM OverrunIsBounded == Spec => []QuotaOverrunBounded
<1>1. IInv => QuotaOverrunBounded
  BY ChargeableFinite DEF IInv, OverrunInv, QuotaOverrunBounded, TypeOK
<1>. QED BY <1>1, Invariance, PTL

\* A retry never continues a reply the learner has seen the beginning of.
THEOREM RepliesAreOfOneAttempt == Spec => []ReplyOfOneAttempt
BY Invariance, PTL DEF IInv, BackoffInv

-----------------------------------------------------------------------------
(***************************************************************************)
(* The accounting                                                          *)
(***************************************************************************)
\* Only a reply of at least one token gets to its charge.
ChargeInv == \A r \in Turns : pc[r] = "increment" => sent[r] > 0

AccountInv == ChargedIffAnswered /\ ChargeInv

LEMMA ChargedFinite ==
  IsFiniteSet(Charged) /\ Cardinality(Charged) \in Nat
<1>1. Charged \in SUBSET Turns
  BY DEF Charged
<1>. QED BY <1>1, FS_Subset, FS_CardinalityType

LEMMA InitAccount == Init => AccountInv
<1> SUFFICES ASSUME Init PROVE AccountInv
  OBVIOUS
<1>1. Charged = {}
  BY DEF Init, Charged
<1>. QED BY <1>1, FS_EmptySet DEF Init, AccountInv, ChargeInv, ChargedIffAnswered

\* A turn that ends leaves the set of the charged ones.
LEMMA EndUncharges ==
  ASSUME IInv, AccountInv, NEW r \in Turns, End(r), used' = used,
         IF r \in Charged THEN answered' + lost' = answered + lost + 1
         ELSE answered' + lost' = answered + lost
  PROVE  AccountInv'
<1>1. Charged' = Charged \ {r}
  BY DEF IInv, TypeOK, End, Goto, Charged
<1>2. Cardinality(Charged') =
        IF r \in Charged THEN Cardinality(Charged) - 1 ELSE Cardinality(Charged)
  BY <1>1, ChargedFinite, FS_RemoveElement
<1>3. ChargeInv'
  BY DEF IInv, TypeOK, End, Goto, AccountInv, ChargeInv
<1>. QED BY <1>2, <1>3, ChargedFinite
         DEF AccountInv, ChargedIffAnswered, IInv, TypeOK

\* A step that leaves the account and the charged turns alone.
LEMMA SameCharged ==
  ASSUME AccountInv, UNCHANGED account, Charged' = Charged, ChargeInv'
  PROVE  AccountInv'
BY DEF AccountInv, ChargedIffAnswered

LEMMA StepAccount == IInv /\ AccountInv /\ [Next]_vars => AccountInv'
<1> SUFFICES ASSUME IInv, AccountInv, [Next]_vars PROVE AccountInv'
  OBVIOUS
<1> USE DEF IInv, TypeOK, AccountInv
<1>1. ASSUME NEW r \in Turns, Ask(r) \/ Token(r) \/ FindBlock(r) \/ Retry(r)
      PROVE  AccountInv'
  <2>1. UNCHANGED account
    BY <1>1 DEF Ask, Token, FindBlock, Retry
  <2>2. Charged' = Charged
    BY <1>1 DEF Ask, Token, FindBlock, Retry, Goto, Charged
  <2>3. ChargeInv'
    BY <1>1 DEF Ask, Token, FindBlock, Retry, Goto, ChargeInv
  <2>. QED BY <2>1, <2>2, <2>3, SameCharged
<1>2. ASSUME NEW r \in Turns, StreamEnd(r) PROVE AccountInv'
  <2>1. Charged' = Charged
    BY <1>2 DEF StreamEnd, Goto, Charged
  <2>2. ChargeInv'
    BY <1>2 DEF StreamEnd, Goto, ChargeInv
  <2>. QED BY <1>2, <2>1, <2>2, SameCharged DEF StreamEnd
<1>3. ASSUME NEW r \in Turns, ReadUsed(r) \/ StreamError(r) PROVE AccountInv'
  <2>1. CASE End(r)
    BY <1>3, <2>1, EndUncharges DEF ReadUsed, StreamError, Charged
  <2>2. CASE ~ End(r)
    <3>1. Charged' = Charged
      BY <1>3, <2>2 DEF ReadUsed, StreamError, Goto, Charged
    <3>2. ChargeInv'
      BY <1>3, <2>2 DEF ReadUsed, StreamError, Goto, ChargeInv
    <3>. QED BY <1>3, <3>1, <3>2, SameCharged DEF ReadUsed, StreamError
  <2>. QED BY <2>1, <2>2
<1>4. ASSUME NEW r \in Turns, Increment(r) PROVE AccountInv'
  <2>1. r \notin Charged /\ Charged' = Charged \cup {r}
    BY <1>4 DEF Increment, Goto, Charged, ChargeInv
  <2>2. Cardinality(Charged') = Cardinality(Charged) + 1
    BY <2>1, ChargedFinite, FS_AddElement
  <2>3. ChargeInv'
    BY <1>4 DEF Increment, Goto, ChargeInv
  <2>. QED BY <1>4, <2>2, <2>3, ChargedFinite
           DEF Increment, ChargedIffAnswered
<1>5. ASSUME NEW r \in Turns, Done(r) PROVE AccountInv'
  <2>1. answered' + lost' =
          IF r \in Charged THEN answered + lost + 1 ELSE answered + lost
    BY <1>5 DEF Done
  <2>. QED BY <1>5, <2>1, EndUncharges DEF Done
<1>6. ASSUME NEW r \in Turns, Fail(r) PROVE AccountInv'
  <2>1. answered' + lost' =
          IF r \in Charged THEN answered + lost + 1 ELSE answered + lost
    BY <1>6 DEF Fail
  <2>. QED BY <1>6, <2>1, EndUncharges DEF Fail
<1>7. CASE UNCHANGED vars
  BY <1>7, SameCharged DEF vars, Charged, ChargeInv
<1>. QED BY <1>1, <1>2, <1>3, <1>4, <1>5, <1>6, <1>7 DEF Next, Serve

\* The usage of a block is what was answered, what is being delivered, and what
\* was lost right after its charge.
THEOREM TheBooksBalance == Spec => []ChargedIffAnswered
<1>1. Spec => [](IInv /\ AccountInv)
  BY InitIInv, StepKeeps, InitAccount, StepAccount, PTL DEF Spec
<1>. QED BY <1>1, PTL DEF AccountInv

HIDE DEF ReplyOfOneAttempt

-----------------------------------------------------------------------------
(***************************************************************************)
(* The composition does nothing to the turns that they do not do alone.    *)
(***************************************************************************)
LEMMA DrawerStepIsTurnStep == [DrawerNext]_both => [Next]_vars
<1> SUFFICES ASSUME [DrawerNext]_both PROVE [Next]_vars
  OBVIOUS
<1>1. CASE Open \/ Close \/ Remount \/ Refetched
  BY <1>1 DEF Open, Close, Remount, Refetched
<1>2. ASSUME NEW r \in Turns, Send(r) \/ Elsewhere(r) \/ OnToken(r) \/ Break(r)
      PROVE  [Next]_vars
  BY <1>2 DEF Send, Elsewhere, OnToken, Break, Next
<1>3. ASSUME NEW r \in Turns, Turn(r) PROVE [Next]_vars
  BY <1>3 DEF Turn, Refuse, Finish, GiveUp, Quiet, Serve, Next
<1>4. CASE UNCHANGED both
  BY <1>4 DEF both
<1>. QED BY <1>1, <1>2, <1>3, <1>4 DEF DrawerNext

\* Every behaviour of the drawer and its turns is one of the turns, so what is
\* proved of them above holds with drawers that close, reload and ask again
\* (AiService.askStream under AiTutorDrawer).
THEOREM DrawerTurnsAreTurns == DrawerSpec => Spec
<1>1. DrawerInit => Init
  BY DEF DrawerInit
<1>. QED BY <1>1, DrawerStepIsTurnStep, PTL DEF DrawerSpec, Spec

\* Closing the drawer on a turn and asking again, from any number of tabs,
\* passes the cap by at most the other turns under way.
THEOREM OverrunIsBoundedWithDrawer == DrawerSpec => []QuotaOverrunBounded
BY DrawerTurnsAreTurns, OverrunIsBounded, PTL

-----------------------------------------------------------------------------
(***************************************************************************)
(* What the drawer shows                                                   *)
(***************************************************************************)
\* No turn knows of more usage than there is, and a free slot holds no tokens.
SlotsInv ==
  \A r \in Turns : seen[r] <= used /\ (pc[r] = "idle" => tokens[r] = 0)

DrawerInv ==
  /\ SlotsInv
  /\ remaining \in Nat /\ initial \in Nat
  /\ NothingWithheld
  /\ stream \in Turns \cup {NoTurn}
  /\ ShownIsOneReply

\* The more questions were used, the fewer remain.
LEMMA RemainingIsAntitone ==
  ASSUME NEW m \in Nat, NEW n \in Nat, m <= n
  PROVE  Remaining(m) \in Nat /\ Remaining(n) <= Remaining(m)
BY DEF Remaining

LEMMA InitDrawerInv == DrawerInit => DrawerInv
<1> SUFFICES ASSUME DrawerInit PROVE DrawerInv
  OBVIOUS
<1>1. SlotsInv
  BY DEF DrawerInit, Init, SlotsInv
<1>2. used = 0 /\ remaining = Remaining(0) /\ initial = Remaining(0) /\ stream = NoTurn
  BY DEF DrawerInit, Init
<1>3. Remaining(0) \in Nat
  BY RemainingIsAntitone
<1>. QED BY <1>1, <1>2, <1>3 DEF DrawerInv, NothingWithheld, ShownIsOneReply

LEMMA EndKeepsSlots ==
  ASSUME IInv, SlotsInv, NEW r \in Turns, End(r), used' = used
  PROVE  SlotsInv' /\ used' \in Nat /\ used <= used'
<1>1. used \in Nat /\ pc \in [Turns -> Calls]
      /\ seen \in [Turns -> Nat] /\ tokens \in [Turns -> 0..MaxTokens]
  BY DEF IInv, TypeOK
<1>2. ASSUME NEW s \in Turns
      PROVE  seen'[s] <= used' /\ (pc'[s] = "idle" => tokens'[s] = 0)
  <2>1. CASE s = r
    BY <1>1, <2>1 DEF End, Goto
  <2>2. CASE s # r
    <3>1. seen'[s] = seen[s] /\ pc'[s] = pc[s] /\ tokens'[s] = tokens[s]
      BY <1>1, <2>2 DEF End, Goto
    <3>. QED BY <3>1 DEF SlotsInv
  <2>. QED BY <2>1, <2>2
<1>. QED BY <1>1, <1>2 DEF SlotsInv

\* The usage only grows, and every turn's knowledge of it follows.
LEMMA SlotsKept ==
  ASSUME IInv, SlotsInv, [Next]_vars
  PROVE  SlotsInv' /\ used' \in Nat /\ used <= used'
<1> USE DEF IInv, TypeOK
<1>1. ASSUME NEW r \in Turns,
             Ask(r) \/ FindBlock(r) \/ StreamEnd(r) \/ Token(r) \/ Retry(r)
      PROVE  SlotsInv' /\ used' \in Nat /\ used <= used'
  BY <1>1 DEF Ask, FindBlock, StreamEnd, Token, Retry, Goto, SlotsInv
<1>2. ASSUME NEW r \in Turns, ReadUsed(r) \/ StreamError(r)
      PROVE  SlotsInv' /\ used' \in Nat /\ used <= used'
  <2>1. CASE End(r)
    <3>1. used' = used
      BY <1>2 DEF ReadUsed, StreamError
    <3>. QED BY <2>1, <3>1, EndKeepsSlots
  <2>2. CASE ~ End(r)
    BY <1>2, <2>2 DEF ReadUsed, StreamError, Goto, SlotsInv
  <2>. QED BY <2>1, <2>2
<1>3. ASSUME NEW r \in Turns, Increment(r)
      PROVE  SlotsInv' /\ used' \in Nat /\ used <= used'
  <2>1. used' = used + 1 /\ used \in Nat /\ tokens' = tokens
    BY <1>3 DEF Increment
  <2>2. ASSUME NEW s \in Turns
        PROVE  seen'[s] <= used' /\ (pc'[s] = "idle" => tokens'[s] = 0)
    <3>1. CASE s = r
      BY <1>3, <2>1, <3>1 DEF Increment, Goto
    <3>2. CASE s # r
      <4>1. seen'[s] = seen[s] /\ pc'[s] = pc[s] /\ seen[s] \in Nat
        BY <1>3, <3>2 DEF Increment, Goto
      <4>. QED BY <2>1, <4>1 DEF SlotsInv
    <3>. QED BY <3>1, <3>2
  <2>. QED BY <2>1, <2>2 DEF SlotsInv
<1>4. ASSUME NEW r \in Turns, Done(r) \/ Fail(r)
      PROVE  SlotsInv' /\ used' \in Nat /\ used <= used'
  <2>1. End(r) /\ used' = used
    BY <1>4 DEF Done, Fail
  <2>. QED BY <2>1, EndKeepsSlots
<1>5. CASE UNCHANGED vars
  BY <1>5 DEF vars, SlotsInv
<1>. QED BY <1>1, <1>2, <1>3, <1>4, <1>5 DEF Next, Serve

\* The event that ends the drawer's stream leaves nothing of it.
LEMMA EndKeepsShown ==
  ASSUME IInv, DrawerInv, SlotsInv', used' \in Nat, used <= used',
         NEW r \in Turns, End(r),
         \/ OnError(r)
         \/ \E count \in Nat : count <= used' /\ OnDone(r, Remaining(count))
  PROVE  DrawerInv'
<1>1. \A count \in Nat : count <= used' =>
        Remaining(count) \in Nat /\ Remaining(used') <= Remaining(count)
  BY RemainingIsAntitone
<1>2. Remaining(used') <= Remaining(used) /\ Remaining(used) \in Nat /\ Remaining(used') \in Nat
  BY RemainingIsAntitone DEF IInv, TypeOK
<1>3. /\ remaining' \in Nat /\ initial' \in Nat
      /\ Remaining(used') <= remaining'
      /\ stream' \in Turns \cup {NoTurn}
  BY <1>1, <1>2 DEF OnError, OnDone, drawer, DrawerInv, NothingWithheld
<1>4. ShownIsOneReply'
  BY DEF OnError, OnDone, drawer, DrawerInv, ShownIsOneReply, End, IInv, TypeOK
<1>. QED BY <1>3, <1>4 DEF DrawerInv, NothingWithheld, Remaining

\* A step of a turn the drawer shows nothing of.
LEMMA QuietKeepsShown ==
  ASSUME IInv, DrawerInv, SlotsInv', used' \in Nat, used <= used',
         UNCHANGED drawer,
         stream # NoTurn => tokens'[stream] = tokens[stream]
  PROVE  DrawerInv'
<1>1. Remaining(used') <= Remaining(used) /\ Remaining(used) \in Nat /\ Remaining(used') \in Nat
  BY RemainingIsAntitone DEF IInv, TypeOK
<1>. QED BY <1>1 DEF drawer, DrawerInv, NothingWithheld, ShownIsOneReply, Remaining

LEMMA DrawerKeeps == IInv /\ DrawerInv /\ [DrawerNext]_both => DrawerInv'
<1> SUFFICES ASSUME IInv, DrawerInv, [DrawerNext]_both PROVE DrawerInv'
  OBVIOUS
<1>0. SlotsInv' /\ used' \in Nat /\ used <= used'
  BY DrawerStepIsTurnStep, SlotsKept DEF DrawerInv
<1>1. ASSUME NEW r \in Turns, Send(r) PROVE DrawerInv'
  <2>1. tokens[r] = 0
    BY <1>1 DEF Send, Ask, DrawerInv, SlotsInv
  <2>2. ShownIsOneReply'
    BY <1>1, <2>1 DEF Send, Ask, ShownIsOneReply
  <2>. QED BY <1>0, <1>1, <2>2 DEF Send, Ask, account, DrawerInv, NothingWithheld, Remaining
<1>2. CASE Open \/ Close
  <2>1. ShownIsOneReply'
    BY <1>2 DEF Open, Close, vars, DrawerInv, ShownIsOneReply
  <2>. QED BY <1>0, <1>2, <2>1
           DEF Open, Close, vars, DrawerInv, NothingWithheld, Remaining
<1>3. CASE Remount \/ Refetched
  <2>1. PICK count \in 0..used : initial' = Remaining(count)
    BY <1>3 DEF Remount, Refetched, PageData
  <2>2. initial' \in Nat /\ Remaining(used) <= initial'
    BY <2>1, RemainingIsAntitone DEF IInv, TypeOK
  <2>3. ShownIsOneReply'
    BY <1>3 DEF Remount, Refetched, vars, DrawerInv, ShownIsOneReply
  <2>. QED BY <1>0, <1>3, <2>2, <2>3
           DEF Remount, Refetched, vars, DrawerInv, NothingWithheld, Remaining
<1>4. ASSUME NEW r \in Turns, OnToken(r) PROVE DrawerInv'
  <2>1. ShownIsOneReply'
    BY <1>4 DEF OnToken, Token, DrawerInv, ShownIsOneReply, IInv, TypeOK
  <2>. QED BY <1>0, <1>4, <2>1
           DEF OnToken, Token, account, DrawerInv, NothingWithheld, Remaining
<1>5. ASSUME NEW r \in Turns, Refuse(r) PROVE DrawerInv'
  <2>1. CASE Ended(r)
    <3>1. End(r) /\ OnDone(r, Remaining(used)) /\ used' = used
      BY <1>5, <2>1 DEF Refuse, ReadUsed, Ended, Goto, account, IInv, TypeOK
    <3>. QED BY <1>0, <3>1, EndKeepsShown DEF IInv, TypeOK
  <2>2. CASE ~ Ended(r)
    <3>1. tokens' = tokens /\ UNCHANGED drawer
      BY <1>5, <2>2 DEF Refuse, ReadUsed, Ended, End, Goto, IInv, TypeOK
    <3>. QED BY <1>0, <3>1, QuietKeepsShown
  <2>. QED BY <2>1, <2>2
<1>6. ASSUME NEW r \in Turns, Finish(r) PROVE DrawerInv'
  <2>1. End(r) /\ OnDone(r, Remaining(seen[r])) /\ used' = used
    BY <1>6 DEF Finish, Done
  <2>2. seen[r] \in Nat /\ seen[r] <= used'
    BY <2>1 DEF DrawerInv, SlotsInv, IInv, TypeOK
  <2>. QED BY <1>0, <2>1, <2>2, EndKeepsShown
<1>7. ASSUME NEW r \in Turns, GiveUp(r) PROVE DrawerInv'
  <2>1. CASE Ended(r)
    <3>1. End(r) /\ OnError(r)
      BY <1>7, <2>1 DEF GiveUp, StreamError, Ended, Goto, IInv, TypeOK
    <3>. QED BY <1>0, <3>1, EndKeepsShown
  <2>2. CASE ~ Ended(r)
    <3>1. tokens' = tokens /\ UNCHANGED drawer
      BY <1>7, <2>2 DEF GiveUp, StreamError, Ended, End, Goto, IInv, TypeOK
    <3>. QED BY <1>0, <3>1, QuietKeepsShown
  <2>. QED BY <2>1, <2>2
<1>8. ASSUME NEW r \in Turns, Quiet(r) PROVE DrawerInv'
  <2>1. \A s \in Turns : tokens'[s] = tokens[s]
    BY <1>8 DEF Quiet, FindBlock, StreamEnd, Retry, Increment, IInv, TypeOK, BackoffInv
  <2>. QED BY <1>0, <1>8, <2>1, QuietKeepsShown DEF Quiet, DrawerInv
<1>9. ASSUME NEW r \in Turns, Break(r) PROVE DrawerInv'
  BY <1>0, <1>9, EndKeepsShown DEF Break, Fail
<1>10. ASSUME NEW r \in Turns, Elsewhere(r) PROVE DrawerInv'
  BY <1>0, <1>10, QuietKeepsShown DEF Elsewhere, Ask
<1>11. CASE UNCHANGED both
  BY <1>0, <1>11, QuietKeepsShown DEF both, vars
<1>. QED BY <1>1, <1>2, <1>3, <1>4, <1>5, <1>6, <1>7, <1>8, <1>9, <1>10, <1>11
         DEF DrawerNext, Turn

\* The invariant of the drawer and its turns, from which the next two follow.
THEOREM DrawerInvariance == DrawerSpec => []DrawerInv
<1>1. DrawerSpec => []IInv
  BY DrawerTurnsAreTurns, Invariance, PTL
<1>. QED BY <1>1, InitDrawerInv, DrawerKeeps, PTL DEF DrawerSpec

\* The drawer never blocks its input for lack of questions while the server
\* would still answer one (setRemaining in AiTutorDrawer, whatever set it).
THEOREM NoQuestionIsWithheld == DrawerSpec => []NothingWithheld
BY DrawerInvariance, PTL DEF DrawerInv

\* The growing text is the output of one attempt of the turn being read.
THEOREM OneReplyIsShown == DrawerSpec => []ShownIsOneReply
BY DrawerInvariance, PTL DEF DrawerInv
=============================================================================
