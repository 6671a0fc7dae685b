---------------------------- MODULE ServicesProofs ----------------------------
(***************************************************************************)
(* Theorems about the services of MCServices, for every value of their     *)
(* constants.  The services share no state, so each theorem needs only the *)
(* steps of its own service, and an invariant of its own.                  *)
(***************************************************************************)
EXTENDS MCServices, OperatorProofs

\* A step of the whole is a step of a service or leaves its state alone.
LEMMA Parts ==
    ASSUME [Next]_vars
    PROVE  /\ [BlocksNext]_blockVars
           /\ [SigningNext]_signingVars
           /\ [TrainingNext]_trainingVars
           /\ [NetStep]_netVars
           /\ [BranchesNext]_branchVars
           /\ [PipelineNext]_pipelineVars
           /\ [SessionNext]_sessionVars
           /\ [SlotNext]_slotVars
           /\ [PlayNext]_matchVars
           /\ [TerminalsNext]_terminalVars
           /\ [CoachNext]_commandVars
BY DEF Next, vars

----------------------------------------------------------------------------
(* The signing pass                                                        *)

MoveWorld == [tick : Nat, at : [1 .. Movers -> Spots]]
Signature == {<<>>} \cup (Nat \X (1 .. Movers) \X Spots)
SignerState ==
    [phase : {"rest", "read", "sign", "verify"}, world : 1 .. 2, tick : Nat,
     snapshot : Seq(Spots), row : 0 .. Movers,
     signature : Signature]
Verdict == [agent : 1 .. Movers, tick : Nat, world : 1 .. 2, ok : BOOLEAN]

SigningTypes ==
    /\ moveWorlds \in [1 .. 2 -> MoveWorld] /\ shownWorld \in 1 .. 2
    /\ signer \in SignerState /\ lastSigned \in Nat \cup {-1}
    /\ verdicts \in Seq(Verdict)

\* What the instance's constants are assumed to be, for the signing pass.
LEMMA SigningConstants == Movers \in Nat /\ Movers > 0 /\ RestoredTicks \subseteq Nat
BY SigningAssumption

\* A call under way is the one that set lastSigned; what it has signed is the row of its snapshot.
PassInOrder ==
    /\ signer.phase # "rest" => signer.tick = lastSigned
    /\ Len(signer.snapshot) <= Movers
    /\ signer.phase \in {"sign", "verify"} => signer.row \in 1 .. Len(signer.snapshot)
                                              /\ Len(signer.snapshot) = Movers
    /\ signer.phase = "verify" =>
         signer.signature = <<signer.tick, signer.row, signer.snapshot[signer.row]>>

\* The verdicts are of calls up to the last one, and of that one's rows before the current.
VerdictsBehind ==
    \A i \in DOMAIN verdicts :
      /\ verdicts[i].tick <= lastSigned
      /\ signer.phase # "rest" /\ verdicts[i].tick = lastSigned =>
           signer.phase \in {"sign", "verify"} /\ verdicts[i].agent < signer.row

SigningInv == SigningTypes /\ PassInOrder /\ VerdictsBehind /\ SigningSound

\* An idle signer has no pass under way and no verdicts.
LEMMA SigningStarts ==
    ASSUME SigningInit
    PROVE  SigningInv
<1> USE SigningConstants
<1>1. SigningTypes
  <2>1. Resting \in SignerState
    BY DEF Resting, SignerState, Signature
  <2> QED
    BY <2>1 DEF SigningInit, SigningTypes, MoveWorld
<1>2. PassInOrder
  BY DEF SigningInit, PassInOrder, Resting
<1>3. VerdictsBehind /\ SigningSound
  BY DEF SigningInit, VerdictsBehind, SigningSound, OwnMovesVerify, OneMovePerTick
<1> QED
  BY <1>1, <1>2, <1>3 DEF SigningInv

\* Movement, clock, passes and restored worlds keep the types.
LEMMA SigningTypesStep ==
    ASSUME SigningTypes, PassInOrder, SigningNext
    PROVE  SigningTypes'
<1> USE SigningConstants DEF SigningTypes
<1>1. CASE MoveAgents
  <2>1. PICK at \in [1 .. Movers -> Spots] : moveWorlds' = [moveWorlds EXCEPT ![1].at = at]
    BY <1>1 DEF MoveAgents
  <2>2. moveWorlds[1] \in MoveWorld
    OBVIOUS
  <2>3. [moveWorlds[1] EXCEPT !.at = at] \in MoveWorld
    BY <2>2 DEF MoveWorld
  <2>4. moveWorlds' \in [1 .. 2 -> MoveWorld]
    BY <2>1, <2>3
  <2>5. UNCHANGED <<shownWorld, signer, lastSigned, verdicts>>
    BY <1>1 DEF MoveAgents
  <2> QED
    BY <2>4, <2>5
<1>2. CASE CountTick
  <2>1. moveWorlds[1] \in MoveWorld
    OBVIOUS
  <2>2. moveWorlds[1].tick + 1 \in Nat
    BY <2>1 DEF MoveWorld
  <2>3. [moveWorlds[1] EXCEPT !.tick = @ + 1] \in MoveWorld
    BY <2>1, <2>2 DEF MoveWorld
  <2> QED
    BY <1>2, <2>3 DEF CountTick
<1>3. CASE ShowRestored
  <2>1. PICK t \in RestoredTicks : moveWorlds' = [moveWorlds EXCEPT ![2].tick = t]
    BY <1>3 DEF ShowRestored
  <2>2. moveWorlds[2] \in MoveWorld /\ t \in Nat
    OBVIOUS
  <2>3. [moveWorlds[2] EXCEPT !.tick = t] \in MoveWorld
    BY <2>2 DEF MoveWorld
  <2>4. moveWorlds' \in [1 .. 2 -> MoveWorld]
    BY <2>1, <2>3
  <2>5. shownWorld' = 2 /\ UNCHANGED <<lastSigned, signer, verdicts>>
    BY <1>3 DEF ShowRestored
  <2> QED
    BY <2>4, <2>5
<1>4. CASE BeginSigning
  <2>1. moveWorlds[shownWorld].tick \in Nat
    BY DEF MoveWorld
  <2> QED
    <3>1. Resting \in SignerState
      BY DEF Resting, SignerState, Signature
    <3>2. /\ shownWorld \in 1 .. 2 /\ lastSigned' = moveWorlds[shownWorld].tick
          /\ signer' = [Resting EXCEPT !.phase = "read", !.world = shownWorld,
                                       !.tick = moveWorlds[shownWorld].tick]
      BY <1>4 DEF BeginSigning
    <3>3. signer' \in SignerState
      BY <2>1, <3>1, <3>2 DEF SignerState
    <3> QED
      BY <1>4, <2>1, <3>2, <3>3 DEF BeginSigning
<1>5. CASE ReadPosition
  <2>1. CASE Len(signer.snapshot) = Movers
    <3>1. 1 \in 0 .. Movers
      OBVIOUS
    <3>2. [signer EXCEPT !.phase = "sign", !.row = 1] \in SignerState
      BY <3>1 DEF SignerState
    <3> QED
      BY <1>5, <2>1, <3>2 DEF ReadPosition
  <2>2. CASE Len(signer.snapshot) # Movers
    <3>1. /\ signer.snapshot \in Seq(Spots) /\ signer.world \in 1 .. 2
          /\ Len(signer.snapshot) + 1 \in 1 .. Movers
      BY <2>2 DEF SignerState, PassInOrder
    <3>2. moveWorlds[signer.world].at[Len(signer.snapshot) + 1] \in Spots
      BY <3>1 DEF MoveWorld
    <3> DEFINE more == Append(signer.snapshot, moveWorlds[signer.world].at[Len(signer.snapshot) + 1])
    <3>3. more \in Seq(Spots)
      BY <3>1, <3>2
    <3>4. signer' = [signer EXCEPT !.snapshot = more]
      BY <1>5, <2>2 DEF ReadPosition
    <3> HIDE DEF more
    <3>5. signer' \in SignerState
      BY <3>3, <3>4 DEF SignerState
    <3> QED
      BY <1>5, <3>5 DEF ReadPosition
  <2> QED
    BY <2>1, <2>2
<1>6. CASE SignRow
  <2>1. /\ signer.row \in 1 .. Movers /\ signer.tick \in Nat
        /\ signer.snapshot[signer.row] \in Spots
    BY <1>6 DEF SignRow, SignerState, PassInOrder
  <2>2. <<signer.tick, signer.row, signer.snapshot[signer.row]>> \in Signature
    BY <2>1 DEF Signature
  <2> QED
    BY <1>6, <2>2 DEF SignRow, SignerState
<1>7. CASE VerifyRow
  <2>1. signer.row \in 1 .. Movers /\ signer.tick \in Nat /\ signer.world \in 1 .. 2
    BY <1>7 DEF VerifyRow, SignerState, PassInOrder
  <2>2. signer' \in SignerState
    <3>1. Resting \in SignerState
      BY DEF Resting, SignerState, Signature
    <3>2. signer.row # Movers => [signer EXCEPT !.phase = "sign", !.row = signer.row + 1] \in SignerState
      <4> SUFFICES ASSUME signer.row # Movers
                   PROVE  [signer EXCEPT !.phase = "sign", !.row = signer.row + 1] \in SignerState
        OBVIOUS
      <4>1. signer.row + 1 \in 0 .. Movers
        BY <2>1
      <4> QED
        BY <4>1 DEF SignerState
    <3> QED
      BY <1>7, <3>1, <3>2 DEF VerifyRow
  <2>3. verdicts' \in Seq(Verdict)
    BY <1>7, <2>1 DEF VerifyRow, Verdict
  <2> QED
    BY <1>7, <2>2, <2>3 DEF VerifyRow
<1> QED
  BY <1>1, <1>2, <1>3, <1>4, <1>5, <1>6, <1>7 DEF SigningNext

\* A pass under way keeps verifying, row by row, the positions it read at its start.
LEMMA PassInOrderStep ==
    ASSUME SigningTypes, PassInOrder, SigningNext
    PROVE  PassInOrder'
<1> USE SigningConstants
<1>1. signer \in SignerState
  BY DEF SigningTypes
<1>2. CASE MoveAgents \/ CountTick \/ ShowRestored
  BY <1>2 DEF MoveAgents, CountTick, ShowRestored, PassInOrder
<1>3. CASE BeginSigning
  BY <1>3 DEF BeginSigning, PassInOrder, Resting
<1>4. CASE ReadPosition
  BY <1>1, <1>4 DEF ReadPosition, PassInOrder, SignerState
<1>5. CASE SignRow
  BY <1>1, <1>5 DEF SignRow, PassInOrder, SignerState
<1>6. CASE VerifyRow
  BY <1>1, <1>6 DEF VerifyRow, PassInOrder, SignerState, Resting
<1> QED
  BY <1>2, <1>3, <1>4, <1>5, <1>6 DEF SigningNext

\* Only VerifyRow adds a verdict: the one of the row it has reached, and of what was signed there.
LEMMA NewVerdict ==
    ASSUME SigningTypes, PassInOrder, VerifyRow
    PROVE  /\ DOMAIN verdicts' = 1 .. Len(verdicts) + 1
           /\ \A i \in DOMAIN verdicts : verdicts'[i] = verdicts[i]
           /\ LET new == verdicts'[Len(verdicts) + 1] IN
              new.agent = signer.row /\ new.tick = lastSigned /\ new.ok
<1> DEFINE new == [agent |-> signer.row, tick |-> signer.tick, world |-> signer.world,
                   ok |-> signer.signature = <<signer.tick, signer.row, VerifiedNode>>]
<1>1. verdicts \in Seq(Verdict) /\ verdicts' = Append(verdicts, new)
  BY DEF SigningTypes, VerifyRow
<1>2. new.agent = signer.row /\ new.tick = lastSigned /\ new.ok
  BY DEF PassInOrder, VerifyRow, VerifiedNode
<1> HIDE DEF new
<1> QED
  BY <1>1, <1>2

\* A verdict is of the pass under way, whose tick is later than that of every pass before.
LEMMA VerdictsStep ==
    ASSUME SigningInv, SigningNext
    PROVE  VerdictsBehind' /\ SigningSound'
<1> USE SigningConstants DEF SigningInv
<1>1. /\ signer \in SignerState /\ lastSigned \in Int /\ verdicts \in Seq(Verdict)
      /\ \A i \in DOMAIN verdicts : verdicts[i].tick \in Int /\ verdicts[i].agent \in Int
  <2>1. \A i \in DOMAIN verdicts : verdicts[i] \in Verdict
    BY DEF SigningTypes
  <2> QED
    BY <2>1 DEF SigningTypes, Verdict
<1>2. CASE ~VerifyRow
  <2>1. verdicts' = verdicts
    BY <1>2 DEF SigningNext, MoveAgents, CountTick, ShowRestored, BeginSigning, ReadPosition, SignRow
  <2>2. SigningSound'
    BY <2>1 DEF SigningSound, OwnMovesVerify, OneMovePerTick
  <2>3. CASE MoveAgents \/ CountTick \/ ShowRestored
    BY <2>1, <2>2, <2>3 DEF MoveAgents, CountTick, ShowRestored, VerdictsBehind
  <2>4. CASE BeginSigning
    <3>1. moveWorlds[shownWorld].tick \in Int
      BY DEF SigningTypes, MoveWorld
    <3>2. lastSigned' > lastSigned /\ lastSigned' \in Int
      BY <1>1, <2>4, <3>1 DEF BeginSigning, NotYetSigned
    <3> QED
      BY <1>1, <2>1, <2>2, <3>2 DEF VerdictsBehind
  <2>5. CASE ReadPosition
    BY <1>1, <2>1, <2>2, <2>5 DEF ReadPosition, VerdictsBehind, SignerState
  <2>6. CASE SignRow
    BY <1>1, <2>1, <2>2, <2>6 DEF SignRow, VerdictsBehind, SignerState
  <2> QED
    BY <1>2, <2>2, <2>3, <2>4, <2>5, <2>6 DEF SigningNext
<1>3. CASE VerifyRow
  <2> DEFINE n == Len(verdicts)
  <2>1. /\ n \in Nat /\ DOMAIN verdicts = 1 .. n /\ DOMAIN verdicts' = 1 .. n + 1
        /\ \A i \in 1 .. n : verdicts'[i] = verdicts[i]
        /\ verdicts'[n + 1].agent = signer.row /\ verdicts'[n + 1].tick = lastSigned
        /\ verdicts'[n + 1].ok
    BY <1>1, <1>3, NewVerdict
  <2>2. /\ signer.phase = "verify" /\ lastSigned' = lastSigned /\ signer.row \in Int
        /\ \/ signer'.phase = "rest"
           \/ signer'.phase = "sign" /\ signer'.row = signer.row + 1
    BY <1>1, <1>3 DEF VerifyRow, SignerState, Resting
  <2> HIDE DEF n
  <2>3. VerdictsBehind'
    BY <1>1, <2>1, <2>2 DEF VerdictsBehind
  <2>4. OwnMovesVerify'
    BY <2>1 DEF SigningSound, OwnMovesVerify
  <2>5. \A i \in 1 .. n : ~(verdicts[i].tick = lastSigned /\ verdicts[i].agent = signer.row)
    BY <1>1, <2>1, <2>2 DEF VerdictsBehind
  <2>6. OneMovePerTick'
    <3>1. \A i, j \in 1 .. n : verdicts'[i].agent = verdicts'[j].agent
                              /\ verdicts'[i].tick = verdicts'[j].tick => i = j
      BY <2>1 DEF SigningSound, OneMovePerTick
    <3>2. \A i \in 1 .. n : ~(verdicts'[i].tick = verdicts'[n + 1].tick
                              /\ verdicts'[i].agent = verdicts'[n + 1].agent)
      BY <2>1, <2>5
    <3>3. \A i \in 1 .. n + 1 : i \in 1 .. n \/ i = n + 1
      BY <2>1
    <3> QED
      BY <2>1, <3>1, <3>2, <3>3 DEF OneMovePerTick
  <2> QED
    BY <2>3, <2>4, <2>6 DEF SigningSound
<1> QED
  BY <1>2, <1>3

\* The signing pass never refuses a move of the program itself, and signs no agent's move twice for
\* one tick, with any number of agents and however they move, and whichever world a resumed session
\* shows, while it runs (AgentKeystore.sign_and_verify_moves).
THEOREM SigningSoundHolds == Spec => []SigningSound
<1>1. Init => SigningInv
  BY SigningStarts DEF Init
<1>2. SigningInv /\ [Next]_vars => SigningInv'
  <2> SUFFICES ASSUME SigningInv, [Next]_vars
               PROVE  SigningInv'
    OBVIOUS
  <2>1. CASE SigningNext
    BY <2>1, SigningTypesStep, PassInOrderStep, VerdictsStep DEF SigningInv
  <2>2. CASE UNCHANGED signingVars
    BY <2>2 DEF signingVars, SigningInv, SigningTypes, PassInOrder, VerdictsBehind, SigningSound,
                OwnMovesVerify, OneMovePerTick
  <2> QED
    BY <2>1, <2>2, Parts
<1>3. SigningInv => SigningSound
  BY DEF SigningInv
<1> QED
  BY <1>1, <1>2, <1>3, PTL DEF Spec

----------------------------------------------------------------------------
(* The trainer                                                             *)

\* What is assumed of the bounds of the reward window and of the curve.
LEMMA TrainingConstants == RewardCap \in Nat /\ RewardCap > 0 /\ HistoryMax \in Nat /\ HistoryMax > 0
BY LiveTrainingAssumption

\* Consecutive numbers, up to the last one.
UpTo(seq, last) == \A i \in DOMAIN seq : seq[i] = last - Len(seq) + i

TrainingTypes ==
    /\ app \in [up : BOOLEAN, orchestratorStopped : BOOLEAN, loopStopped : BOOLEAN]
    /\ task \in {"none", "paused", "waiting", "cancelled"} /\ enabled \in BOOLEAN
    /\ iteration \in Nat /\ history \in Seq(Nat)
    /\ thread \in [at : {"out", "rollout", "tail", "done", "failed"}, take : Nat]
    /\ mempool \in [total : Nat, recent : Seq(Nat)] /\ delivering \in BOOLEAN
    /\ consumed \in Nat /\ credited \in Seq(Nat) /\ raced \in BOOLEAN

\* The deliveries that were appended, the one that is not yet counted included.
Appended == mempool.total + (IF delivering THEN 1 ELSE 0)

\* What the shaper has counted and not yet paid.
Owed == IF thread.at = "tail" THEN thread.take ELSE 0

MempoolInv ==
    /\ UpTo(mempool.recent, Appended)
    /\ Len(mempool.recent) = IF Appended < RewardCap THEN Appended ELSE RewardCap

\* The shaper owes at most what the deque holds, and has paid, or owes, at most what it has counted;
\* without a race it owes the latest of what it has counted.
ShaperInv ==
    /\ consumed <= mempool.total
    /\ thread.at = "tail" => thread.take <= Len(mempool.recent)
    /\ Len(credited) + Owed <= consumed
    /\ ~raced =>
         /\ thread.at = "tail" => ~delivering /\ consumed = mempool.total
         /\ \A i \in DOMAIN credited : credited[i] <= consumed - Owed
         /\ \A i, j \in DOMAIN credited : i < j => credited[i] < credited[j]
         /\ consumed <= RewardCap => Len(credited) + Owed = consumed

TrainingInv ==
    /\ TrainingTypes /\ OneIterationAtATime /\ IdleTrainerStopsCleanly
    /\ CurveIsConsecutive /\ MempoolInv /\ ShaperInv

\* deque(maxlen=n).append(e) keeps the latest, in order.
LEMMA AppendedUpTo ==
    ASSUME NEW seq \in Seq(Nat), NEW last \in Nat, NEW n \in Nat, n > 0, UpTo(seq, last)
    PROVE  LET longer == AppendBounded(seq, last + 1, n) IN
           /\ longer \in Seq(Nat) /\ UpTo(longer, last + 1)
           /\ Len(longer) = IF Len(seq) + 1 > n THEN Len(seq) ELSE Len(seq) + 1
<1> DEFINE all == Append(seq, last + 1)
<1>1. all \in Seq(Nat) /\ Len(all) = Len(seq) + 1 /\ Len(seq) \in Nat
  OBVIOUS
<1>2. \A i \in 1 .. Len(seq) + 1 : all[i] = last - Len(seq) + i
  BY DEF UpTo
<1> HIDE DEF all
<1>3. CASE Len(all) > n
  <2>1. /\ Tail(all) \in Seq(Nat) /\ Len(Tail(all)) = Len(seq)
        /\ \A i \in 1 .. Len(seq) : Tail(all)[i] = all[i + 1]
    BY <1>1, <1>3
  <2>2. UpTo(Tail(all), last + 1)
    <3>1. ASSUME NEW i \in 1 .. Len(seq)
          PROVE  Tail(all)[i] = (last + 1) - Len(seq) + i
      <4>1. i + 1 \in 1 .. Len(seq) + 1
        BY <1>1
      <4>2. Tail(all)[i] = last - Len(seq) + (i + 1)
        BY <1>2, <2>1, <4>1
      <4> QED
        BY <1>1, <4>2
    <3>2. DOMAIN Tail(all) = 1 .. Len(seq)
      BY <2>1
    <3> QED
      BY <2>1, <3>1, <3>2 DEF UpTo
  <2> QED
    BY <1>1, <1>3, <2>1, <2>2 DEF AppendBounded, all
<1>4. CASE ~(Len(all) > n)
  <2>1. UpTo(all, last + 1)
    BY <1>1, <1>2 DEF UpTo
  <2> QED
    BY <1>1, <1>4, <2>1 DEF AppendBounded, all
<1> QED
  BY <1>3, <1>4

\* Nothing was delivered, credited or owed at the start.
LEMMA TrainingStarts ==
    ASSUME TrainingInit
    PROVE  TrainingInv
<1> USE TrainingConstants DEF TrainingInit, Out
<1>1. TrainingTypes
  <2>1. /\ app \in [up : BOOLEAN, orchestratorStopped : BOOLEAN, loopStopped : BOOLEAN]
        /\ thread \in [at : {"out", "rollout", "tail", "done", "failed"}, take : Nat]
    OBVIOUS
  <2>2. mempool \in [total : Nat, recent : Seq(Nat)] /\ history \in Seq(Nat) /\ credited \in Seq(Nat)
    OBVIOUS
  <2> QED
    BY <2>1, <2>2 DEF TrainingTypes
<1>2. OneIterationAtATime /\ IdleTrainerStopsCleanly /\ CurveIsConsecutive
  BY DEF OneIterationAtATime, IdleTrainerStopsCleanly, CurveIsConsecutive
<1>3. MempoolInv /\ ShaperInv
  BY DEF MempoolInv, ShaperInv, UpTo, Appended, Owed
<1> QED
  BY <1>1, <1>2, <1>3 DEF TrainingInv

\* The deliveries that one step of the shaper pays.
LEMMA RewardsCounted ==
    ASSUME TrainingTypes, ShaperInv
    PROVE  /\ NewRewards \in Nat /\ NewRewards <= Len(mempool.recent)
           /\ NewRewards <= mempool.total - consumed
           /\ NewRewards = mempool.total - consumed \/ NewRewards = Len(mempool.recent)
<1>1. /\ mempool.total \in Nat /\ consumed \in Nat /\ consumed <= mempool.total
      /\ Len(mempool.recent) \in Nat
  BY DEF TrainingTypes, ShaperInv
<1> QED
  BY <1>1 DEF NewRewards

\* The last n entries of the window that record_rewards_from_event keeps.
LEMMA RewardsPaid ==
    ASSUME NEW recent \in Seq(Nat), NEW n \in 0 .. Len(recent)
    PROVE  /\ Tail_n(recent, n) \in Seq(Nat) /\ Len(Tail_n(recent, n)) = n
           /\ \A i \in 1 .. n : Tail_n(recent, n)[i] = recent[Len(recent) - n + i]
<1>1. Len(recent) \in Nat /\ Len(recent) - n + 1 \in 1 .. Len(recent) + 1
  OBVIOUS
<1>2. /\ SubSeq(recent, Len(recent) - n + 1, Len(recent)) \in Seq(Nat)
      /\ Len(SubSeq(recent, Len(recent) - n + 1, Len(recent))) = n
      /\ \A i \in 1 .. n : SubSeq(recent, Len(recent) - n + 1, Len(recent))[i] = recent[Len(recent) - n + i]
  BY <1>1, SubSeqProperties
<1> QED
  BY <1>2 DEF Tail_n

\* Every step of the task, of its thread and of the bus keeps the types.
LEMMA TrainingTypesStep ==
    ASSUME TrainingInv, TrainingNext
    PROVE  TrainingTypes'
<1> USE TrainingConstants DEF TrainingTypes
<1>0. TrainingTypes /\ ShaperInv
  BY DEF TrainingInv
<1>1. CASE StartTraining \/ StopTraining
  BY <1>0, <1>1 DEF StartTraining, StopTraining, TrainerVars
<1>2. CASE BeginIteration
  BY <1>0, <1>2 DEF BeginIteration
<1>3. CASE ThreadJoined
  BY <1>0, <1>3 DEF ThreadJoined, Out
<1>4. CASE Shutdown
  BY <1>0, <1>4 DEF Shutdown, StoppedParts, TrainerVars
<1>5. CASE ShaperCounts
  BY <1>0, <1>5, RewardsCounted DEF ShaperCounts
<1>6. CASE ShaperPays
  <2>1. thread.take \in 0 .. Len(mempool.recent) /\ mempool.recent \in Seq(Nat)
    BY <1>0, <1>6 DEF ShaperPays, ShaperInv
  <2>2. credited' \in Seq(Nat)
    BY <1>0, <1>6, <2>1, RewardsPaid DEF ShaperPays
  <2> QED
    BY <1>0, <1>6, <2>2 DEF ShaperPays
<1>7. CASE FinishIteration
  <2>1. UpTo(history, iteration)
    BY DEF TrainingInv, CurveIsConsecutive, UpTo
  <2>2. AppendBounded(history, iteration + 1, HistoryMax) \in Seq(Nat)
    BY <1>0, <2>1, AppendedUpTo
  <2> QED
    <3>1. iteration' \in Nat /\ history' \in Seq(Nat)
      BY <1>0, <1>7, <2>2 DEF FinishIteration, Sample
    <3>2. thread' \in [at : {"out", "rollout", "tail", "done", "failed"}, take : Nat]
      BY <1>0, <1>7 DEF FinishIteration
    <3> QED
      BY <1>0, <1>7, <3>1, <3>2 DEF FinishIteration
<1>8. CASE FailIteration
  BY <1>0, <1>8 DEF FailIteration
<1>9. CASE AppendReward
  <2>1. UpTo(mempool.recent, mempool.total) /\ mempool.recent \in Seq(Nat) /\ mempool.total \in Nat
    BY <1>0, <1>9 DEF AppendReward, LoopRuns, TrainingInv, MempoolInv, Appended
  <2>2. AppendBounded(mempool.recent, mempool.total + 1, RewardCap) \in Seq(Nat)
    BY <2>1, AppendedUpTo
  <2> QED
    BY <1>0, <1>9, <2>2 DEF AppendReward, TrainerVars
<1>10. CASE CountReward
  <2>1. mempool.total + 1 \in Nat
    BY <1>0
  <2>2. [mempool EXCEPT !.total = @ + 1] \in [total : Nat, recent : Seq(Nat)]
    BY <1>0, <2>1
  <2> QED
    BY <1>0, <1>10, <2>2 DEF CountReward, TrainerVars
<1> QED
  BY <1>1, <1>2, <1>3, <1>4, <1>5, <1>6, <1>7, <1>8, <1>9, <1>10 DEF TrainingNext

\* Iterations do not overlap, and shutting down an idle trainer shuts down everything.
LEMMA TaskStep ==
    ASSUME TrainingTypes, OneIterationAtATime, IdleTrainerStopsCleanly, TrainingNext
    PROVE  OneIterationAtATime' /\ IdleTrainerStopsCleanly'
<1> USE DEF TrainingTypes, OneIterationAtATime, IdleTrainerStopsCleanly, LoopRuns
<1>1. CASE StartTraining \/ StopTraining
  BY <1>1 DEF StartTraining, StopTraining, TrainerVars
<1>2. CASE BeginIteration
  BY <1>2 DEF BeginIteration
<1>3. CASE ThreadJoined
  BY <1>3 DEF ThreadJoined, Out
<1>4. CASE Shutdown
  BY <1>4 DEF Shutdown, StoppedParts, TrainerVars
<1>5. CASE ShaperCounts \/ ShaperPays
  BY <1>5 DEF ShaperCounts, ShaperPays
<1>6. CASE FinishIteration \/ FailIteration
  BY <1>6 DEF FinishIteration, FailIteration
<1>7. CASE AppendReward \/ CountReward
  BY <1>7 DEF AppendReward, CountReward, TrainerVars
<1> QED
  BY <1>1, <1>2, <1>3, <1>4, <1>5, <1>6, <1>7 DEF TrainingNext

\* An iteration that finishes appends the next number; the curve forgets its oldest only.
LEMMA CurveStep ==
    ASSUME TrainingTypes, CurveIsConsecutive, TrainingNext
    PROVE  CurveIsConsecutive'
<1>1. CASE FinishIteration
  <2>1. /\ iteration \in Nat /\ history \in Seq(Nat) /\ UpTo(history, iteration)
        /\ iteration' = iteration + 1
        /\ history' = AppendBounded(history, iteration + 1, HistoryMax)
    BY <1>1 DEF TrainingTypes, CurveIsConsecutive, UpTo, FinishIteration, Sample
  <2>2. UpTo(history', iteration')
    BY <2>1, AppendedUpTo, TrainingConstants
  <2> QED
    BY <2>2 DEF CurveIsConsecutive, UpTo
<1>2. CASE ~FinishIteration
  <2>1. history' = history /\ iteration' = iteration
    BY <1>2 DEF TrainingNext, StartTraining, StopTraining, BeginIteration, ThreadJoined, Shutdown,
                ShaperCounts, ShaperPays, FailIteration, AppendReward, CountReward, TrainerVars
  <2> QED
    BY <2>1 DEF CurveIsConsecutive
<1> QED
  BY <1>1, <1>2

\* A delivery counts one event and appends it to the window, which stays in order.
LEMMA MempoolStep ==
    ASSUME TrainingTypes, MempoolInv, TrainingNext
    PROVE  MempoolInv' /\ Len(mempool.recent) <= Len(mempool'.recent)
<1>0. /\ mempool.total \in Nat /\ mempool.recent \in Seq(Nat) /\ Len(mempool.recent) \in Nat
      /\ UpTo(mempool.recent, Appended)
      /\ Len(mempool.recent) = IF Appended < RewardCap THEN Appended ELSE RewardCap
  BY DEF TrainingTypes, MempoolInv
<1>1. CASE AppendReward
  <2> DEFINE longer == AppendBounded(mempool.recent, mempool.total + 1, RewardCap)
  <2>1. Appended = mempool.total /\ Appended' = mempool.total + 1 /\ mempool'.recent = longer
    BY <1>0, <1>1 DEF AppendReward, LoopRuns, Appended, TrainingTypes
  <2>2. /\ UpTo(longer, mempool.total + 1)
        /\ Len(longer) = IF Len(mempool.recent) + 1 > RewardCap THEN Len(mempool.recent)
                         ELSE Len(mempool.recent) + 1
    BY <1>0, <2>1, AppendedUpTo, TrainingConstants
  <2> HIDE DEF longer
  <2>3. Len(mempool'.recent) = IF mempool.total + 1 < RewardCap THEN mempool.total + 1 ELSE RewardCap
    BY <1>0, <2>1, <2>2, TrainingConstants
  <2> QED
    BY <1>0, <2>1, <2>2, <2>3 DEF MempoolInv, UpTo
<1>2. CASE CountReward
  <2>1. Appended' = Appended /\ mempool'.recent = mempool.recent
    BY <1>0, <1>2 DEF CountReward, Appended, TrainingTypes
  <2> QED
    BY <1>0, <2>1 DEF MempoolInv, UpTo
<1>3. CASE ~AppendReward /\ ~CountReward
  <2>1. mempool' = mempool /\ delivering' = delivering
    BY <1>3 DEF TrainingNext, StartTraining, StopTraining, BeginIteration, ThreadJoined, Shutdown,
                ShaperCounts, ShaperPays, FinishIteration, FailIteration
  <2> QED
    BY <1>0, <2>1 DEF MempoolInv, UpTo, Appended
<1> QED
  BY <1>1, <1>2, <1>3

\* The two states of the shaper, without a race.
LEMMA NothingOwed ==
    ASSUME TrainingTypes, ShaperInv, thread.at # "tail", ~raced
    PROVE  /\ \A i \in DOMAIN credited : credited[i] <= consumed
           /\ \A i, j \in DOMAIN credited : i < j => credited[i] < credited[j]
           /\ consumed <= RewardCap => Len(credited) = consumed
BY DEF TrainingTypes, ShaperInv, Owed

\* In the tail of an iteration no delivery is half done, and what is being credited was counted.
LEMMA TailOwed ==
    ASSUME TrainingTypes, ShaperInv, thread.at = "tail", ~raced
    PROVE  /\ ~delivering /\ consumed = mempool.total
           /\ \A i \in DOMAIN credited : credited[i] <= consumed - thread.take
           /\ \A i, j \in DOMAIN credited : i < j => credited[i] < credited[j]
           /\ consumed <= RewardCap => Len(credited) + thread.take = consumed
BY DEF TrainingTypes, ShaperInv, Owed

\* No step credits an event twice or out of order, whatever it interleaves with.
LEMMA ShaperStep ==
    ASSUME TrainingInv, TrainingNext
    PROVE  ShaperInv'
<1>0. TrainingTypes /\ MempoolInv /\ ShaperInv /\ OneIterationAtATime
  BY DEF TrainingInv
<1>a. /\ consumed \in Nat /\ mempool.total \in Nat /\ credited \in Seq(Nat) /\ Len(credited) \in Nat
      /\ mempool.recent \in Seq(Nat) /\ Len(mempool.recent) \in Nat /\ thread.take \in Nat
      /\ raced \in BOOLEAN /\ Owed \in Nat /\ \A i \in DOMAIN credited : credited[i] \in Nat
  BY <1>0 DEF TrainingTypes, Owed
<1>1. CASE ShaperCounts
  <2> DEFINE n == NewRewards
  <2>1. /\ n \in Nat /\ n <= Len(mempool.recent) /\ n <= mempool.total - consumed
        /\ n = mempool.total - consumed \/ n = Len(mempool.recent)
    BY <1>0, RewardsCounted
  <2>2. /\ thread.at = "rollout" /\ Owed = 0
        /\ consumed' = mempool.total /\ credited' = credited /\ mempool' = mempool
        /\ raced' = (raced \/ delivering) /\ delivering' = delivering
    BY <1>1 DEF ShaperCounts, Owed
  <2>3. Owed' = n
    BY <1>1 DEF ShaperCounts, Owed
  <2>4. thread'.at = "tail" => thread'.take = n
    BY <1>1 DEF ShaperCounts
  <2> HIDE DEF n
  <2>5. ASSUME ~raced', consumed' <= RewardCap
        PROVE  Len(credited') + Owed' = consumed'
    <3>1. ~raced /\ ~delivering
      BY <2>2, <2>5
    <3>2. Len(mempool.recent) = mempool.total
      BY <1>0, <1>a, <2>2, <2>5, <3>1, TrainingConstants DEF MempoolInv, Appended
    <3>3. Len(credited) = consumed /\ consumed <= mempool.total
      BY <1>0, <1>a, <2>2, <2>5, <3>1, TrainingConstants DEF ShaperInv
    <3>4. Len(credited') + Owed' = Len(credited) + n /\ consumed' = mempool.total
      BY <2>2, <2>3
    <3>5. n = mempool.total - consumed
      BY <1>a, <2>1, <3>2, <3>3
    <3> QED
      BY <1>a, <3>3, <3>4, <3>5
  <2>6. ASSUME ~raced'
        PROVE  /\ \A i \in DOMAIN credited' : credited'[i] <= consumed' - Owed'
               /\ \A i, j \in DOMAIN credited' : i < j => credited'[i] < credited'[j]
               /\ ~delivering' /\ consumed' = mempool'.total
    <3>1. /\ ~raced /\ ~delivering
          /\ \A i \in DOMAIN credited : credited[i] <= consumed
          /\ \A i, j \in DOMAIN credited : i < j => credited[i] < credited[j]
      <4>1. ~raced /\ ~delivering
        BY <2>2, <2>6
      <4> QED
        BY <1>0, <2>2, <4>1, NothingOwed
    <3>2. consumed <= mempool.total - n
      BY <1>a, <2>1
    <3>3. \A i \in DOMAIN credited : credited[i] <= mempool.total - n
      BY <1>a, <2>1, <3>1, <3>2
    <3> QED
      BY <2>2, <2>3, <3>1, <3>3
  <2>7. Len(credited') + Owed' <= consumed' /\ consumed' <= mempool'.total
    BY <1>0, <1>a, <2>1, <2>2, <2>3 DEF ShaperInv
  <2> QED
    BY <2>1, <2>2, <2>4, <2>5, <2>6, <2>7 DEF ShaperInv
<1>2. CASE ShaperPays
  <2> DEFINE paid == Tail_n(mempool.recent, thread.take)
  <2>1. /\ thread.at = "tail" /\ thread'.at = "rollout" /\ credited' = credited \o paid
        /\ UNCHANGED <<mempool, delivering, consumed, raced>>
        /\ Owed = thread.take /\ Owed' = 0
    BY <1>0, <1>2 DEF ShaperPays, Owed, TrainingTypes
  <2>2. thread.take \in 0 .. Len(mempool.recent)
    BY <1>0, <1>a, <2>1 DEF ShaperInv
  <2>3. /\ paid \in Seq(Nat) /\ Len(paid) = thread.take
        /\ \A i \in 1 .. thread.take : paid[i] = mempool.recent[Len(mempool.recent) - thread.take + i]
    BY <1>a, <2>2, RewardsPaid
  <2> HIDE DEF paid
  <2>4. /\ Len(credited') = Len(credited) + thread.take /\ credited' \in Seq(Nat)
        /\ \A i \in 1 .. Len(credited) : credited'[i] = credited[i]
        /\ \A i \in 1 .. thread.take : credited'[Len(credited) + i] = paid[i]
    <3>1. /\ credited \o paid \in Seq(Nat) /\ Len(credited \o paid) = Len(credited) + Len(paid)
          /\ \A i \in 1 .. Len(credited) + Len(paid) :
               (credited \o paid)[i] = IF i <= Len(credited) THEN credited[i] ELSE paid[i - Len(credited)]
      BY <1>a, <2>3, ConcatProperties
    <3>2. ASSUME NEW i \in 1 .. Len(credited)
          PROVE  (credited \o paid)[i] = credited[i]
      BY <1>a, <2>3, <3>1
    <3>3. ASSUME NEW i \in 1 .. Len(paid)
          PROVE  (credited \o paid)[Len(credited) + i] = paid[i]
      <4>1. Len(credited) + i \in 1 .. Len(credited) + Len(paid) /\ ~(Len(credited) + i <= Len(credited))
        BY <1>a, <2>3
      <4>2. Len(credited) + i - Len(credited) = i
        BY <1>a
      <4> QED
        BY <3>1, <4>1, <4>2
    <3> QED
      BY <2>1, <2>3, <3>1, <3>2, <3>3
  <2>5. ASSUME ~raced'
        PROVE  /\ \A i \in DOMAIN credited' : credited'[i] <= consumed'
               /\ \A i, j \in DOMAIN credited' : i < j => credited'[i] < credited'[j]
    <3>1. /\ ~raced /\ ~delivering /\ consumed = mempool.total
          /\ \A i \in 1 .. Len(credited) : credited[i] <= consumed - thread.take
          /\ \A i, j \in 1 .. Len(credited) : i < j => credited[i] < credited[j]
      <4>1. ~raced
        BY <2>1, <2>5
      <4>2. /\ ~delivering /\ consumed = mempool.total
            /\ \A i \in DOMAIN credited : credited[i] <= consumed - thread.take
            /\ \A i, j \in DOMAIN credited : i < j => credited[i] < credited[j]
        BY <1>0, <2>1, <4>1, TailOwed
      <4>3. DOMAIN credited = 1 .. Len(credited)
        BY <1>a
      <4> QED
        BY <4>1, <4>2, <4>3
    <3>2. \A i \in 1 .. thread.take : credited'[Len(credited) + i] = consumed - thread.take + i
      <4> TAKE i \in 1 .. thread.take
      <4>1. Len(mempool.recent) - thread.take + i \in 1 .. Len(mempool.recent)
        <5> DEFINE recent == Len(mempool.recent)
                   take == thread.take
        <5>1. recent \in Nat /\ take \in 0 .. recent /\ i \in 1 .. take
          BY <1>a, <2>2
        <5> HIDE DEF recent, take
        <5>2. recent - take + i \in 1 .. recent
          BY <5>1
        <5> QED
          BY <5>2 DEF recent, take
      <4>2. mempool.recent[Len(mempool.recent) - thread.take + i]
              = mempool.total - Len(mempool.recent) + (Len(mempool.recent) - thread.take + i)
        <5>1. Appended = mempool.total
          BY <1>a, <3>1 DEF Appended
        <5>2. \A k \in 1 .. Len(mempool.recent) :
                mempool.recent[k] = mempool.total - Len(mempool.recent) + k
          BY <1>0, <1>a, <5>1 DEF MempoolInv, UpTo
        <5> QED
          BY <4>1, <5>2
      <4> QED
        <5>1. credited'[Len(credited) + i] = mempool.recent[Len(mempool.recent) - thread.take + i]
          BY <2>3, <2>4
        <5>2. thread.take \in Int /\ Len(mempool.recent) \in Int /\ mempool.total \in Int
          BY <1>a
        <5>3. mempool.total - Len(mempool.recent) + (Len(mempool.recent) - thread.take + i)
                = mempool.total - thread.take + i
          BY <5>2
        <5> QED
          BY <3>1, <4>2, <5>1, <5>3
    <3>3. \A i \in DOMAIN credited' :
            \/ i \in 1 .. Len(credited)
            \/ /\ i - Len(credited) \in 1 .. thread.take
               /\ credited'[i] = consumed - thread.take + (i - Len(credited))
      <4> TAKE i \in DOMAIN credited'
      <4>1. i \in 1 .. Len(credited) + thread.take
        BY <2>4
      <4>2. i \in 1 .. Len(credited) \/ i - Len(credited) \in 1 .. thread.take
        BY <1>a, <4>1
      <4>3. i = Len(credited) + (i - Len(credited))
        BY <1>a, <4>1
      <4> QED
        <5>1. CASE i - Len(credited) \in 1 .. thread.take
          <6>1. credited'[Len(credited) + (i - Len(credited))] = consumed - thread.take + (i - Len(credited))
            BY <3>2, <5>1
          <6> QED
            BY <4>3, <5>1, <6>1
        <5> QED
          <6>1. CASE i \in 1 .. Len(credited)
            BY <6>1
          <6>2. CASE i - Len(credited) \in 1 .. thread.take
            BY <5>1, <6>2
          <6> QED
            BY <4>2, <6>1, <6>2
    <3>4. DOMAIN credited' \subseteq Int
      BY <2>4
    <3> QED
      <4>1. consumed \in Nat /\ consumed' = consumed
        BY <1>a, <2>1
      <4> DEFINE old(i) == i \in 1 .. Len(credited) /\ credited'[i] <= consumed - thread.take /\ credited'[i] \in Nat
                 new(i) == /\ i - Len(credited) \in 1 .. thread.take
                           /\ credited'[i] = consumed - thread.take + (i - Len(credited))
      <4>2. \A i \in DOMAIN credited' : old(i) \/ new(i)
        <5>1. \A i \in 1 .. Len(credited) : old(i)
          <6> TAKE i \in 1 .. Len(credited)
          <6>1. credited'[i] = credited[i]
            BY <2>4
          <6>2. credited'[i] \in Nat
            <7>1. i \in DOMAIN credited
              BY <1>a
            <7> QED
              BY <1>a, <6>1, <7>1
          <6> QED
            BY <3>1, <6>1, <6>2
        <5> HIDE DEF old
        <5> QED
          BY <3>3, <5>1
      <4>3. \A i \in DOMAIN credited' : credited'[i] <= consumed
        BY <1>a, <3>4, <4>1, <4>2
      <4>4. ASSUME NEW i \in DOMAIN credited', NEW j \in DOMAIN credited', i < j
            PROVE  credited'[i] < credited'[j]
        <5>1. CASE old(i) /\ old(j)
          BY <2>4, <3>1, <4>4, <5>1
        <5>2. CASE old(i) /\ new(j)
          BY <1>a, <3>4, <4>1, <5>2
        <5>3. CASE new(i) /\ new(j)
          BY <1>a, <3>4, <4>1, <4>4, <5>3
        <5>4. CASE new(i) /\ old(j)
          BY <1>a, <3>4, <4>4, <5>4
        <5> QED
          BY <4>2, <5>1, <5>2, <5>3, <5>4
      <4> QED
        BY <4>1, <4>3, <4>4
  <2>6. /\ Len(credited') + Owed' <= consumed' /\ consumed' <= mempool'.total
        /\ ~raced' /\ consumed' <= RewardCap => Len(credited') + Owed' = consumed'
    BY <1>0, <1>a, <2>1, <2>4 DEF ShaperInv
  <2>7. \A i \in DOMAIN credited' : credited'[i] \in Nat
    BY <2>4
  <2>8. \A i \in DOMAIN credited' : ~raced' => credited'[i] <= consumed' - Owed'
    BY <1>a, <2>1, <2>5, <2>7
  <2> QED
    BY <2>1, <2>5, <2>6, <2>8 DEF ShaperInv
<1>3. CASE AppendReward \/ CountReward
  <2>1. /\ UNCHANGED <<thread, consumed, credited>> /\ Owed' = Owed
        /\ mempool'.total \in Nat /\ mempool'.total >= mempool.total
        /\ Len(mempool.recent) <= Len(mempool'.recent)
    <3>1. UNCHANGED <<thread, consumed, credited>>
      BY <1>3 DEF AppendReward, CountReward, TrainerVars
    <3>2. mempool'.total = mempool.total \/ mempool'.total = mempool.total + 1
      BY <1>0, <1>3 DEF AppendReward, CountReward, TrainingTypes
    <3>3. Owed' = Owed
      BY <3>1 DEF Owed
    <3>4. Len(mempool.recent) <= Len(mempool'.recent)
      BY <1>0, MempoolStep
    <3> QED
      BY <1>a, <3>1, <3>2, <3>3, <3>4
  <2>2. ~raced' => ~raced /\ thread.at # "tail"
    BY <1>0, <1>3 DEF AppendReward, CountReward, ShaperInv
  <2>3. Len(mempool'.recent) \in Nat
    BY TrainingTypesStep DEF TrainingTypes
  <2>4. consumed' <= mempool'.total
    BY <1>0, <1>a, <2>1 DEF ShaperInv
  <2>5. thread'.at = "tail" => thread'.take <= Len(mempool'.recent)
    BY <1>0, <1>a, <2>1, <2>3 DEF ShaperInv
  <2>6. thread'.at # "tail" \/ raced'
    BY <2>1, <2>2
  <2>7. /\ Len(credited') + Owed' <= consumed'
        /\ ~raced' =>
             /\ \A i \in DOMAIN credited' : credited'[i] <= consumed' - Owed'
             /\ \A i, j \in DOMAIN credited' : i < j => credited'[i] < credited'[j]
             /\ consumed' <= RewardCap => Len(credited') + Owed' = consumed'
    BY <1>0, <2>1, <2>2 DEF ShaperInv
  <2> QED
    BY <2>4, <2>5, <2>6, <2>7 DEF ShaperInv
<1>4. CASE ~ShaperCounts /\ ~ShaperPays /\ ~AppendReward /\ ~CountReward
  <2>1. UNCHANGED <<mempool, delivering, consumed, credited, raced>>
    BY <1>4 DEF TrainingNext, StartTraining, StopTraining, BeginIteration, ThreadJoined, Shutdown,
                FinishIteration, FailIteration, TrainerVars
  <2>2. /\ Owed' = Owed \/ (thread'.at # "tail" /\ thread.at # "tail")
        /\ thread'.at = "tail" => thread' = thread
    BY <1>0, <1>4 DEF TrainingNext, StartTraining, StopTraining, BeginIteration, ThreadJoined, Shutdown,
                FinishIteration, FailIteration, TrainerVars, Owed, TrainingTypes, Out, OneIterationAtATime, LoopRuns
  <2>3. Owed' = Owed
    BY <2>2 DEF Owed
  <2> QED
    BY <1>0, <1>a, <2>1, <2>2, <2>3 DEF ShaperInv
<1> QED
  BY <1>1, <1>2, <1>3, <1>4

\* The parts of the invariant together.
LEMMA TrainingSteps ==
    ASSUME TrainingInv, [TrainingNext]_trainingVars
    PROVE  TrainingInv'
<1>1. CASE TrainingNext
  BY <1>1, TrainingTypesStep, TaskStep, CurveStep, MempoolStep, ShaperStep DEF TrainingInv
<1>2. CASE UNCHANGED trainingVars
  <2> USE <1>2 DEF trainingVars, TrainingInv
  <2>1. TrainingTypes'
    BY DEF TrainingTypes
  <2>2. OneIterationAtATime' /\ IdleTrainerStopsCleanly' /\ CurveIsConsecutive'
    BY DEF OneIterationAtATime, IdleTrainerStopsCleanly, CurveIsConsecutive, LoopRuns
  <2>3. MempoolInv'
    BY DEF MempoolInv, UpTo, Appended
  <2>4. ShaperInv'
    <3>1. Owed' = Owed
      BY DEF Owed
    <3> QED
      BY <3>1 DEF ShaperInv
  <2> QED
    BY <2>1, <2>2, <2>3, <2>4
<1> QED
  BY <1>1, <1>2

\* The invariant contains the property.
LEMMA TrainingInvSound == TrainingInv => TrainingSound
<1> SUFFICES ASSUME TrainingInv
             PROVE  TrainingSound
  OBVIOUS
<1>1. /\ consumed \in Nat /\ mempool.total \in Nat /\ Len(credited) \in Nat /\ thread.take \in Nat
      /\ ShaperInv
  BY DEF TrainingInv, TrainingTypes
<1>2. NoMoreCreditsThanDeliveries
  BY <1>1 DEF ShaperInv, Owed, NoMoreCreditsThanDeliveries
<1>3. EachDeliveryPaidOnce
  BY <1>1 DEF ShaperInv, Owed, EachDeliveryPaidOnce
<1> QED
  BY <1>2, <1>3 DEF TrainingInv, TrainingSound

\* However training is started, stopped, cancelled and raises, with any capacity of the deque and of
\* the history: iterations do not overlap, their curve has no gap, the shaper pays for no delivery
\* twice, and shutting down an idle trainer shuts down everything (LiveTrainer, LogisticsRewardShaper).
THEOREM TrainingSoundHolds == Spec => []TrainingSound
<1>1. Init => TrainingInv
  BY TrainingStarts DEF Init
<1>2. TrainingInv /\ [Next]_vars => TrainingInv'
  BY Parts, TrainingSteps
<1>3. TrainingInv => TrainingSound
  BY TrainingInvSound
<1> QED
  BY <1>1, <1>2, <1>3, PTL DEF Spec

----------------------------------------------------------------------------
(* The blocks                                                              *)

\* What is assumed of the cool-off, of the window and of the dates that callers inject.
LEMMA BlocksConstants ==
    /\ Threshold \in Nat /\ Cooloff \in Nat /\ Cooloff > 0 /\ HistoryCap \in Nat /\ HistoryCap > 0
    /\ Window \in Nat /\ InjectDates \subseteq Nat
BY AgentBlocksAssumption

Notice == [by : {"keystore", "inject"}, agent : Agents, at : Nat, until : Nat]

BlocksTypes ==
    /\ now \in Nat /\ rejections \in [Agents -> Seq(Nat)] /\ notices \in Seq(Notice)
    /\ DOMAIN blockedUntil \subseteq Agents /\ \A a \in DOMAIN blockedUntil : blockedUntil[a] \in Nat
    /\ DOMAIN pendingUnblocks \subseteq Agents
    /\ \A a \in DOMAIN pendingUnblocks : pendingUnblocks[a] \in Nat

\* The date that an agent waits for is the one of its latest block.
LatestDates ==
    \A a \in DOMAIN pendingUnblocks :
      \E i \in DOMAIN notices :
        /\ notices[i].agent = a /\ \A j \in DOMAIN notices : notices[j].agent = a => j <= i
        /\ pendingUnblocks[a] = notices[i].until

\* The keystore's own date never goes back, whatever the tick does.
KeystoreDates ==
    \A i \in DOMAIN notices :
      notices[i].by = "keystore" =>
        /\ notices[i].agent \in DOMAIN blockedUntil
        /\ notices[i].until <= blockedUntil[notices[i].agent]

BlocksInv == BlocksTypes /\ BlocksHaveDates /\ LatestDates /\ KeystoreDates /\ OneBlockPerCooloff

\* The subsets of a finite set have every size up to its own.
LEMMA SubsetOfSize ==
    ASSUME NEW S, IsFiniteSet(S), NEW n \in Nat, n <= Cardinality(S)
    PROVE  \E T \in SUBSET S : Cardinality(T) = n
<1>1. Cardinality(S) \in Nat /\ ExistsBijection(1 .. Cardinality(S), S)
  BY FS_CardinalityType
<1>2. PICK f : f \in Bijection(1 .. Cardinality(S), S)
  BY <1>1 DEF ExistsBijection
<1> DEFINE T == {f[i] : i \in 1 .. n}
           g == [i \in 1 .. n |-> f[i]]
<1>3. 1 .. n \subseteq 1 .. Cardinality(S)
  BY <1>1
<1>4. /\ f \in [1 .. Cardinality(S) -> S]
      /\ \A i, j \in 1 .. Cardinality(S) : f[i] = f[j] => i = j
  BY <1>2 DEF Bijection, Injection, IsInjective
<1>5. T \in SUBSET S /\ g \in [1 .. n -> T]
  BY <1>3, <1>4
<1>6. g \in Bijection(1 .. n, T)
  BY <1>3, <1>4, <1>5 DEF Bijection, Injection, IsInjective, Surjection
<1>7. IsFiniteSet(1 .. n) /\ Cardinality(1 .. n) = n
  <2>1. 1 \in Int /\ n \in Int
    OBVIOUS
  <2> QED
    BY <2>1, FS_Interval
<1>8. Cardinality(T) = n
  BY <1>6, <1>7, FS_Bijection DEF ExistsBijection
<1> QED
  BY <1>5, <1>8

\* A bounded deque of numbers stays one.
LEMMA BoundedHistory ==
    ASSUME NEW seq \in Seq(Nat), NEW e \in Nat, NEW n \in Nat
    PROVE  AppendBounded(seq, e, n) \in Seq(Nat)
<1> DEFINE all == Append(seq, e)
<1>1. all \in Seq(Nat) /\ all # <<>>
  BY AppendProperties
<1>2. Tail(all) \in Seq(Nat)
  BY <1>1
<1> QED
  BY <1>1, <1>2 DEF AppendBounded

\* A block is written down, and market, trainer and calendar learn of it.
LEMMA Blocked ==
    ASSUME BlocksInv, NEW by \in {"keystore", "inject"}, NEW a \in Agents, NEW until \in Nat,
           OnAgentBlocked(by, a, until), slashedIds' = slashedIds
    PROVE  /\ notices' \in Seq(Notice) /\ Len(notices') = Len(notices) + 1
           /\ \A i \in 1 .. Len(notices) : notices'[i] = notices[i]
           /\ notices'[Len(notices) + 1] = [by |-> by, agent |-> a, at |-> now, until |-> until]
           /\ DOMAIN pendingUnblocks' = DOMAIN pendingUnblocks \cup {a}
           /\ DOMAIN pendingUnblocks' \subseteq Agents
           /\ \A x \in DOMAIN pendingUnblocks' : pendingUnblocks'[x] \in Nat
           /\ BlocksHaveDates' /\ LatestDates'
<1>1. notices \in Seq(Notice) /\ now \in Nat /\ Len(notices) \in Nat
  BY DEF BlocksInv, BlocksTypes
<1> DEFINE new == [by |-> by, agent |-> a, at |-> now, until |-> until]
<1>2. new \in Notice /\ new.agent = a /\ new.until = until
  BY <1>1 DEF Notice
<1>3. notices' = Append(notices, new) /\ pendingUnblocks' = Bind(pendingUnblocks, a, until)
  BY DEF OnAgentBlocked, Dated
<1> HIDE DEF new
<1>4. /\ notices' \in Seq(Notice) /\ Len(notices') = Len(notices) + 1
      /\ \A i \in 1 .. Len(notices) : notices'[i] = notices[i]
      /\ notices'[Len(notices) + 1] = new
  BY <1>1, <1>2, <1>3
<1>5. /\ DOMAIN pendingUnblocks' = DOMAIN pendingUnblocks \cup {a} /\ pendingUnblocks'[a] = until
      /\ \A x \in DOMAIN pendingUnblocks : x # a => pendingUnblocks'[x] = pendingUnblocks[x]
  BY <1>3 DEF Bind
<1>6. /\ DOMAIN pendingUnblocks' \subseteq Agents
      /\ \A x \in DOMAIN pendingUnblocks' : pendingUnblocks'[x] \in Nat
  BY <1>5 DEF BlocksInv, BlocksTypes
<1>7. BlocksHaveDates'
  <2>1. /\ marketBlocked' = marketBlocked \cup {a} /\ trainerBlocked' = trainerBlocked \cup {a}
    BY DEF OnAgentBlocked
  <2> QED
    BY <1>5, <2>1 DEF BlocksInv, BlocksHaveDates
<1>8. LatestDates'
  <2> DEFINE n == Len(notices) + 1
  <2>1. DOMAIN notices' = 1 .. n /\ n \in Nat /\ n >= 1 /\ \A i \in 1 .. n : i \in 1 .. Len(notices) \/ i = n
    BY <1>1, <1>4
  <2>2. notices'[n].agent = a /\ notices'[n].until = until
    BY <1>2, <1>4
  <2>3. DOMAIN notices = 1 .. Len(notices)
    BY <1>1
  <2> HIDE DEF n
  <2> SUFFICES ASSUME NEW x \in DOMAIN pendingUnblocks'
               PROVE  \E i \in DOMAIN notices' :
                        /\ notices'[i].agent = x
                        /\ \A j \in DOMAIN notices' : notices'[j].agent = x => j <= i
                        /\ pendingUnblocks'[x] = notices'[i].until
    BY DEF LatestDates
  <2>4. CASE x = a
    <3>1. n \in 1 .. n /\ \A j \in 1 .. n : j <= n
      BY <2>1
    <3> QED
      BY <1>5, <2>1, <2>2, <2>4, <3>1
  <2>5. CASE x # a
    <3>1. PICK i \in 1 .. Len(notices) :
            /\ notices[i].agent = x
            /\ \A j \in 1 .. Len(notices) : notices[j].agent = x => j <= i
            /\ pendingUnblocks[x] = notices[i].until
      BY <1>5, <2>3, <2>5 DEF BlocksInv, LatestDates
    <3>2. i \in 1 .. n
      BY <1>1, <2>1 DEF n
    <3>3. \A j \in 1 .. n : notices'[j].agent = x => j <= i
      BY <1>4, <2>1, <2>2, <2>5, <3>1
    <3> QED
      BY <1>4, <1>5, <2>1, <2>5, <3>1, <3>2, <3>3
  <2> QED
    BY <2>4, <2>5
<1> QED
  BY <1>4, <1>5, <1>6, <1>7, <1>8 DEF new

\* Nobody is blocked at the start.
LEMMA BlocksStart ==
    ASSUME BlocksInit
    PROVE  BlocksInv
BY DEF BlocksInit, BlocksInv, BlocksTypes, BlocksHaveDates, LatestDates, KeystoreDates, OneBlockPerCooloff

\* What a rejection does: nothing but remember it, or raise a block from now on.
LEMMA Rejected ==
    ASSUME BlocksInv, NEW a \in Agents, RejectMove(a)
    PROVE  /\ rejections' \in [Agents -> Seq(Nat)] /\ UNCHANGED <<now, slashedIds>>
           /\ \/ UNCHANGED <<blockedUntil, notices, pendingUnblocks, marketBlocked, trainerBlocked>>
              \/ /\ OnAgentBlocked("keystore", a, now + Cooloff)
                 /\ blockedUntil' = Bind(blockedUntil, a, now + Cooloff)
                 /\ a \in DOMAIN blockedUntil => blockedUntil[a] <= now
                 /\ RecentRejections(rejections'[a]) >= Threshold
<1> DEFINE longer == AppendBounded(rejections[a], now, HistoryCap)
<1>1. now \in Nat /\ rejections \in [Agents -> Seq(Nat)]
  BY DEF BlocksInv, BlocksTypes
<1>2. longer \in Seq(Nat)
  BY <1>1, BoundedHistory, BlocksConstants
<1>3. /\ rejections' = [rejections EXCEPT ![a] = longer]
      /\ UNCHANGED <<now, slashedIds>>
      /\ IF RecentRejections(longer) < Threshold \/ BlockRuns(a)
         THEN UNCHANGED <<blockedUntil, notices, pendingUnblocks, marketBlocked, trainerBlocked>>
         ELSE /\ blockedUntil' = Bind(blockedUntil, a, now + Cooloff)
              /\ OnAgentBlocked("keystore", a, now + Cooloff)
  BY DEF RejectMove
<1>4. RecentRejections(longer) \in Nat
  <2>1. IsFiniteSet(DOMAIN longer)
    <3>1. DOMAIN longer = 1 .. Len(longer) /\ 1 \in Int /\ Len(longer) \in Int
      BY <1>2
    <3> QED
      BY <3>1, FS_Interval
  <2>2. IsFiniteSet({i \in DOMAIN longer : longer[i] >= now - Window})
    BY <2>1, FS_Subset
  <2> QED
    BY <2>2, FS_CardinalityType DEF RecentRejections
<1> HIDE DEF longer
<1>5. rejections' \in [Agents -> Seq(Nat)] /\ rejections'[a] = longer
  BY <1>1, <1>2, <1>3
<1>6. ~BlockRuns(a) => (a \in DOMAIN blockedUntil => blockedUntil[a] <= now)
  <2>1. a \in DOMAIN blockedUntil => blockedUntil[a] \in Nat
    BY DEF BlocksInv, BlocksTypes
  <2> QED
    BY <1>1, <2>1 DEF BlockRuns, Get
<1>7. ~(RecentRejections(longer) < Threshold) => RecentRejections(longer) >= Threshold
  BY <1>4, BlocksConstants
<1> QED
  BY <1>3, <1>5, <1>6, <1>7

\* A block of the keystore starts when every earlier one of that agent is over.
LEMMA RejectedStep ==
    ASSUME BlocksInv, NEW a \in Agents, RejectMove(a)
    PROVE  BlocksInv'
<1>1. now \in Nat /\ now + Cooloff \in Nat /\ now' = now /\ slashedIds' = slashedIds
      /\ rejections' \in [Agents -> Seq(Nat)]
  BY Rejected, BlocksConstants DEF BlocksInv, BlocksTypes
<1>2. CASE UNCHANGED <<blockedUntil, notices, pendingUnblocks, marketBlocked, trainerBlocked>>
  BY <1>1, <1>2 DEF BlocksInv, BlocksTypes, BlocksHaveDates, LatestDates, KeystoreDates, OneBlockPerCooloff
<1>3. CASE /\ OnAgentBlocked("keystore", a, now + Cooloff)
           /\ blockedUntil' = Bind(blockedUntil, a, now + Cooloff)
           /\ a \in DOMAIN blockedUntil => blockedUntil[a] <= now
  <2> DEFINE n == Len(notices) + 1
  <2>1. /\ notices' \in Seq(Notice) /\ Len(notices') = n
        /\ \A i \in 1 .. Len(notices) : notices'[i] = notices[i]
        /\ notices'[n] = [by |-> "keystore", agent |-> a, at |-> now, until |-> now + Cooloff]
        /\ DOMAIN pendingUnblocks' \subseteq Agents
        /\ \A x \in DOMAIN pendingUnblocks' : pendingUnblocks'[x] \in Nat
        /\ BlocksHaveDates' /\ LatestDates'
    BY <1>1, <1>3, Blocked
  <2>2. /\ DOMAIN blockedUntil' = DOMAIN blockedUntil \cup {a} /\ blockedUntil'[a] = now + Cooloff
        /\ \A x \in DOMAIN blockedUntil : x # a => blockedUntil'[x] = blockedUntil[x]
    BY <1>3 DEF Bind
  <2>3. BlocksTypes'
    BY <1>1, <2>1, <2>2 DEF BlocksInv, BlocksTypes
  <2>4. /\ DOMAIN notices = 1 .. Len(notices) /\ DOMAIN notices' = 1 .. n
        /\ \A i \in 1 .. n : i \in 1 .. Len(notices) \/ i = n
        /\ \A i \in 1 .. Len(notices) : i < n /\ notices[i].until \in Nat
    <3>1. notices \in Seq(Notice) /\ Len(notices) \in Nat
      BY DEF BlocksInv, BlocksTypes
    <3>2. \A i \in 1 .. Len(notices) : notices[i] \in Notice
      BY <3>1
    <3>3. \A i \in 1 .. Len(notices) : notices[i].until \in Nat
      BY <3>2 DEF Notice
    <3>4. DOMAIN notices = 1 .. Len(notices) /\ DOMAIN notices' = 1 .. n
      BY <2>1, <3>1
    <3>5. /\ \A i \in 1 .. n : i \in 1 .. Len(notices) \/ i = n
          /\ \A i \in 1 .. Len(notices) : i < n
      BY <3>1
    <3> QED
      BY <3>3, <3>4, <3>5
  <2>5. /\ notices'[n].by = "keystore" /\ notices'[n].agent = a
        /\ notices'[n].at = now /\ notices'[n].until = now + Cooloff
    BY <2>1
  <2> HIDE DEF n
  <2>6. \A i \in 1 .. Len(notices) : notices[i].by = "keystore" /\ notices[i].agent = a
                                       => notices[i].until <= now
    <3>1. a \in DOMAIN blockedUntil => blockedUntil[a] \in Nat
      BY DEF BlocksInv, BlocksTypes
    <3> QED
      <4> SUFFICES ASSUME NEW i \in 1 .. Len(notices), notices[i].by = "keystore", notices[i].agent = a
                   PROVE  notices[i].until <= now
        OBVIOUS
      <4>1. a \in DOMAIN blockedUntil /\ notices[i].until <= blockedUntil[a]
        BY <2>4 DEF BlocksInv, KeystoreDates
      <4>2. blockedUntil[a] <= now /\ blockedUntil[a] \in Nat /\ notices[i].until \in Nat
        BY <1>3, <2>4, <3>1, <4>1
      <4> QED
        BY <1>1, <4>1, <4>2
  <2>7. KeystoreDates'
    <3> SUFFICES ASSUME NEW i \in 1 .. n, notices'[i].by = "keystore"
                 PROVE  /\ notices'[i].agent \in DOMAIN blockedUntil'
                        /\ notices'[i].until <= blockedUntil'[notices'[i].agent]
      BY <2>4 DEF KeystoreDates
    <3>1. CASE i = n
      BY <1>1, <2>2, <2>5, <3>1
    <3>2. CASE i \in 1 .. Len(notices) /\ notices[i].agent = a
      BY <1>1, <2>1, <2>2, <2>4, <2>6, <3>2, BlocksConstants
    <3>3. CASE i \in 1 .. Len(notices) /\ notices[i].agent # a
      BY <2>1, <2>2, <2>4, <3>3 DEF BlocksInv, KeystoreDates
    <3> QED
      BY <2>4, <3>1, <3>2, <3>3
  <2>8. OneBlockPerCooloff'
    <3> SUFFICES ASSUME NEW i \in 1 .. n, NEW j \in 1 .. n, i < j,
                        notices'[i].by = "keystore", notices'[j].by = "keystore",
                        notices'[i].agent = notices'[j].agent
                 PROVE  notices'[j].at >= notices'[i].until
      BY <2>4 DEF OneBlockPerCooloff
    <3>1. i \in 1 .. Len(notices)
      BY <2>4, <2>1 DEF n
    <3>2. CASE j = n
      BY <1>1, <2>1, <2>4, <2>5, <2>6, <3>1, <3>2
    <3>3. CASE j \in 1 .. Len(notices)
      BY <2>1, <2>4, <3>1, <3>3 DEF BlocksInv, OneBlockPerCooloff
    <3> QED
      BY <2>4, <3>2, <3>3
  <2> QED
    BY <2>1, <2>3, <2>7, <2>8 DEF BlocksInv
<1> QED
  BY <1>2, <1>3, Rejected

\* A block injected by the operator is a notice like any other.
LEMMA InjectedStep ==
    ASSUME BlocksInv, NEW a \in Agents, NEW until \in InjectDates, InjectBlock(a, until)
    PROVE  BlocksInv'
<1> DEFINE n == Len(notices) + 1
<1>1. /\ OnAgentBlocked("inject", a, until) /\ until \in Nat
      /\ UNCHANGED <<now, rejections, blockedUntil, slashedIds>>
  BY BlocksConstants DEF InjectBlock
<1>2. /\ notices' \in Seq(Notice) /\ Len(notices') = n
      /\ \A i \in 1 .. Len(notices) : notices'[i] = notices[i]
      /\ notices'[n] = [by |-> "inject", agent |-> a, at |-> now, until |-> until]
      /\ DOMAIN pendingUnblocks' \subseteq Agents
      /\ \A x \in DOMAIN pendingUnblocks' : pendingUnblocks'[x] \in Nat
      /\ BlocksHaveDates' /\ LatestDates'
  BY <1>1, Blocked
<1>3. /\ DOMAIN notices = 1 .. Len(notices) /\ DOMAIN notices' = 1 .. n
      /\ \A i \in 1 .. n : i \in 1 .. Len(notices) \/ i = n
  BY <1>2 DEF BlocksInv, BlocksTypes
<1>4. notices'[n].by # "keystore"
  BY <1>2
<1> HIDE DEF n
<1>5. BlocksTypes'
  BY <1>1, <1>2 DEF BlocksInv, BlocksTypes
<1>6. KeystoreDates'
  BY <1>1, <1>2, <1>3, <1>4 DEF BlocksInv, KeystoreDates
<1>7. OneBlockPerCooloff'
  BY <1>2, <1>3, <1>4 DEF BlocksInv, OneBlockPerCooloff
<1> QED
  BY <1>2, <1>5, <1>6, <1>7 DEF BlocksInv

\* Every step of the keystore and of the block list keeps the invariant.
LEMMA BlocksSteps ==
    ASSUME BlocksInv, [BlocksNext]_blockVars
    PROVE  BlocksInv'
<1>1. ASSUME NEW a \in Agents, RejectMove(a)
      PROVE  BlocksInv'
  BY <1>1, RejectedStep
<1>2. ASSUME NEW a \in Agents, NEW until \in InjectDates, InjectBlock(a, until)
      PROVE  BlocksInv'
  BY <1>2, InjectedStep
<1>3. ASSUME NEW v \in Agents, BarValidator(v)
      PROVE  BlocksInv'
  BY <1>3 DEF BarValidator, BlocksInv, BlocksTypes, BlocksHaveDates, LatestDates, KeystoreDates, OneBlockPerCooloff
<1>4. CASE BlocksTick
  <2>1. /\ DOMAIN pendingUnblocks' = DOMAIN pendingUnblocks \ Expired
        /\ \A a \in DOMAIN pendingUnblocks' : pendingUnblocks'[a] = pendingUnblocks[a]
        /\ now' \in Nat
    BY <1>4 DEF BlocksTick, BlocksInv, BlocksTypes
  <2>2. BlocksHaveDates'
    BY <1>4, <2>1 DEF BlocksTick, BlocksInv, BlocksHaveDates
  <2>3. BlocksTypes' /\ LatestDates' /\ KeystoreDates' /\ OneBlockPerCooloff'
    BY <1>4, <2>1 DEF BlocksTick, BlocksInv, BlocksTypes, LatestDates, KeystoreDates, OneBlockPerCooloff
  <2> QED
    BY <2>2, <2>3 DEF BlocksInv
<1>5. CASE Rewind
  <2>1. now' \in Nat
    BY <1>5 DEF Rewind, BlocksInv, BlocksTypes
  <2> QED
    BY <1>5, <2>1 DEF Rewind, BlocksInv, BlocksTypes, BlocksHaveDates, LatestDates, KeystoreDates, OneBlockPerCooloff
<1>6. CASE UNCHANGED blockVars
  BY <1>6 DEF blockVars, BlocksInv, BlocksTypes, BlocksHaveDates, LatestDates, KeystoreDates, OneBlockPerCooloff
<1> QED
  BY <1>1, <1>2, <1>3, <1>4, <1>5, <1>6 DEF BlocksNext

\* Only a tick moves the clock forward, and it lifts what is due.
LEMMA LiftedStep ==
    ASSUME BlocksInv, [BlocksNext]_blockVars, now' = now + 1, NEW a \in marketBlocked
    PROVE  \E i \in DOMAIN notices :
             /\ notices[i].agent = a /\ \A j \in DOMAIN notices : notices[j].agent = a => j <= i
             /\ (a \notin marketBlocked') <=> (now' >= notices[i].until)
<1>1. now \in Nat /\ now' # now
  BY DEF BlocksInv, BlocksTypes
<1>2. BlocksTick
  BY <1>1 DEF BlocksNext, RejectMove, BarValidator, InjectBlock, Rewind, blockVars
<1>3. PICK i \in DOMAIN notices :
        /\ notices[i].agent = a /\ \A j \in DOMAIN notices : notices[j].agent = a => j <= i
        /\ pendingUnblocks[a] = notices[i].until
  BY DEF BlocksInv, BlocksHaveDates, LatestDates
<1>4. a \in DOMAIN pendingUnblocks
  BY DEF BlocksInv, BlocksHaveDates
<1>5. (a \notin marketBlocked') <=> (now' >= notices[i].until)
  BY <1>2, <1>3, <1>4 DEF BlocksTick, Expired
<1> QED
  BY <1>3, <1>5

\* A block of the keystore comes from a rejection, and enough rejections are recent then.
LEMMA CauseStep ==
    ASSUME BlocksInv, [BlocksNext]_blockVars, NEW i \in DOMAIN notices' \ DOMAIN notices,
           notices'[i].by = "keystore"
    PROVE  \E burst \in SUBSET DOMAIN rejections'[notices'[i].agent] :
             /\ Cardinality(burst) = Threshold
             /\ \A k \in burst : rejections'[notices'[i].agent][k] >= now - Window
<1>1. notices' # notices
  OBVIOUS
<1>2. \/ \E a \in Agents : RejectMove(a)
      \/ \E a \in Agents, until \in InjectDates : InjectBlock(a, until)
  BY <1>1 DEF BlocksNext, BarValidator, BlocksTick, Rewind, blockVars
<1>3. notices \in Seq(Notice) /\ Len(notices) \in Nat
  BY DEF BlocksInv, BlocksTypes
<1>4. CASE \E a \in Agents, until \in InjectDates : InjectBlock(a, until)
  <2>1. PICK a \in Agents, until \in InjectDates : InjectBlock(a, until)
    BY <1>4
  <2> DEFINE new == [by |-> "inject", agent |-> a, at |-> now, until |-> until]
  <2>2. notices' = Append(notices, new)
    BY <2>1 DEF InjectBlock, OnAgentBlocked
  <2>3. new.by # "keystore"
    OBVIOUS
  <2> HIDE DEF new
  <2>4. notices'[i] = new
    BY <1>3, <2>2
  <2> QED
    BY <2>3, <2>4
<1>5. CASE \E a \in Agents : RejectMove(a)
  <2>1. PICK a \in Agents : RejectMove(a)
    BY <1>5
  <2>2. /\ OnAgentBlocked("keystore", a, now + Cooloff) /\ rejections' \in [Agents -> Seq(Nat)]
        /\ RecentRejections(rejections'[a]) >= Threshold
    BY <1>1, <2>1, Rejected
  <2> DEFINE new == [by |-> "keystore", agent |-> a, at |-> now, until |-> now + Cooloff]
             kept == rejections'[a]
             S == {k \in DOMAIN kept : kept[k] >= now - Window}
  <2>3. notices' = Append(notices, new)
    BY <2>2 DEF OnAgentBlocked
  <2>4. new.agent = a
    OBVIOUS
  <2> HIDE DEF new
  <2>5. notices'[i].agent = a
    BY <1>3, <2>3, <2>4
  <2>6. IsFiniteSet(S)
    <3>1. DOMAIN kept = 1 .. Len(kept) /\ 1 \in Int /\ Len(kept) \in Int
      BY <2>2
    <3>2. IsFiniteSet(DOMAIN kept)
      BY <3>1, FS_Interval
    <3> QED
      BY <3>2, FS_Subset
  <2>7. Cardinality(S) >= Threshold /\ Cardinality(S) \in Nat
    BY <2>2, <2>6, FS_CardinalityType DEF RecentRejections
  <2>8. PICK burst \in SUBSET S : Cardinality(burst) = Threshold
    BY <2>6, <2>7, SubsetOfSize, BlocksConstants
  <2> QED
    BY <2>5, <2>8
<1> QED
  BY <1>2, <1>4, <1>5

\* Whoever raises blocks, for any set of agents, threshold, window and cool-off, and however often the
\* tick is set back: a block is raised once per cool-off and with a cause, market and trainer know of
\* it and of its date, and the last date lifts it (AgentKeystore, on_agent_blocked,
\* _drain_pending_unblocks).
THEOREM BlocksSoundHolds == Spec => BlocksSound
<1>1. Init => BlocksInv
  BY BlocksStart DEF Init
<1>2. BlocksInv /\ [Next]_vars => BlocksInv'
  BY Parts, BlocksSteps
<1>3. BlocksInv => BlocksHaveDates /\ OneBlockPerCooloff
  BY DEF BlocksInv
<1>4. BlocksInv /\ [Next]_vars =>
        [now' = now + 1 =>
           \A a \in marketBlocked :
             \E i \in DOMAIN notices :
               /\ notices[i].agent = a /\ \A j \in DOMAIN notices : notices[j].agent = a => j <= i
               /\ (a \notin marketBlocked') <=> (now' >= notices[i].until)]_blockVars
  BY Parts, LiftedStep
<1>5. BlocksInv /\ [Next]_vars =>
        [\A i \in DOMAIN notices' \ DOMAIN notices :
           notices'[i].by = "keystore" =>
             \E burst \in SUBSET DOMAIN rejections'[notices'[i].agent] :
               /\ Cardinality(burst) = Threshold
               /\ \A k \in burst : rejections'[notices'[i].agent][k] >= now - Window]_blockVars
  BY Parts, CauseStep
<1> QED
  BY <1>1, <1>2, <1>3, <1>4, <1>5, PTL DEF Spec, BlocksSound, LiftedAtTheLastDate, BlocksHaveACause
----------------------------------------------------------------------------
(* Branches of the live world                                              *)

Clone == [site : Sites, tick : Nat, paused : BOOLEAN, tag : Registered]
BranchRecord == [parent : Nat, world : Clone, mint : Nat]

BranchTypes ==
    /\ live \in [site : Sites, tick : Nat, paused : BOOLEAN, tag : Tags] /\ mints \in Nat
    /\ branches \in [DOMAIN branches -> BranchRecord]

\* What one tick makes of a clone that is not paused, with the policy of that name.
OneTick(w, tag) == [w EXCEPT !.site = Leads[tag][@], !.tick = @ + 1]

\* f lists the worlds that n ticks lead the clone a through.
Trace(f, a, n) ==
    /\ f \in [0 .. n -> Clone] /\ f[0] = a
    /\ \A k \in 0 .. n : f[k].tag = a.tag /\ f[k].paused = a.paused /\ f[k].tick = a.tick + k
    /\ \A k \in 0 .. n : k < n => f[k + 1] = OneTick(f[k], a.tag)

Reached(a, b, n) == \E f : Trace(f, a, n) /\ f[n] = b

\* Branches of one call are worlds of one run; which of them is ahead has been led there.
SameRun ==
    \A a, b \in DOMAIN branches :
      branches[a].mint = branches[b].mint /\ branches[a].world.tick <= branches[b].world.tick
        => Reached(branches[a].world, branches[b].world,
                   branches[b].world.tick - branches[a].world.tick)

Minted == \A id \in DOMAIN branches : branches[id].mint < mints

BranchesInv == BranchTypes /\ Minted /\ SameRun /\ PausedBranchesStandStill

\* What is assumed of the recorded worlds and of the warp.
LEMMA BranchConstants ==
    /\ Baseline \in Registered /\ Registered \subseteq Tags /\ TimeWarp \in Nat \ {0}
    /\ \A tag \in Registered, site \in Sites : Leads[tag][site] \in Sites
BY BranchesAssumption

\* A tick moves a clone's site and counts; tag and pause stay.
LEMMA TickOfClone ==
    ASSUME NEW w \in Clone, NEW tag \in Registered
    PROVE  /\ OneTick(w, tag) \in Clone /\ OneTick(w, tag).tick = w.tick + 1
           /\ OneTick(w, tag).tag = w.tag /\ OneTick(w, tag).paused = w.paused
<1>1. w.site \in Sites /\ w.tick \in Nat /\ w.tick + 1 \in Nat /\ Leads[tag][w.site] \in Sites
  BY BranchConstants DEF Clone
<1>2. OneTick(w, tag) \in Clone
  BY <1>1 DEF OneTick, Clone
<1>3. OneTick(w, tag).tick = w.tick + 1 /\ OneTick(w, tag).tag = w.tag
  BY <1>1 DEF OneTick, Clone
<1>4. OneTick(w, tag).paused = w.paused
  BY <1>1 DEF OneTick, Clone
<1> QED
  BY <1>2, <1>3, <1>4

\* A clone can be led through any number of ticks.
LEMMA TraceExists ==
    ASSUME NEW a \in Clone, NEW n \in Nat
    PROVE  \E f : Trace(f, a, n)
<1> DEFINE S == {m \in Nat : \E f : Trace(f, a, m)}
<1>1. 0 \in S
  <2> DEFINE f == [k \in 0 .. 0 |-> a]
  <2>1. a.tick \in Nat
    BY DEF Clone
  <2>2. Trace(f, a, 0)
    BY <2>1 DEF Trace
  <2> QED
    BY <2>2
<1>2. ASSUME NEW m \in Nat, m \in S
      PROVE  m + 1 \in S
  <2>1. PICK f : Trace(f, a, m)
    BY <1>2
  <2> DEFINE last == OneTick(f[m], a.tag)
             g == [k \in 0 .. (m + 1) |-> IF k = m + 1 THEN last ELSE f[k]]
  <2>2. /\ f \in [0 .. m -> Clone] /\ f[0] = a /\ a.tag \in Registered /\ a.tick \in Nat
        /\ \A k \in 0 .. m : f[k].tag = a.tag /\ f[k].paused = a.paused /\ f[k].tick = a.tick + k
        /\ \A k \in 0 .. m : k < m => f[k + 1] = OneTick(f[k], a.tag)
    BY <2>1 DEF Trace, Clone
  <2>3. f[m] \in Clone
    BY <2>2
  <2>4. /\ last \in Clone /\ last.tag = a.tag /\ last.paused = a.paused /\ last.tick = a.tick + (m + 1)
    <3>1. m \in 0 .. m
      OBVIOUS
    <3>2. /\ last \in Clone /\ last.tick = f[m].tick + 1
          /\ last.tag = f[m].tag /\ last.paused = f[m].paused
      BY <2>2, <2>3, TickOfClone
    <3> HIDE DEF last
    <3>3. f[m].tag = a.tag /\ f[m].paused = a.paused /\ f[m].tick = a.tick + m
      BY <3>1, <2>2
    <3>4. (a.tick + m) + 1 = a.tick + (m + 1)
      <4>1. a.tick \in Nat
        BY <2>2
      <4> QED
        BY <4>1
    <3> QED
      BY <3>2, <3>3, <3>4
  <2> HIDE DEF last
  <2>5. /\ \A k \in 0 .. m : g[k] = f[k]
        /\ g[m + 1] = last /\ g \in [0 .. (m + 1) -> Clone] /\ g[0] = a
    BY <2>2, <2>4
  <2>6. \A k \in 0 .. (m + 1) : k \in 0 .. m \/ k = m + 1
    OBVIOUS
  <2> HIDE DEF g
  <2>7. ASSUME NEW k \in 0 .. (m + 1)
        PROVE  g[k].tag = a.tag /\ g[k].paused = a.paused /\ g[k].tick = a.tick + k
    BY <2>2, <2>4, <2>5, <2>6
  <2>8. ASSUME NEW k \in 0 .. (m + 1), k < m + 1
        PROVE  g[k + 1] = OneTick(g[k], a.tag)
    <3>1. CASE k = m
      BY <3>1, <2>5 DEF last
    <3>2. CASE k # m
      <4>1. k \in 0 .. m /\ k < m /\ k + 1 \in 0 .. m
        BY <3>2, <2>8
      <4> QED
        BY <4>1, <2>2, <2>5
    <3> QED
      BY <3>1, <3>2
  <2>9. Trace(g, a, m + 1)
    BY <2>5, <2>7, <2>8 DEF Trace
  <2> QED
    BY <2>9
<1> HIDE DEF S
<1>3. Nat \subseteq S
  BY <1>1, <1>2, SetInduction
<1> QED
  BY <1>3 DEF S

\* There is only one way it goes.
LEMMA TracesAgree ==
    ASSUME NEW a, NEW n \in Nat, NEW m \in Nat, NEW f, NEW g, Trace(f, a, n), Trace(g, a, m)
    PROVE  \A k \in Nat : k <= n /\ k <= m => f[k] = g[k]
<1> DEFINE S == {k \in Nat : k <= n /\ k <= m => f[k] = g[k]}
<1>1. 0 \in S
  BY DEF Trace
<1>2. ASSUME NEW k \in Nat, k \in S
      PROVE  k + 1 \in S
  <2> SUFFICES ASSUME k + 1 <= n, k + 1 <= m
               PROVE  f[k + 1] = g[k + 1]
    OBVIOUS
  <2>1. k \in 0 .. n /\ k < n /\ k \in 0 .. m /\ k < m /\ k <= n /\ k <= m
    OBVIOUS
  <2>2. f[k] = g[k]
    BY <1>2, <2>1
  <2> QED
    BY <2>1, <2>2 DEF Trace
<1> HIDE DEF S
<1>3. Nat \subseteq S
  BY <1>1, <1>2, SetInduction
<1> QED
  BY <1>3 DEF S

\* Ticked goes that way, unless the clone is paused.
LEMMA TickedReached ==
    ASSUME NEW a \in Clone, ~a.paused, NEW ticks \in Nat
    PROVE  Reached(a, Ticked(a, ticks), ticks * TimeWarp)
<1> DEFINE m == ticks * TimeWarp
<1>1. m \in Nat
  BY BranchConstants
<1>2. PICK f : Trace(f, a, m)
  BY <1>1, TraceExists
<1> DEFINE Body(g) == [n \in 0 .. m |-> IF n = 0 THEN a ELSE OneTick(g[n - 1], a.tag)]
           after == CHOOSE g : g = Body(g)
<1>3. Ticked(a, ticks) = after[m]
  BY DEF Ticked, StandsStill, OneTick
<1> HIDE DEF m
<1>4. f = Body(f)
  <2>1. f = [n \in 0 .. m |-> f[n]]
    BY <1>2 DEF Trace
  <2>2. \A n \in 0 .. m : f[n] = IF n = 0 THEN a ELSE OneTick(f[n - 1], a.tag)
    <3> TAKE n \in 0 .. m
    <3>1. CASE n = 0
      BY <3>1, <1>2 DEF Trace
    <3>2. CASE n # 0
      <4>1. n - 1 \in 0 .. m /\ n - 1 < m /\ (n - 1) + 1 = n
        BY <3>2, <1>1
      <4> QED
        BY <4>1, <3>2, <1>2 DEF Trace
    <3> QED
      BY <3>1, <3>2
  <2> QED
    BY <2>1, <2>2
<1>5. after = Body(after)
  BY <1>4
<1>6. \A n \in 0 .. m : after[n] = IF n = 0 THEN a ELSE OneTick(after[n - 1], a.tag)
  BY <1>5
<1>7. \A n \in 0 .. m : f[n] = IF n = 0 THEN a ELSE OneTick(f[n - 1], a.tag)
  BY <1>4
<1> HIDE DEF after
<1> DEFINE S == {n \in Nat : n <= m => f[n] = after[n]}
<1>8. 0 \in S
  BY <1>1, <1>6, <1>7
<1>9. ASSUME NEW n \in Nat, n \in S
      PROVE  n + 1 \in S
  <2> SUFFICES ASSUME n + 1 <= m
               PROVE  f[n + 1] = after[n + 1]
    OBVIOUS
  <2>1. n + 1 \in 0 .. m /\ n + 1 # 0 /\ (n + 1) - 1 = n /\ n <= m
    BY <1>1
  <2>2. f[n] = after[n]
    BY <1>9, <2>1
  <2> QED
    BY <2>1, <2>2, <1>6, <1>7
<1> HIDE DEF S
<1>10. Nat \subseteq S
  BY <1>8, <1>9, SetInduction
<1>11. f[m] = after[m]
  BY <1>1, <1>10 DEF S
<1> QED
  BY <1>2, <1>3, <1>11 DEF Reached, m

\* Ticks add up.
LEMMA ReachedOn ==
    ASSUME NEW a, NEW b, NEW c, NEW n \in Nat, NEW m \in Nat, Reached(a, b, n), Reached(b, c, m)
    PROVE  Reached(a, c, n + m)
<1>1. PICK f : Trace(f, a, n) /\ f[n] = b
  BY DEF Reached
<1>2. PICK g : Trace(g, b, m) /\ g[m] = c
  BY DEF Reached
<1> DEFINE h == [k \in 0 .. (n + m) |-> IF k <= n THEN f[k] ELSE g[k - n]]
<1>3. a \in Clone /\ a.tick \in Nat /\ b.tag = a.tag /\ b.paused = a.paused /\ b.tick = a.tick + n
  BY <1>1 DEF Trace, Clone
<1>4. /\ f \in [0 .. n -> Clone] /\ f[0] = a /\ f[n] = b
      /\ \A k \in 0 .. n : f[k].tag = a.tag /\ f[k].paused = a.paused /\ f[k].tick = a.tick + k
      /\ \A k \in 0 .. n : k < n => f[k + 1] = OneTick(f[k], a.tag)
  BY <1>1 DEF Trace
<1>5. /\ g \in [0 .. m -> Clone] /\ g[0] = b /\ g[m] = c
      /\ \A k \in 0 .. m : g[k].tag = a.tag /\ g[k].paused = a.paused /\ g[k].tick = (a.tick + n) + k
      /\ \A k \in 0 .. m : k < m => g[k + 1] = OneTick(g[k], a.tag)
  BY <1>2, <1>3 DEF Trace
<1>6. /\ \A k \in 0 .. n : h[k] = f[k]
      /\ \A k \in 0 .. m : h[n + k] = g[k]
  <2>1. \A k \in 0 .. n : h[k] = f[k]
    OBVIOUS
  <2>2. ASSUME NEW k \in 0 .. m
        PROVE  h[n + k] = g[k]
    <3>1. n + k \in 0 .. (n + m) /\ (n + k) - n = k /\ (n + k <= n => k = 0)
      OBVIOUS
    <3> QED
      BY <3>1, <1>4, <1>5
  <2> QED
    BY <2>1, <2>2
<1>7. h \in [0 .. (n + m) -> Clone]
  <2>1. \A k \in 0 .. (n + m) : (k <= n => k \in 0 .. n) /\ (~(k <= n) => k - n \in 0 .. m)
    OBVIOUS
  <2> QED
    BY <2>1, <1>4, <1>5
<1> HIDE DEF h
<1>8. \A k \in 0 .. (n + m) : k \in 0 .. n \/ \E j \in 0 .. m : k = n + j
  <2> TAKE k \in 0 .. (n + m)
  <2>1. k <= n \/ (k - n \in 0 .. m /\ k = n + (k - n))
    OBVIOUS
  <2> QED
    BY <2>1
<1>9. ASSUME NEW k \in 0 .. (n + m)
      PROVE  h[k].tag = a.tag /\ h[k].paused = a.paused /\ h[k].tick = a.tick + k
  <2>1. CASE k \in 0 .. n
    BY <2>1, <1>4, <1>6
  <2>2. CASE \E j \in 0 .. m : k = n + j
    <3>1. PICK j \in 0 .. m : k = n + j
      BY <2>2
    <3>2. (a.tick + n) + j = a.tick + k
      BY <3>1, <1>3
    <3> QED
      BY <3>1, <3>2, <1>5, <1>6
  <2> QED
    BY <2>1, <2>2, <1>8
<1>10. ASSUME NEW k \in 0 .. (n + m), k < n + m
       PROVE  h[k + 1] = OneTick(h[k], a.tag)
  <2>1. CASE k < n
    <3>1. k \in 0 .. n /\ k + 1 \in 0 .. n
      BY <2>1
    <3> QED
      BY <2>1, <3>1, <1>4, <1>6
  <2>2. CASE ~(k < n)
    <3> DEFINE j == k - n
    <3>1. j \in 0 .. m /\ j + 1 \in 0 .. m /\ j < m /\ k = n + j /\ k + 1 = n + (j + 1)
      BY <2>2, <1>10
    <3> HIDE DEF j
    <3>2. h[n + j] = g[j] /\ h[n + (j + 1)] = g[j + 1] /\ g[j + 1] = OneTick(g[j], a.tag)
      BY <3>1, <1>5, <1>6
    <3> QED
      BY <3>1, <3>2
  <2> QED
    BY <2>1, <2>2
<1>11. h[0] = a /\ h[n + m] = c
  <2>1. 0 \in 0 .. n /\ m \in 0 .. m
    OBVIOUS
  <2> QED
    BY <2>1, <1>4, <1>5, <1>6
<1>12. Trace(h, a, n + m)
  BY <1>7, <1>9, <1>10, <1>11 DEF Trace
<1> QED
  BY <1>11, <1>12 DEF Reached

\* Who passes c on the way to b passes from c to b.
LEMMA ReachedRest ==
    ASSUME NEW a, NEW b, NEW c, NEW n \in Nat, NEW m \in Nat, m <= n,
           Reached(a, b, n), Reached(a, c, m)
    PROVE  Reached(c, b, n - m)
<1>1. PICK f : Trace(f, a, n) /\ f[n] = b
  BY DEF Reached
<1>2. PICK g : Trace(g, a, m) /\ g[m] = c
  BY DEF Reached
<1>3. f[m] = g[m]
  <2>1. \A k \in Nat : k <= n /\ k <= m => f[k] = g[k]
    BY <1>1, <1>2, TracesAgree
  <2> QED
    BY <2>1
<1> DEFINE h == [k \in 0 .. (n - m) |-> f[m + k]]
<1>4. \A k \in 0 .. (n - m) : m + k \in 0 .. n /\ h[k] = f[m + k]
  OBVIOUS
<1>5. /\ f \in [0 .. n -> Clone] /\ a.tick \in Nat
      /\ \A k \in 0 .. n : f[k].tag = a.tag /\ f[k].paused = a.paused /\ f[k].tick = a.tick + k
      /\ \A k \in 0 .. n : k < n => f[k + 1] = OneTick(f[k], a.tag)
  BY <1>1 DEF Trace, Clone
<1>6. n - m \in Nat /\ m \in 0 .. n
  OBVIOUS
<1>7. c.tag = a.tag /\ c.paused = a.paused /\ c.tick = a.tick + m
  BY <1>2, <1>3, <1>5, <1>6
<1>8. h \in [0 .. (n - m) -> Clone]
  BY <1>4, <1>5
<1> HIDE DEF h
<1>9. ASSUME NEW k \in 0 .. (n - m)
      PROVE  h[k].tag = c.tag /\ h[k].paused = c.paused /\ h[k].tick = c.tick + k
  <2>1. (a.tick + m) + k = a.tick + (m + k)
    BY <1>5
  <2> QED
    BY <2>1, <1>4, <1>5, <1>7
<1>10. ASSUME NEW k \in 0 .. (n - m), k < n - m
       PROVE  h[k + 1] = OneTick(h[k], c.tag)
  <2>1. k + 1 \in 0 .. (n - m) /\ m + k < n /\ m + (k + 1) = (m + k) + 1
    BY <1>10
  <2> QED
    BY <2>1, <1>4, <1>5, <1>7
<1>11. h[0] = c /\ h[n - m] = b
  <2>1. 0 \in 0 .. (n - m) /\ n - m \in 0 .. (n - m) /\ m + 0 = m /\ m + (n - m) = n
    BY <1>6
  <2> QED
    BY <2>1, <1>1, <1>2, <1>3, <1>4
<1>12. Trace(h, c, n - m)
  BY <1>8, <1>9, <1>10, <1>11 DEF Trace
<1> QED
  BY <1>11, <1>12 DEF Reached

\* Everybody is reached from itself.
LEMMA ReachedSelf ==
    ASSUME NEW a \in Clone
    PROVE  Reached(a, a, 0)
<1>1. PICK f : Trace(f, a, 0)
  BY TraceExists
<1> QED
  BY <1>1 DEF Reached, Trace

\* No other clone is so many ticks ahead, and what is reached is a clone like the first.
LEMMA ReachedFacts ==
    ASSUME NEW a, NEW b, NEW n \in Nat, Reached(a, b, n)
    PROVE  /\ b \in Clone /\ b.tick = a.tick + n /\ b.paused = a.paused /\ b.tag = a.tag
           /\ n = 0 => b = a
<1>1. PICK f : Trace(f, a, n) /\ f[n] = b
  BY DEF Reached
<1>2. n \in 0 .. n
  OBVIOUS
<1> QED
  BY <1>1, <1>2 DEF Trace

\* There are no branches at the start.
LEMMA BranchesStart ==
    ASSUME BranchesInit
    PROVE  BranchesInv
<1>1. DOMAIN branches = {}
  BY DEF BranchesInit
<1>2. BranchTypes
  BY <1>1 DEF BranchesInit, BranchTypes
<1> QED
  BY <1>1, <1>2 DEF BranchesInv, Minted, SameRun, PausedBranchesStandStill

\* The live world goes on; what it may not do is go back behind a branch's start.
LEMMA LiveKeepsBranches ==
    ASSUME BranchesInv, LiveAdvances \/ TogglePause
    PROVE  BranchesInv'
<1>1. /\ branches' = branches /\ mints' = mints /\ live'.tick \in Nat /\ live'.tick >= live.tick
      /\ live' \in [site : Sites, tick : Nat, paused : BOOLEAN, tag : Tags]
  <2>1. live \in [site : Sites, tick : Nat, paused : BOOLEAN, tag : Tags]
    BY DEF BranchesInv, BranchTypes
  <2>2. CASE LiveAdvances
    <3>1. PICK site \in Sites : live' = [live EXCEPT !.site = site, !.tick = @ + 1]
      BY <2>2 DEF LiveAdvances
    <3>2. live.tick \in Nat /\ live.tick + 1 \in Nat /\ live.tick + 1 >= live.tick
      BY <2>1
    <3>3. live' \in [site : Sites, tick : Nat, paused : BOOLEAN, tag : Tags] /\ live'.tick = live.tick + 1
      BY <2>1, <3>1, <3>2
    <3> QED
      BY <2>2, <3>2, <3>3 DEF LiveAdvances
  <2>3. CASE TogglePause
    <3>1. live' = [live EXCEPT !.paused = ~@] /\ branches' = branches /\ mints' = mints
      BY <2>3 DEF TogglePause
    <3>2. live' \in [site : Sites, tick : Nat, paused : BOOLEAN, tag : Tags] /\ live'.tick = live.tick
      BY <2>1, <3>1
    <3>3. live.tick \in Nat /\ live.tick >= live.tick
      BY <2>1
    <3> QED
      BY <3>1, <3>2, <3>3
  <2> QED
    BY <2>2, <2>3
<1>2. BranchTypes' /\ Minted' /\ SameRun'
  BY <1>1 DEF BranchesInv, BranchTypes, Minted, SameRun
<1>3. PausedBranchesStandStill'
  <2> SUFFICES ASSUME NEW id \in DOMAIN branches
               PROVE  /\ branches[id].parent <= live'.tick
                      /\ IF branches[id].world.paused
                         THEN branches[id].world.tick = branches[id].parent
                         ELSE (branches[id].world.tick - branches[id].parent) % TimeWarp = 0
    BY <1>1 DEF PausedBranchesStandStill
  <2>1. branches[id].parent \in Nat /\ live.tick \in Nat
    BY DEF BranchesInv, BranchTypes, BranchRecord
  <2>2. branches[id].parent <= live.tick
    BY DEF BranchesInv, PausedBranchesStandStill
  <2>3. branches[id].parent <= live'.tick
    BY <1>1, <2>1, <2>2
  <2> QED
    BY <2>3 DEF BranchesInv, PausedBranchesStandStill
<1> QED
  BY <1>2, <1>3 DEF BranchesInv

\* New branches are clones of one world, of a call of their own.
LEMMA BranchKeepsBranches ==
    ASSUME BranchesInv, NEW name, NEW n, Branch(name, n)
    PROVE  BranchesInv'
<1> DEFINE called == {<<name, i>> : i \in 1 .. n}
           clone == [live EXCEPT !.tag = Reattached(@)]
           new == [parent |-> live.tick, world |-> clone, mint |-> mints]
<1>1. /\ live \in [site : Sites, tick : Nat, paused : BOOLEAN, tag : Tags] /\ mints \in Nat
      /\ branches \in [DOMAIN branches -> BranchRecord]
  BY DEF BranchesInv, BranchTypes
<1>2. clone \in Clone /\ clone.tick = live.tick
  <2>1. Reattached(live.tag) \in Registered
    BY BranchConstants DEF Reattached
  <2> QED
    BY <1>1, <2>1 DEF Clone
<1>3. /\ branches' = [id \in DOMAIN branches \cup called |-> IF id \in called THEN new ELSE branches[id]]
      /\ mints' = mints + 1 /\ live' = live
  BY DEF Branch, Cloned
<1> HIDE DEF clone
<1>4. new \in BranchRecord /\ new.parent = live.tick /\ new.world = clone /\ new.mint = mints
  BY <1>1, <1>2 DEF BranchRecord
<1> HIDE DEF new, called
<1>5. /\ DOMAIN branches' = DOMAIN branches \cup called
      /\ \A id \in DOMAIN branches' : (id \in called /\ branches'[id] = new)
                                      \/ (id \in DOMAIN branches /\ branches'[id] = branches[id])
  BY <1>3
<1>6. \A id \in DOMAIN branches : branches[id] \in BranchRecord /\ branches[id].mint \in Nat
                                  /\ branches[id].mint < mints
  <2>1. \A id \in DOMAIN branches : branches[id] \in BranchRecord
    BY <1>1
  <2> QED
    BY <2>1 DEF BranchesInv, Minted, BranchRecord
<1>7. BranchTypes'
  <2>1. branches' \in [DOMAIN branches' -> BranchRecord]
    <3>1. \A id \in DOMAIN branches' : branches'[id] \in BranchRecord
      BY <1>4, <1>5, <1>6
    <3>2. branches' = [id \in DOMAIN branches' |-> branches'[id]]
      BY <1>3
    <3> QED
      BY <3>1, <3>2
  <2> QED
    BY <1>1, <1>3, <2>1 DEF BranchTypes
<1>8. Minted'
  <2> SUFFICES ASSUME NEW id \in DOMAIN branches'
               PROVE  branches'[id].mint < mints + 1
    BY <1>3 DEF Minted
  <2> QED
    BY <1>1, <1>4, <1>5, <1>6
<1>9. SameRun'
  <2> SUFFICES ASSUME NEW a \in DOMAIN branches', NEW b \in DOMAIN branches',
                      branches'[a].mint = branches'[b].mint,
                      branches'[a].world.tick <= branches'[b].world.tick
               PROVE  Reached(branches'[a].world, branches'[b].world,
                              branches'[b].world.tick - branches'[a].world.tick)
    BY DEF SameRun
  <2>1. CASE branches'[a] = new /\ branches'[b] = new
    <3>1. clone.tick \in Nat
      BY <1>2 DEF Clone
    <3>2. clone.tick - clone.tick = 0
      BY <3>1
    <3> QED
      BY <2>1, <1>2, <1>4, <3>2, ReachedSelf
  <2>2. CASE a \in DOMAIN branches /\ branches'[a] = branches[a]
             /\ b \in DOMAIN branches /\ branches'[b] = branches[b]
    BY <2>2 DEF BranchesInv, SameRun
  <2>3. ASSUME NEW old \in DOMAIN branches
        PROVE  branches[old].mint # new.mint
    BY <1>1, <1>4, <1>6
  <2> QED
    BY <1>5, <2>1, <2>2, <2>3
<1>10. PausedBranchesStandStill'
  <2> SUFFICES ASSUME NEW id \in DOMAIN branches'
               PROVE  /\ branches'[id].parent <= live.tick
                      /\ IF branches'[id].world.paused
                         THEN branches'[id].world.tick = branches'[id].parent
                         ELSE (branches'[id].world.tick - branches'[id].parent) % TimeWarp = 0
    BY <1>3 DEF PausedBranchesStandStill
  <2>1. CASE branches'[id] = new
    <3>1. live.tick \in Nat
      BY <1>1
    <3>2. live.tick <= live.tick /\ (live.tick - live.tick) % TimeWarp = 0
      BY <3>1, BranchConstants
    <3> QED
      BY <2>1, <1>2, <1>4, <3>2
  <2>2. CASE id \in DOMAIN branches /\ branches'[id] = branches[id]
    BY <2>2 DEF BranchesInv, PausedBranchesStandStill
  <2> QED
    BY <1>5, <2>1, <2>2
<1> QED
  BY <1>7, <1>8, <1>9, <1>10 DEF BranchesInv

\* Numbers of ticks that add to a multiple of the warp.
LEMMA WarpDivides ==
    ASSUME NEW q \in Int
    PROVE  (q * TimeWarp) % TimeWarp = 0
BY BranchConstants

\* Whole warps added to whole warps.
LEMMA WarpAdds ==
    ASSUME NEW x \in Int, NEW y \in Nat, x % TimeWarp = 0
    PROVE  (x + y * TimeWarp) % TimeWarp = 0
<1> DEFINE q == x \div TimeWarp
<1>1. x = TimeWarp * q /\ q \in Int
  BY BranchConstants
<1> HIDE DEF q
<1>2. x + y * TimeWarp = (q + y) * TimeWarp /\ q + y \in Int
  BY <1>1, BranchConstants
<1>3. ((q + y) * TimeWarp) % TimeWarp = 0
  BY <1>2, WarpDivides
<1> QED
  BY <1>2, <1>3

\* advance_branch: the branch asked for runs on along its own trace, and all others stand.
LEMMA AdvanceKeepsBranches ==
    ASSUME BranchesInv, NEW id, NEW ticks \in Nat, AdvanceBranch(id, ticks)
    PROVE  BranchesInv'
<1> DEFINE m == ticks * TimeWarp
           old == branches[id].world
           new == Ticked(old, ticks)
<1>1. /\ live \in [site : Sites, tick : Nat, paused : BOOLEAN, tag : Tags] /\ mints \in Nat
      /\ branches \in [DOMAIN branches -> BranchRecord] /\ id \in DOMAIN branches
      /\ live' = live /\ mints' = mints
  BY DEF BranchesInv, BranchTypes, AdvanceBranch
<1>2. /\ branches' = [branches EXCEPT ![id].world = new]
      /\ branches[id] \in BranchRecord /\ old \in Clone
  BY <1>1 DEF AdvanceBranch, BranchRecord
<1>3. m \in Nat
  BY BranchConstants
<1>4. CASE old.paused
  <2>1. new = old
    BY <1>4 DEF Ticked, StandsStill
  <2>2. branches' = branches
    BY <1>1, <1>2, <2>1 DEF BranchRecord
  <2> QED
    BY <1>1, <2>2 DEF BranchesInv, BranchTypes, Minted, SameRun, PausedBranchesStandStill
<1>5. CASE ~old.paused
  <2>1. Reached(old, new, m)
    BY <1>2, <1>5, TickedReached
  <2>2. /\ branches' = [branches EXCEPT ![id] = [branches[id] EXCEPT !.world = new]]
    BY <1>2
  <2> HIDE DEF m, new
  <2>3. new \in Clone /\ new.tick = old.tick + m /\ new.paused = old.paused
    BY <1>3, <2>1, ReachedFacts
  <2>4. /\ DOMAIN branches' = DOMAIN branches
        /\ branches'[id].parent = branches[id].parent /\ branches'[id].mint = branches[id].mint
        /\ branches'[id].world = new /\ branches'[id] \in BranchRecord
        /\ \A other \in DOMAIN branches : other # id => branches'[other] = branches[other]
    BY <1>1, <1>2, <2>2, <2>3 DEF BranchRecord
  <2>5. \A other \in DOMAIN branches : branches[other].world.tick \in Nat
    <3>1. \A other \in DOMAIN branches : branches[other] \in BranchRecord
      BY <1>1
    <3> QED
      BY <3>1 DEF BranchRecord, Clone
  <2>6. BranchTypes'
    <3>1. branches' \in [DOMAIN branches' -> BranchRecord]
      BY <1>1, <2>2, <2>4
    <3> QED
      BY <1>1, <3>1 DEF BranchTypes
  <2>7. Minted'
    BY <1>1, <2>4 DEF BranchesInv, Minted
  <2>8. SameRun'
    <3> SUFFICES ASSUME NEW a \in DOMAIN branches, NEW b \in DOMAIN branches,
                        branches'[a].mint = branches'[b].mint,
                        branches'[a].world.tick <= branches'[b].world.tick
                 PROVE  Reached(branches'[a].world, branches'[b].world,
                                branches'[b].world.tick - branches'[a].world.tick)
      BY <2>4 DEF SameRun
    <3>1. branches[a].mint = branches[b].mint
      BY <2>4
    <3>2. \A c, d \in DOMAIN branches :
            branches[c].mint = branches[d].mint /\ branches[c].world.tick <= branches[d].world.tick
              => Reached(branches[c].world, branches[d].world,
                         branches[d].world.tick - branches[c].world.tick)
      BY DEF BranchesInv, SameRun
    <3>3. CASE a # id /\ b # id
      BY <3>1, <3>2, <3>3, <2>4
    <3>4. CASE a = id /\ b = id
      <4>1. new.tick \in Nat
        BY <2>3 DEF Clone
      <4>2. new.tick - new.tick = 0
        BY <4>1
      <4> QED
        BY <3>4, <2>3, <2>4, <4>2, ReachedSelf
    <3>5. CASE a # id /\ b = id
      <4> DEFINE w == branches[a].world
      <4>1. w.tick \in Nat /\ old.tick \in Nat /\ branches'[a].world = w /\ branches'[b].world = new
        BY <3>5, <2>4, <2>5
      <4>2. w.tick <= new.tick
        BY <4>1
      <4>3. CASE w.tick <= old.tick
        <5>1. Reached(w, old, old.tick - w.tick)
          BY <3>1, <3>2, <3>5, <4>3
        <5> HIDE DEF w, old
        <5>2. old.tick - w.tick \in Nat /\ (old.tick - w.tick) + m = new.tick - w.tick
          BY <4>1, <4>3, <2>3, <1>3
        <5>3. Reached(w, new, (old.tick - w.tick) + m)
          BY <5>1, <5>2, <2>1, <1>3, ReachedOn
        <5> QED
          BY <4>1, <5>2, <5>3
      <4>4. CASE ~(w.tick <= old.tick)
        <5>1. old.tick <= w.tick
          BY <4>1, <4>4
        <5>2. Reached(old, w, w.tick - old.tick)
          BY <3>1, <3>2, <3>5, <5>1
        <5> HIDE DEF w, old
        <5>3. w.tick - old.tick \in Nat /\ w.tick - old.tick <= m /\ m - (w.tick - old.tick) = new.tick - w.tick
          BY <4>1, <4>2, <5>1, <2>3, <1>3
        <5>4. Reached(w, new, m - (w.tick - old.tick))
          BY <5>2, <5>3, <2>1, <1>3, ReachedRest
        <5> QED
          BY <4>1, <5>3, <5>4
      <4> QED
        BY <4>3, <4>4
    <3>6. CASE a = id /\ b # id
      <4> DEFINE w == branches[b].world
      <4>1. w.tick \in Nat /\ old.tick \in Nat /\ branches'[b].world = w /\ branches'[a].world = new
        BY <3>6, <2>4, <2>5
      <4>2. new.tick <= w.tick
        BY <4>1
      <4>3. old.tick <= w.tick
        BY <4>1, <4>2, <2>3, <1>3
      <4>4. Reached(old, w, w.tick - old.tick)
        BY <3>1, <3>2, <3>6, <4>3
      <4> HIDE DEF w, old
      <4>5. w.tick - old.tick \in Nat /\ m <= w.tick - old.tick /\ (w.tick - old.tick) - m = w.tick - new.tick
        BY <4>1, <4>2, <4>3, <2>3, <1>3
      <4>6. Reached(new, w, (w.tick - old.tick) - m)
        BY <4>4, <4>5, <2>1, <1>3, ReachedRest
      <4> QED
        BY <4>1, <4>5, <4>6
    <3> QED
      BY <3>3, <3>4, <3>5, <3>6
  <2>9. PausedBranchesStandStill'
    <3> SUFFICES ASSUME NEW x \in DOMAIN branches
                 PROVE  /\ branches'[x].parent <= live.tick
                        /\ IF branches'[x].world.paused
                           THEN branches'[x].world.tick = branches'[x].parent
                           ELSE (branches'[x].world.tick - branches'[x].parent) % TimeWarp = 0
      BY <1>1, <2>4 DEF PausedBranchesStandStill
    <3>1. CASE x # id
      BY <3>1, <2>4 DEF BranchesInv, PausedBranchesStandStill
    <3>2. CASE x = id
      <4>1. /\ branches[id].parent <= live.tick
            /\ (old.tick - branches[id].parent) % TimeWarp = 0
        BY <1>1, <1>5 DEF BranchesInv, PausedBranchesStandStill
      <4>2. old.tick \in Nat /\ branches[id].parent \in Nat
        BY <1>2 DEF BranchRecord, Clone
      <4> DEFINE p == branches[id].parent
      <4>3. p \in Nat /\ (old.tick - p) % TimeWarp = 0
        BY <4>1, <4>2
      <4> HIDE DEF p, old
      <4>4. old.tick - p \in Int /\ new.tick - p = (old.tick - p) + m
        BY <4>2, <4>3, <2>3, <1>3
      <4>5. (new.tick - p) % TimeWarp = 0
        BY <4>3, <4>4, WarpAdds DEF m
      <4> QED
        BY <3>2, <4>1, <4>5, <2>3, <2>4, <1>5 DEF p
    <3> QED
      BY <3>1, <3>2
  <2> QED
    BY <2>6, <2>7, <2>8, <2>9 DEF BranchesInv
<1> QED
  BY <1>4, <1>5

\* Every step of the registry and of the live world keeps the invariant.
LEMMA BranchesStep ==
    ASSUME BranchesInv, [BranchesNext]_branchVars
    PROVE  BranchesInv'
<1>1. CASE UNCHANGED branchVars
  BY <1>1 DEF branchVars, BranchesInv, BranchTypes, Minted, SameRun, PausedBranchesStandStill
<1>2. CASE LiveAdvances \/ TogglePause
  BY <1>2, LiveKeepsBranches
<1>3. CASE \E name \in BranchNames, n \in BranchCounts : Branch(name, n)
  BY <1>3, BranchKeepsBranches
<1>4. CASE \E id \in BranchNames \X (1 .. MaxMints + 1), ticks \in 1 .. 2 : AdvanceBranch(id, ticks)
  <2>1. PICK id \in BranchNames \X (1 .. MaxMints + 1), ticks \in 1 .. 2 : AdvanceBranch(id, ticks)
    BY <1>4
  <2>2. ticks \in Nat
    OBVIOUS
  <2> QED
    BY <2>1, <2>2, AdvanceKeepsBranches
<1> QED
  BY <1>1, <1>2, <1>3, <1>4 DEF BranchesNext

\* The invariant contains the property.
LEMMA BranchesInvSound ==
    ASSUME BranchesInv
    PROVE  BranchesSound
<1>1. ASSUME NEW a \in DOMAIN branches, NEW b \in DOMAIN branches,
             branches[a].mint = branches[b].mint, branches[a].world.tick = branches[b].world.tick
      PROVE  branches[a].world = branches[b].world
  <2>1. \A id \in DOMAIN branches : branches[id].world.tick \in Nat
    <3>1. \A id \in DOMAIN branches : branches[id] \in BranchRecord
      BY DEF BranchesInv, BranchTypes
    <3> QED
      BY <3>1 DEF BranchRecord, Clone
  <2>2. /\ branches[a].world.tick <= branches[b].world.tick
        /\ branches[b].world.tick - branches[a].world.tick = 0
    BY <1>1, <2>1
  <2>3. Reached(branches[a].world, branches[b].world, 0)
    BY <1>1, <2>2 DEF BranchesInv, SameRun
  <2> QED
    BY <2>3, ReachedFacts
<1> QED
  BY <1>1 DEF BranchesSound, BranchesAgree, BranchesInv

\* However often a branch of any number of clones is made and advanced, in any order and portions:
\* clones of one call are worlds of one run, equal when they have come equally far, and clones of a
\* paused world stand still (WorldBranchRegistry.branch, advance, Simulation.tick).
THEOREM BranchesSoundHolds == Spec => []BranchesSound
<1>1. Init => BranchesInv
  BY BranchesStart DEF Init
<1>2. BranchesInv /\ [Next]_vars => BranchesInv'
  BY Parts, BranchesStep
<1>3. BranchesInv => BranchesSound
  BY BranchesInvSound
<1> QED
  BY <1>1, <1>2, <1>3, PTL DEF Spec

----------------------------------------------------------------------------
(* The supply network                                                      *)

NetNodes == 1 .. NodeCount
Shipment == [to : Reordering, quantity : Nat, arrives : Nat]

NetTypes ==
    /\ netTick \in Nat /\ servedTotal \in Nat /\ inventory \in [NetNodes -> Nat]
    /\ IsFiniteSet(inFlight) /\ inFlight \subseteq Shipment
    /\ orderHistory \in [NetNodes -> Seq(Nat)]

NetInv == NetTypes /\ NetworkSound

\* What is assumed of the network's tiers, rates and targets.
LEMMA NetConstants ==
    /\ NodeCount \in Nat /\ Lead \in Nat \ {0} /\ {Initial, Production, ReorderPoint, OrderUpTo} \subseteq Nat
    /\ Demands \subseteq Nat /\ ReorderPoint <= OrderUpTo
    /\ SupplierCount \in Nat \ {0} /\ DistributorCount \in Nat \ {0}
    /\ SupplierCount + DistributorCount < NodeCount
<1>1. /\ NodeCount \in Nat /\ Lead \in Nat \ {0} /\ {Initial, Production, ReorderPoint, OrderUpTo} \subseteq Nat
      /\ Demands \subseteq Nat /\ ReorderPoint <= OrderUpTo /\ Cities # {}
  BY EchelonAssumption
<1>2. \A k \in Int : AtLeastOne(k) \in Nat \ {0}
  BY DEF AtLeastOne
<1>3. \A tenths \in Nat : RoundedShare(NodeCount, tenths) \in Int
  <2> TAKE tenths \in Nat
  <2> DEFINE whole == (NodeCount * tenths) \div 10
  <2>1. NodeCount * tenths \in Int
    BY <1>1
  <2>2. whole \in Int
    BY <2>1
  <2> QED
    BY <2>2 DEF RoundedShare
<1>4. SupplierCount \in Nat \ {0} /\ DistributorCount \in Nat \ {0}
  BY <1>2, <1>3 DEF SupplierCount, DistributorCount
<1>5. SupplierCount + DistributorCount < NodeCount
  BY <1>1, <1>4 DEF Cities
<1> QED
  BY <1>1, <1>4, <1>5

\* The nodes are the suppliers and those that reorder, which are numbered after them.
LEMMA NodesAre ==
    /\ IsFiniteSet(NetNodes) /\ Suppliers \subseteq NetNodes /\ Reordering \subseteq NetNodes
    /\ Suppliers \cap Reordering = {} /\ NetNodes = Suppliers \cup Reordering
    /\ Reordering = SupplierCount + 1 .. NodeCount /\ Cities \subseteq Reordering
<1>1. IsFiniteSet(NetNodes)
  <2>1. 1 \in Int /\ NodeCount \in Int
    BY NetConstants
  <2> QED
    BY <2>1, FS_Interval DEF NetNodes
<1>2. NetNodes = 1 .. NodeCount
  BY DEF NetNodes
<1>3. /\ SupplierCount \in Nat \ {0} /\ DistributorCount \in Nat \ {0} /\ NodeCount \in Nat
      /\ SupplierCount + DistributorCount < NodeCount
  BY NetConstants
<1>4. Reordering = SupplierCount + 1 .. NodeCount
  BY <1>3 DEF Reordering, Distributors, Cities
<1>5. Cities \subseteq Reordering
  BY DEF Reordering
<1>6. Suppliers = 1 .. SupplierCount
  BY DEF Suppliers
<1>7. /\ Suppliers \subseteq NetNodes /\ Reordering \subseteq NetNodes
      /\ Suppliers \cap Reordering = {} /\ NetNodes = Suppliers \cup Reordering
  BY <1>2, <1>3, <1>4, <1>6
<1> QED
  BY <1>1, <1>4, <1>5, <1>7

\* Cities order from distributors, and these from suppliers.
LEMMA UpstreamIs ==
    ASSUME NEW n \in Reordering
    PROVE  UpstreamOf(n) \in NetNodes /\ UpstreamOf(n) \notin Cities /\ UpstreamOf(n) # n
<1>1. \A x \in Int, d \in Nat \ {0} : x % d \in 0 .. (d - 1)
  OBVIOUS
<1>2. CASE n \in Cities
  <2> DEFINE r == (n - SupplierCount - DistributorCount - 1) % DistributorCount
  <2>1. n - SupplierCount - DistributorCount - 1 \in Int
    BY <1>2, NetConstants DEF Cities
  <2>2. r \in 0 .. (DistributorCount - 1)
    BY <1>1, <2>1, NetConstants
  <2>3. UpstreamOf(n) = SupplierCount + 1 + r
    BY <1>2 DEF UpstreamOf
  <2> HIDE DEF r
  <2> QED
    BY <1>2, <2>2, <2>3, NetConstants DEF Cities, NetNodes
<1>3. CASE n \notin Cities
  <2> DEFINE r == (n - SupplierCount - 1) % SupplierCount
  <2>1. n - SupplierCount - 1 \in Int
    BY <1>3, NetConstants DEF Reordering, Distributors
  <2>2. r \in 0 .. (SupplierCount - 1)
    BY <1>1, <2>1, NetConstants
  <2>3. UpstreamOf(n) = 1 + r
    BY <1>3 DEF UpstreamOf
  <2> HIDE DEF r
  <2> QED
    BY <1>3, <2>2, <2>3, NetConstants DEF Cities, NetNodes, Reordering, Distributors
<1> QED
  BY <1>2, <1>3

----------------------------------------------------------------------------
(* Quantities of shipments                                                 *)

\* The goods of finitely many shipments are a natural number.
LEMMA QuantityType ==
    ASSUME NEW S, IsFiniteSet(S), S \subseteq Shipment
    PROVE  QuantityOf(S) \in Nat
<1> DEFINE f == [s \in S |-> s.quantity]
<1>1. \A s \in S : f[s] \in Nat
  BY DEF Shipment
<1> HIDE DEF f
<1>2. SumFunctionOnSet(f, S) \in Nat
  BY <1>1, SumSubset
<1> QED
  BY <1>2 DEF QuantityOf, f

\* The goods of two disjoint sets of shipments add up.
LEMMA QuantityUnion ==
    ASSUME NEW S, IsFiniteSet(S), S \subseteq Shipment, NEW T, IsFiniteSet(T), T \subseteq Shipment,
           S \cap T = {}
    PROVE  QuantityOf(S \cup T) = QuantityOf(S) + QuantityOf(T)
<1> DEFINE f == [s \in S \cup T |-> s.quantity]
           fS == [s \in S |-> s.quantity]
           fT == [s \in T |-> s.quantity]
<1>1. (\A s \in S \cup T : f[s] \in Int) /\ (\A s \in S : f[s] = fS[s]) /\ (\A s \in T : f[s] = fT[s])
  BY DEF Shipment
<1> HIDE DEF f, fS, fT
<1>2. SumFunctionOnSet(f, S \cup T) = SumFunctionOnSet(f, S) + SumFunctionOnSet(f, T)
  BY <1>1, SumUnion
<1>3. SumFunctionOnSet(f, S) = SumFunctionOnSet(fS, S)
  BY <1>1, SumAgree
<1>4. SumFunctionOnSet(f, T) = SumFunctionOnSet(fT, T)
  BY <1>1, SumAgree
<1> QED
  BY <1>2, <1>3, <1>4 DEF QuantityOf, f, fS, fT

\* What is on its way is on its way to somebody.
LEMMA QuantityByNode ==
    ASSUME NEW S, IsFiniteSet(S), S \subseteq Shipment
    PROVE  /\ \A n \in NetNodes : IsFiniteSet(To(n, S)) /\ To(n, S) \subseteq Shipment
                               /\ QuantityOf(To(n, S)) \in Nat
           /\ SumFunctionOnSet([n \in NetNodes |-> QuantityOf(To(n, S))], NetNodes) = QuantityOf(S)
<1> DEFINE f == [s \in S |-> s.quantity]
           key == [s \in S |-> s.to]
<1>1. \A n \in NetNodes : IsFiniteSet(To(n, S)) /\ To(n, S) \subseteq S
  BY FS_Subset DEF To
<1>2. \A n \in NetNodes : QuantityOf(To(n, S)) \in Nat
  BY <1>1, QuantityType
<1>3. (\A s \in S : f[s] \in Int) /\ (\A s \in S : key[s] \in NetNodes)
  BY NodesAre DEF Shipment
<1>4. \A n \in NetNodes : QuantityOf(To(n, S)) = SumFunctionOnSet(f, {s \in S : key[s] = n})
  <2> TAKE n \in NetNodes
  <2> DEFINE g == [s \in To(n, S) |-> s.quantity]
  <2>1. {s \in S : key[s] = n} = To(n, S)
    BY DEF To
  <2>2. \A s \in To(n, S) : f[s] = g[s]
    BY <1>1
  <2> HIDE DEF f, g, key
  <2>3. SumFunctionOnSet(f, To(n, S)) = SumFunctionOnSet(g, To(n, S))
    BY <1>1, <2>2, SumAgree
  <2> QED
    BY <2>1, <2>3 DEF QuantityOf, g
<1>5. [n \in NetNodes |-> QuantityOf(To(n, S))] = SumsByKey(f, S, key, NetNodes)
  BY <1>4 DEF SumsByKey
<1> HIDE DEF f, key
<1>6. SumFunctionOnSet(SumsByKey(f, S, key, NetNodes), NetNodes) = SumFunctionOnSet(f, S)
  BY <1>3, NodesAre, SumByKey
<1> QED
  BY <1>1, <1>2, <1>5, <1>6 DEF QuantityOf, f

\* What is sent is what was placed.
LEMMA ShipmentsAre ==
    ASSUME netTick \in Nat, NEW placed \in [NetNodes -> Nat], \A n \in NetNodes : placed[n] > 0 => n \in Reordering
    PROVE  LET new == Shipments(placed) IN
           /\ IsFiniteSet(new) /\ new \subseteq Shipment
           /\ \A s \in new : s.arrives = netTick + Lead
           /\ \A n \in NetNodes : QuantityOf(To(n, new)) = placed[n]
           /\ QuantityOf(new) = SumFunctionOnSet(placed, NetNodes)
<1> DEFINE new == Shipments(placed)
           K == {n \in Reordering : placed[n] > 0}
           ship(n) == [to |-> n, quantity |-> placed[n], arrives |-> netTick + Lead]
           h == [n \in K |-> ship(n)]
<1>1. new = {ship(n) : n \in K}
  BY DEF Shipments
<1>2. netTick + Lead \in Nat
  BY NetConstants
<1>3. \A n \in K : placed[n] \in Nat /\ n \in NetNodes
  BY NodesAre
<1>4. IsFiniteSet(new)
  <2>1. IsFiniteSet(K)
    BY NodesAre, FS_Subset
  <2>2. h \in Surjection(K, new)
    BY <1>1 DEF Surjection
  <2> QED
    BY <2>1, <2>2, FS_Surjection
<1>5. new \subseteq Shipment /\ \A s \in new : s.arrives = netTick + Lead
  <2>1. \A n \in K : ship(n) \in Shipment /\ ship(n).arrives = netTick + Lead
    BY <1>2, <1>3 DEF Shipment
  <2> HIDE DEF ship, K, new
  <2> QED
    BY <1>1, <2>1
<1>6. ASSUME NEW n \in NetNodes
      PROVE  QuantityOf(To(n, new)) = placed[n]
  <2>1. CASE placed[n] > 0
    <3> DEFINE q == [s \in {ship(n)} |-> s.quantity]
    <3>1. To(n, new) = {ship(n)}
      BY <1>1, <2>1 DEF To
    <3>2. QuantityOf(To(n, new)) = SumFunctionOnSet(q, {ship(n)})
      BY <3>1 DEF QuantityOf
    <3>3. q[ship(n)] = placed[n] /\ placed[n] \in Int
      OBVIOUS
    <3> HIDE DEF q, ship
    <3>4. {} \cup {ship(n)} = {ship(n)} /\ ship(n) \notin {} /\ IsFiniteSet({})
      BY FS_EmptySet
    <3>5. \A y \in {} \cup {ship(n)} : q[y] \in Int
      BY <3>3
    <3>6. SumFunctionOnSet(q, {} \cup {ship(n)}) = q[ship(n)] + SumFunctionOnSet(q, {})
      BY <3>4, <3>5, SumWith
    <3> QED
      BY <3>2, <3>3, <3>4, <3>6, SumEmpty
  <2>2. CASE ~(placed[n] > 0)
    <3>1. To(n, new) = {}
      BY <1>1, <2>2 DEF To
    <3>2. placed[n] = 0
      BY <2>2
    <3> QED
      BY <3>1, <3>2, SumEmpty DEF QuantityOf
  <2> QED
    BY <2>1, <2>2
<1> HIDE DEF new
<1>7. QuantityOf(new) = SumFunctionOnSet(placed, NetNodes)
  <2>1. SumFunctionOnSet([n \in NetNodes |-> QuantityOf(To(n, new))], NetNodes) = QuantityOf(new)
    BY <1>4, <1>5, QuantityByNode
  <2>2. [n \in NetNodes |-> QuantityOf(To(n, new))] = placed
    BY <1>6
  <2> QED
    BY <2>1, <2>2
<1> QED
  BY <1>4, <1>5, <1>6, <1>7 DEF new

----------------------------------------------------------------------------
(* One node after the other orders                                         *)

OrderState == [stock : [NetNodes -> Nat], placed : [NetNodes -> Nat]]

\* What holds when the nodes up to k have ordered from shelves that were stock at first.
OrderedUpTo(stock, onOrder, k, st) ==
    /\ st \in OrderState
    /\ SumFunctionOnSet(st.stock, NetNodes) + SumFunctionOnSet(st.placed, NetNodes)
         = SumFunctionOnSet(stock, NetNodes)
    /\ \A n \in NetNodes : st.stock[n] <= stock[n]
    /\ \A n \in NetNodes : st.placed[n] > 0 =>
         n \in Reordering /\ n <= k /\ st.stock[n] + onOrder[n] + st.placed[n] <= OrderUpTo
    /\ \A n \in Cities : st.stock[n] = stock[n]
    /\ \A n \in Cities :
         n <= k /\ stock[n] + onOrder[n] + st.placed[n] < ReorderPoint => st.stock[UpstreamOf(n)] = 0

\* If the nodes before k have ordered, they and k have once k is done.
LEMMA PlacingKeepsOrdered ==
    ASSUME NEW stock \in [NetNodes -> Nat], NEW onOrder \in [NetNodes -> Nat], NEW k \in Reordering,
           NEW st, OrderedUpTo(stock, onOrder, k - 1, st)
    PROVE  OrderedUpTo(stock, onOrder, k, Placing(st, onOrder, k))
<1> DEFINE u == UpstreamOf(k)
           wanted == Quantity(st.stock, onOrder, k)
           available == st.stock[u]
           shipped == IF wanted < available THEN wanted ELSE available
           shelves == [st.stock EXCEPT ![u] = @ - shipped]
           orders == [st.placed EXCEPT ![k] = shipped]
           st2 == [stock |-> shelves, placed |-> orders]
<1>1. Placing(st, onOrder, k) = st2
  BY DEF Placing, Ship
<1>2. /\ st.stock \in [NetNodes -> Nat] /\ st.placed \in [NetNodes -> Nat] /\ st \in OrderState
  BY DEF OrderedUpTo, OrderState
<1>3. u \in NetNodes /\ u \notin Cities /\ u # k /\ k \in NetNodes /\ k \in Int
  <2>1. k \in NetNodes /\ u \in NetNodes /\ u \notin Cities /\ u # k
    BY UpstreamIs, NodesAre
  <2>2. \A n \in NetNodes : n \in Int
    BY NetConstants DEF NetNodes
  <2> QED
    BY <2>1, <2>2
<1>4. {ReorderPoint, OrderUpTo} \subseteq Nat /\ ReorderPoint <= OrderUpTo
  BY NetConstants
<1>5. st.stock[k] \in Nat /\ onOrder[k] \in Nat /\ available \in Nat
  BY <1>2, <1>3
<1>6. /\ st.stock[k] + onOrder[k] < ReorderPoint => wanted = OrderUpTo - st.stock[k] - onOrder[k]
      /\ ~(st.stock[k] + onOrder[k] < ReorderPoint) => wanted = 0
      /\ wanted \in Nat
  BY <1>4, <1>5 DEF Quantity
<1>7. shipped \in Nat /\ shipped <= wanted /\ shipped <= available /\ (shipped = wanted \/ shipped = available)
  BY <1>5, <1>6
<1>8. available - shipped \in Nat
  BY <1>5, <1>7
<1>9. st.placed[k] = 0
  <2>1. st.placed[k] \in Nat /\ (st.placed[k] > 0 => k <= k - 1)
    BY <1>2, <1>3 DEF OrderedUpTo
  <2> QED
    BY <1>3, <2>1
<1> HIDE DEF shipped, wanted
<1>10. /\ shelves \in [NetNodes -> Nat] /\ shelves[u] = available - shipped
       /\ \A n \in NetNodes : n # u => shelves[n] = st.stock[n]
  BY <1>2, <1>3, <1>8
<1>11. /\ orders \in [NetNodes -> Nat] /\ orders[k] = shipped
       /\ \A n \in NetNodes : n # k => orders[n] = st.placed[n]
  BY <1>2, <1>3, <1>7
<1> HIDE DEF shelves, orders
<1>12. st2 \in OrderState /\ st2.stock = shelves /\ st2.placed = orders
  BY <1>10, <1>11 DEF OrderState
<1> HIDE DEF st2
<1>13. SumFunctionOnSet(shelves, NetNodes) + SumFunctionOnSet(orders, NetNodes) = SumFunctionOnSet(stock, NetNodes)
  <2> DEFINE s0 == st.stock
             p0 == st.placed
  <2>1. (\A n \in NetNodes : s0[n] \in Int) /\ (\A n \in NetNodes : p0[n] \in Int)
    BY <1>2
  <2>2. SumFunctionOnSet(shelves, NetNodes) = SumFunctionOnSet(s0, NetNodes) - s0[u] + shelves[u]
    <3>1. IsFiniteSet(NetNodes) /\ shelves[u] \in Int /\ u \in NetNodes
      BY <1>3, <1>10, NodesAre
    <3>2. \A n \in NetNodes \ {u} : shelves[n] = s0[n]
      BY <1>10
    <3> HIDE DEF u, s0
    <3> QED
      BY <2>1, <3>1, <3>2, SumChanged
  <2>3. SumFunctionOnSet(orders, NetNodes) = SumFunctionOnSet(p0, NetNodes) - p0[k] + orders[k]
    <3>1. IsFiniteSet(NetNodes) /\ orders[k] \in Int /\ k \in NetNodes
      BY <1>3, <1>11, NodesAre
    <3>2. \A n \in NetNodes \ {k} : orders[n] = p0[n]
      BY <1>11
    <3> HIDE DEF p0
    <3> QED
      BY <2>1, <3>1, <3>2, SumChanged
  <2>4. SumFunctionOnSet(s0, NetNodes) \in Int /\ SumFunctionOnSet(p0, NetNodes) \in Int
    <3> HIDE DEF s0, p0
    <3> QED
      BY <2>1, NodesAre, SumType
  <2>5. SumFunctionOnSet(st.stock, NetNodes) + SumFunctionOnSet(st.placed, NetNodes)
          = SumFunctionOnSet(stock, NetNodes)
    BY DEF OrderedUpTo
  <2> HIDE DEF u
  <2> QED
    BY <1>5, <1>7, <1>9, <1>10, <1>11, <2>2, <2>3, <2>4, <2>5
<1>14. \A n \in NetNodes : shelves[n] <= st.stock[n] /\ st.stock[n] \in Nat /\ stock[n] \in Nat
                        /\ onOrder[n] \in Nat /\ shelves[n] \in Nat /\ orders[n] \in Nat
  BY <1>2, <1>5, <1>7, <1>10, <1>11
<1>15. \A n \in NetNodes : shelves[n] <= stock[n]
  BY <1>14 DEF OrderedUpTo
<1>16. ASSUME NEW n \in NetNodes, orders[n] > 0
       PROVE  n \in Reordering /\ n <= k /\ shelves[n] + onOrder[n] + orders[n] <= OrderUpTo
  <2>1. CASE n = k
    <3>1. wanted = OrderUpTo - st.stock[k] - onOrder[k] /\ shelves[k] = st.stock[k]
      BY <1>3, <1>6, <1>7, <1>10, <1>11, <1>16, <2>1
    <3> QED
      BY <1>3, <1>4, <1>5, <1>6, <1>7, <1>11, <2>1, <3>1
  <2>2. CASE n # k
    <3>1. orders[n] = st.placed[n]
      BY <1>11, <2>2
    <3>2. n \in Reordering /\ n <= k - 1 /\ st.stock[n] + onOrder[n] + st.placed[n] <= OrderUpTo
      BY <1>16, <3>1 DEF OrderedUpTo
    <3>3. n \in Int
      BY NetConstants DEF NetNodes
    <3> QED
      BY <1>3, <1>4, <1>14, <3>1, <3>2, <3>3
  <2> QED
    BY <2>1, <2>2
<1>17. \A n \in Cities : n \in NetNodes /\ shelves[n] = stock[n]
  BY <1>3, <1>10, NodesAre DEF OrderedUpTo
<1>18. ASSUME NEW n \in Cities, n <= k, stock[n] + onOrder[n] + orders[n] < ReorderPoint
       PROVE  shelves[UpstreamOf(n)] = 0
  <2>1. n \in NetNodes /\ UpstreamOf(n) \in NetNodes
    BY NodesAre, UpstreamIs
  <2>2. CASE n = k
    <3>1. st.stock[k] = stock[k]
      BY <2>2 DEF OrderedUpTo
    <3>2. st.stock[k] + onOrder[k] + shipped < ReorderPoint
      BY <1>11, <1>18, <2>2, <3>1
    <3>3. shipped = available
      BY <1>4, <1>5, <1>6, <1>7, <3>2
    <3> QED
      BY <1>5, <1>10, <2>2, <3>3
  <2>3. CASE n # k
    <3>1. n <= k - 1 /\ orders[n] = st.placed[n]
      BY <1>3, <1>11, <1>18, <2>1, <2>3 DEF NetNodes
    <3>2. st.stock[UpstreamOf(n)] = 0
      BY <1>18, <3>1 DEF OrderedUpTo
    <3> QED
      BY <1>14, <2>1, <3>2
  <2> QED
    BY <2>2, <2>3
<1>19. OrderedUpTo(stock, onOrder, k, st2)
  BY <1>12, <1>13, <1>15, <1>16, <1>17, <1>18 DEF OrderedUpTo
<1> QED
  BY <1>1, <1>19

\* When all have ordered.
LEMMA OrderedIs ==
    ASSUME NEW stock \in [NetNodes -> Nat], NEW onOrder \in [NetNodes -> Nat]
    PROVE  OrderedUpTo(stock, onOrder, NodeCount, Ordered(stock, onOrder))
<1> DEFINE first == [stock |-> stock, placed |-> [k \in 1 .. NodeCount |-> 0]]
           G == [p \in Int \X OrderState |-> Placing(p[2], onOrder, p[1])]
           Body(f) == [n \in SupplierCount .. NodeCount |->
                         IF n = SupplierCount THEN first ELSE Placing(f[n - 1], onOrder, n)]
           upTo == CHOOSE f : f = Body(f)
<1>1. Ordered(stock, onOrder) = upTo[NodeCount]
  BY DEF Ordered
<1>2. SupplierCount \in Int /\ NodeCount \in Int /\ SupplierCount <= NodeCount
  BY NetConstants
<1>3. OrderedUpTo(stock, onOrder, SupplierCount, first)
  <2> DEFINE zero == [k \in 1 .. NodeCount |-> 0]
  <2>1. zero \in [NetNodes -> Nat] /\ \A n \in NetNodes : zero[n] = 0
    BY DEF NetNodes
  <2> HIDE DEF zero
  <2>2. first \in OrderState /\ first.stock = stock /\ first.placed = zero
    BY <2>1 DEF OrderState, zero
  <2>3. SumFunctionOnSet(zero, NetNodes) = 0
    <3>1. SumFunctionOnSet(zero, NetNodes) = Cardinality(NetNodes) * 0
      <4>1. 0 \in Int /\ IsFiniteSet(NetNodes)
        BY NodesAre
      <4> QED
        BY <2>1, <4>1, SumConstant
    <3>2. Cardinality(NetNodes) \in Nat
      BY NodesAre, FS_CardinalityType
    <3> QED
      BY <3>1, <3>2
  <2>4. SumFunctionOnSet(stock, NetNodes) \in Int
    BY NodesAre, SumType
  <2>5. \A n \in Cities : ~(n <= SupplierCount)
    BY NetConstants DEF Cities
  <2>6. \A n \in NetNodes : stock[n] <= stock[n]
    OBVIOUS
  <2> HIDE DEF first
  <2> QED
    BY <2>1, <2>2, <2>3, <2>4, <2>5, <2>6 DEF OrderedUpTo
<1>4. \A n \in SupplierCount .. NodeCount : n # SupplierCount => n \in Reordering
  BY NetConstants, NodesAre
<1>5. PICK f : f = [n \in SupplierCount .. NodeCount |->
                      IF n = SupplierCount THEN first ELSE G[<<n, f[n - 1]>>]]
  <2> HIDE DEF first, G
  <2>1. \E f : Recursive(f, SupplierCount, NodeCount, first, G)
    BY <1>2, RecursionExists
  <2> QED
    BY <2>1 DEF Recursive
<1> HIDE DEF first
<1>6. ASSUME NEW n \in SupplierCount .. NodeCount, n # SupplierCount, f[n - 1] \in OrderState
      PROVE  f[n] = Placing(f[n - 1], onOrder, n)
  <2>1. n \in Int
    BY <1>2
  <2>2. f[n] = G[<<n, f[n - 1]>>]
    BY <1>5, <1>6
  <2>3. <<n, f[n - 1]>> \in Int \X OrderState
    BY <1>6, <2>1
  <2> QED
    BY <2>2, <2>3
<1> DEFINE S == {i \in Nat : SupplierCount + i <= NodeCount =>
                   OrderedUpTo(stock, onOrder, SupplierCount + i, f[SupplierCount + i])}
<1>7. 0 \in S
  <2>1. SupplierCount + 0 = SupplierCount /\ SupplierCount \in SupplierCount .. NodeCount
    BY <1>2
  <2>2. f[SupplierCount] = first
    BY <1>5, <2>1
  <2> QED
    BY <1>3, <2>1, <2>2
<1>8. ASSUME NEW i \in Nat, i \in S
      PROVE  i + 1 \in S
  <2> SUFFICES ASSUME SupplierCount + (i + 1) <= NodeCount
               PROVE  OrderedUpTo(stock, onOrder, SupplierCount + (i + 1), f[SupplierCount + (i + 1)])
    OBVIOUS
  <2> DEFINE n == SupplierCount + (i + 1)
  <2>1. /\ n \in SupplierCount .. NodeCount /\ n # SupplierCount /\ n - 1 = SupplierCount + i
        /\ SupplierCount + i <= NodeCount
    BY <1>2
  <2>2. OrderedUpTo(stock, onOrder, n - 1, f[n - 1])
    BY <1>8, <2>1
  <2>3. f[n - 1] \in OrderState
    BY <2>2 DEF OrderedUpTo
  <2> HIDE DEF n
  <2>4. n \in Reordering /\ f[n] = Placing(f[n - 1], onOrder, n)
    BY <1>4, <1>6, <2>1, <2>3
  <2>5. OrderedUpTo(stock, onOrder, n, f[n])
    BY <2>2, <2>4, PlacingKeepsOrdered
  <2> QED
    BY <2>5 DEF n
<1> HIDE DEF S
<1>9. Nat \subseteq S
  BY <1>7, <1>8, SetInduction
<1>10. \A n \in SupplierCount .. NodeCount : OrderedUpTo(stock, onOrder, n, f[n])
  <2> TAKE n \in SupplierCount .. NodeCount
  <2>1. n - SupplierCount \in Nat /\ SupplierCount + (n - SupplierCount) = n /\ n <= NodeCount
    BY <1>2
  <2>2. n - SupplierCount \in S
    BY <1>9, <2>1
  <2> QED
    BY <2>1, <2>2 DEF S
<1> HIDE DEF G
<1>11. f = Body(f)
  <2>1. f = [n \in SupplierCount .. NodeCount |-> f[n]]
    BY <1>5
  <2>2. ASSUME NEW n \in SupplierCount .. NodeCount
        PROVE  f[n] = IF n = SupplierCount THEN first ELSE Placing(f[n - 1], onOrder, n)
    <3>1. CASE n = SupplierCount
      BY <1>5, <3>1
    <3>2. CASE n # SupplierCount
      <4>1. n - 1 \in SupplierCount .. NodeCount
        BY <1>2, <3>2
      <4>2. f[n - 1] \in OrderState
        BY <1>10, <4>1 DEF OrderedUpTo
      <4> QED
        BY <1>6, <3>2, <4>2
    <3> QED
      BY <3>1, <3>2
  <2> QED
    BY <2>1, <2>2
<1>12. upTo = Body(upTo)
  BY <1>11
<1>13. \A n \in SupplierCount .. NodeCount :
         upTo[n] = IF n = SupplierCount THEN first ELSE Placing(upTo[n - 1], onOrder, n)
  BY <1>12
<1> HIDE DEF upTo
<1> DEFINE T == {i \in Nat : SupplierCount + i <= NodeCount =>
                   OrderedUpTo(stock, onOrder, SupplierCount + i, upTo[SupplierCount + i])}
<1>14. 0 \in T
  <2>1. SupplierCount + 0 = SupplierCount /\ SupplierCount \in SupplierCount .. NodeCount
    BY <1>2
  <2>2. upTo[SupplierCount] = first
    BY <1>13, <2>1
  <2> QED
    BY <1>3, <2>1, <2>2
<1>15. ASSUME NEW i \in Nat, i \in T
       PROVE  i + 1 \in T
  <2> SUFFICES ASSUME SupplierCount + (i + 1) <= NodeCount
               PROVE  OrderedUpTo(stock, onOrder, SupplierCount + (i + 1), upTo[SupplierCount + (i + 1)])
    OBVIOUS
  <2> DEFINE n == SupplierCount + (i + 1)
  <2>1. /\ n \in SupplierCount .. NodeCount /\ n # SupplierCount /\ n - 1 = SupplierCount + i
        /\ SupplierCount + i <= NodeCount
    BY <1>2
  <2>2. OrderedUpTo(stock, onOrder, n - 1, upTo[n - 1])
    BY <1>15, <2>1
  <2> HIDE DEF n
  <2>3. n \in Reordering /\ upTo[n] = Placing(upTo[n - 1], onOrder, n)
    BY <1>4, <1>13, <2>1
  <2>4. OrderedUpTo(stock, onOrder, n, upTo[n])
    BY <2>2, <2>3, PlacingKeepsOrdered
  <2> QED
    BY <2>4 DEF n
<1> HIDE DEF T
<1>16. Nat \subseteq T
  BY <1>14, <1>15, SetInduction
<1>17. NodeCount - SupplierCount \in Nat /\ SupplierCount + (NodeCount - SupplierCount) = NodeCount
  BY <1>2
<1>18. NodeCount - SupplierCount \in T
  BY <1>16, <1>17
<1>19. OrderedUpTo(stock, onOrder, NodeCount, upTo[NodeCount])
  BY <1>17, <1>18, <1>2 DEF T
<1> QED
  BY <1>1, <1>19

\* How many nodes and how many suppliers there are.
LEMMA Counted == Cardinality(NetNodes) = NodeCount /\ Cardinality(Suppliers) = SupplierCount
                 /\ IsFiniteSet(Suppliers) /\ IsFiniteSet(Reordering)
<1>1. 1 \in Int /\ NodeCount \in Nat /\ SupplierCount \in Nat /\ 1 <= SupplierCount /\ 1 <= NodeCount
  BY NetConstants
<1>2. /\ Cardinality(1 .. NodeCount) = NodeCount - 1 + 1
      /\ Cardinality(1 .. SupplierCount) = SupplierCount - 1 + 1
  BY <1>1, FS_Interval
<1>3. IsFiniteSet(Suppliers) /\ IsFiniteSet(Reordering)
  BY NodesAre, FS_Subset
<1> QED
  BY <1>1, <1>2, <1>3 DEF NetNodes, Suppliers

\* Every step, all the suppliers produce.
LEMMA ProductionIs ==
    ASSUME NEW made, \A n \in Suppliers : made[n] = Production, \A n \in Reordering : made[n] = 0
    PROVE  SumFunctionOnSet(made, NetNodes) = SupplierCount * Production
<1>1. SumFunctionOnSet(made, Suppliers) = SupplierCount * Production
  <2>1. Production \in Int
    BY NetConstants
  <2> QED
    BY <2>1, Counted, SumConstant
<1>2. SumFunctionOnSet(made, Reordering) = 0
  <2>1. 0 \in Int /\ Cardinality(Reordering) \in Nat
    BY Counted, FS_CardinalityType
  <2>2. SumFunctionOnSet(made, Reordering) = Cardinality(Reordering) * 0
    BY <2>1, Counted, SumConstant
  <2> QED
    BY <2>1, <2>2
<1>3. \A n \in Suppliers \cup Reordering : made[n] \in Int
  BY NetConstants
<1>4. SumFunctionOnSet(made, Suppliers \cup Reordering) = SumFunctionOnSet(made, Suppliers)
                                                            + SumFunctionOnSet(made, Reordering)
  <2>1. IsFiniteSet(Suppliers) /\ IsFiniteSet(Reordering) /\ Suppliers \cap Reordering = {}
    BY Counted, NodesAre
  <2> QED
    BY <1>3, <2>1, SumUnion
<1>5. SupplierCount * Production \in Int
  BY NetConstants
<1> QED
  BY <1>1, <1>2, <1>4, <1>5, NodesAre

\* The network starts with its initial shelves and empty roads.
LEMMA NetStarts ==
    ASSUME NetInit
    PROVE  NetInv
<1>1. Initial \in Nat /\ OrderUpTo \in Nat /\ SupplierCount \in Nat /\ Production \in Nat /\ NodeCount \in Nat
  BY NetConstants
<1>2. /\ netTick = 0 /\ inFlight = {} /\ servedTotal = 0 /\ IsFiniteSet(inFlight)
      /\ inventory \in [NetNodes -> Nat] /\ \A n \in NetNodes : inventory[n] = Initial
      /\ orderHistory \in [NetNodes -> Seq(Nat)] /\ DOMAIN inventory = NetNodes
  BY <1>1, FS_EmptySet DEF NetInit, NetNodes
<1>3. NetTypes
  BY <1>2 DEF NetTypes
<1>4. QuantityOf(inFlight) = 0 /\ \A n \in NetNodes : QuantityOf(To(n, inFlight)) = 0
  BY <1>2, SumEmpty DEF QuantityOf, To
<1>5. SumFunctionOnSet(inventory, NetNodes) = NodeCount * Initial
  <2>1. Initial \in Int
    BY <1>1
  <2> QED
    BY <1>2, <2>1, Counted, NodesAre, SumConstant
<1>6. GoodsConserved
  <2>1. NodeCount * Initial \in Int /\ 0 * SupplierCount * Production = 0
    BY <1>1
  <2> QED
    BY <1>2, <1>4, <1>5, <2>1 DEF GoodsConserved, SumFunction
<1>7. ShelvesNotNegative
  BY <1>1, <1>2 DEF ShelvesNotNegative, NetNodes
<1>8. PositionWithinTarget
  BY <1>1, <1>2, <1>4, NodesAre DEF PositionWithinTarget
<1>9. ShortOnlyIfUpstreamEmpty /\ NothingOverdue
  BY <1>2 DEF ShortOnlyIfUpstreamEmpty, NothingOverdue
<1> QED
  BY <1>3, <1>6, <1>7, <1>8, <1>9 DEF NetInv, NetworkSound

\* step: arrivals, production, demand and orders, which each balance.
LEMMA NetStepKeeps ==
    ASSUME NetInv, NetStep
    PROVE  NetInv'
<1> DEFINE arrived == {s \in inFlight : Arrived(s)}
           travelling == Remaining(inFlight)
           stock == Stocked
<1>1. /\ netTick \in Nat /\ servedTotal \in Nat /\ inventory \in [NetNodes -> Nat] /\ DOMAIN inventory = NetNodes
      /\ IsFiniteSet(inFlight) /\ inFlight \subseteq Shipment /\ orderHistory \in [NetNodes -> Seq(Nat)]
  BY DEF NetInv, NetTypes
<1>2. PICK demand \in CityDemands :
        LET sold == [n \in 1 .. NodeCount |-> IF n \in Cities THEN Served(stock, demand, n) ELSE 0]
            ordered == Ordered([n \in 1 .. NodeCount |-> stock[n] - sold[n]],
                               [n \in 1 .. NodeCount |-> QuantityOf(To(n, travelling))])
        IN  /\ servedTotal' = servedTotal + SumFunction(sold)
            /\ inventory' = ordered.stock
            /\ inFlight' = travelling \cup Shipments(ordered.placed)
            /\ orderHistory' = [n \in 1 .. NodeCount |->
                 IF n \in Reordering THEN Append(orderHistory[n], ordered.placed[n]) ELSE orderHistory[n]]
  BY DEF NetStep
<1> DEFINE sold == [n \in 1 .. NodeCount |-> IF n \in Cities THEN Served(stock, demand, n) ELSE 0]
           left == [n \in 1 .. NodeCount |-> stock[n] - sold[n]]
           onOrder == [n \in 1 .. NodeCount |-> QuantityOf(To(n, travelling))]
           ordered == Ordered(left, onOrder)
           new == Shipments(ordered.placed)
<1>3. /\ servedTotal' = servedTotal + SumFunction(sold) /\ inventory' = ordered.stock
      /\ inFlight' = travelling \cup new /\ netTick' = netTick + 1
      /\ orderHistory' = [n \in NetNodes |->
           IF n \in Reordering THEN Append(orderHistory[n], ordered.placed[n]) ELSE orderHistory[n]]
  BY <1>2 DEF NetStep, NetNodes
<1>4. /\ IsFiniteSet(arrived) /\ arrived \subseteq Shipment
      /\ IsFiniteSet(travelling) /\ travelling \subseteq Shipment
      /\ inFlight = arrived \cup travelling /\ arrived \cap travelling = {}
  BY <1>1, FS_Subset DEF Remaining
<1>5. /\ QuantityOf(inFlight) = QuantityOf(arrived) + QuantityOf(travelling)
      /\ QuantityOf(arrived) \in Nat /\ QuantityOf(travelling) \in Nat
  <2> HIDE DEF arrived, travelling
  <2> QED
    BY <1>4, QuantityUnion, QuantityType
<1>6. ASSUME NEW n \in NetNodes
      PROVE  /\ QuantityOf(To(n, inFlight)) = QuantityOf(To(n, arrived)) + QuantityOf(To(n, travelling))
             /\ QuantityOf(To(n, arrived)) \in Nat /\ QuantityOf(To(n, travelling)) \in Nat
  <2> HIDE DEF arrived, travelling
  <2>1. /\ IsFiniteSet(To(n, arrived)) /\ To(n, arrived) \subseteq Shipment
        /\ IsFiniteSet(To(n, travelling)) /\ To(n, travelling) \subseteq Shipment
        /\ QuantityOf(To(n, arrived)) \in Nat /\ QuantityOf(To(n, travelling)) \in Nat
    BY <1>4, QuantityByNode
  <2>2. To(n, inFlight) = To(n, arrived) \cup To(n, travelling) /\ To(n, arrived) \cap To(n, travelling) = {}
    BY <1>4 DEF To
  <2>3. QuantityOf(To(n, arrived) \cup To(n, travelling)) = QuantityOf(To(n, arrived)) + QuantityOf(To(n, travelling))
    BY <2>1, <2>2, QuantityUnion
  <2> QED
    BY <2>1, <2>2, <2>3
\* what is on the shelves before anybody is served
<1> DEFINE made == [n \in NetNodes |-> IF n \in Suppliers THEN Production ELSE 0]
           came == [n \in NetNodes |-> QuantityOf(To(n, arrived))]
           shelf == [n \in NetNodes |-> inventory[n] + made[n]]
<1>7. /\ \A n \in NetNodes : made[n] \in Nat /\ came[n] \in Nat /\ inventory[n] \in Nat
      /\ \A n \in NetNodes : stock[n] = (inventory[n] + made[n]) + came[n]
      /\ DOMAIN stock = NetNodes /\ stock = [n \in NetNodes |-> stock[n]]
      /\ \A n \in Suppliers : made[n] = Production
      /\ \A n \in Reordering : made[n] = 0
      /\ \A n \in NetNodes : came[n] = QuantityOf(To(n, arrived))
  <2>1. \A n \in NetNodes : made[n] \in Nat
    BY NetConstants
  <2>2. \A n \in NetNodes : came[n] \in Nat
    BY <1>6
  <2>3. \A n \in NetNodes : inventory[n] \in Nat
    BY <1>1
  <2>4. stock = [n \in NetNodes |-> inventory[n] + made[n] + came[n]]
    BY DEF Stocked, NetNodes
  <2>5. /\ \A n \in Suppliers : made[n] = Production
        /\ \A n \in Reordering : made[n] = 0
    BY NodesAre
  <2> QED
    BY <2>1, <2>2, <2>3, <2>4, <2>5
<1>8. \A n \in NetNodes : stock[n] \in Nat
  <2> HIDE DEF stock, made, came
  <2> QED
    BY <1>7
<1>9. SumFunctionOnSet(stock, NetNodes)
        = (SumFunctionOnSet(inventory, NetNodes) + SupplierCount * Production) + QuantityOf(arrived)
  <2>1. SumFunctionOnSet(came, NetNodes) = QuantityOf(arrived)
    <3> HIDE DEF arrived
    <3> QED
      BY <1>4, QuantityByNode
  <2>2. \A n \in NetNodes : shelf[n] = inventory[n] + made[n] /\ shelf[n] \in Int /\ stock[n] = shelf[n] + came[n]
    BY <1>7
  <2> HIDE DEF stock, made, came, shelf, arrived
  <2>3. SumFunctionOnSet(made, NetNodes) = SupplierCount * Production
    BY <1>7, ProductionIs
  <2>4. \A n \in NetNodes : inventory[n] \in Int /\ made[n] \in Int /\ came[n] \in Int
    BY <1>7
  <2>5. SumFunctionOnSet(shelf, NetNodes) = SumFunctionOnSet(inventory, NetNodes) + SumFunctionOnSet(made, NetNodes)
    <3>1. \A n \in NetNodes : inventory[n] \in Int /\ made[n] \in Int /\ shelf[n] = inventory[n] + made[n]
      BY <2>2, <2>4
    <3>2. IsFiniteSet(NetNodes)
      BY NodesAre
    <3> QED
      BY <3>1, <3>2, SumPlus
  <2>6. SumFunctionOnSet(stock, NetNodes) = SumFunctionOnSet(shelf, NetNodes) + SumFunctionOnSet(came, NetNodes)
    <3>1. \A n \in NetNodes : shelf[n] \in Int /\ came[n] \in Int /\ stock[n] = shelf[n] + came[n]
      BY <2>2, <2>4
    <3>2. IsFiniteSet(NetNodes)
      BY NodesAre
    <3> QED
      BY <3>1, <3>2, SumPlus
  <2> QED
    BY <2>1, <2>3, <2>5, <2>6
\* and after the cities have been
<1>10. ASSUME NEW n \in NetNodes
       PROVE  sold[n] \in Nat /\ left[n] \in Nat /\ left[n] <= stock[n] /\ stock[n] = left[n] + sold[n]
  <2>1. CASE n \in Cities
    <3>1. sold[n] = Served(stock, demand, n)
      BY <2>1 DEF NetNodes
    <3>2. demand[n] \in Nat /\ stock[n] \in Nat
      BY <1>8, <2>1, NetConstants DEF CityDemands
    <3>3. left[n] = stock[n] - sold[n]
      BY DEF NetNodes
    <3> HIDE DEF stock, sold, left
    <3>4. sold[n] \in Nat /\ sold[n] <= stock[n]
      BY <3>1, <3>2 DEF Served
    <3> QED
      BY <3>2, <3>3, <3>4
  <2>2. CASE n \notin Cities
    <3>1. sold[n] = 0 /\ left[n] = stock[n] - sold[n]
      BY <2>2 DEF NetNodes
    <3>2. stock[n] \in Nat
      BY <1>8
    <3> HIDE DEF stock, sold, left
    <3> QED
      BY <3>1, <3>2
  <2> QED
    BY <2>1, <2>2
<1>11. left \in [NetNodes -> Nat] /\ onOrder \in [NetNodes -> Nat] /\ DOMAIN sold = NetNodes
       /\ \A n \in NetNodes : onOrder[n] = QuantityOf(To(n, travelling))
  <2>1. left \in [NetNodes -> Nat]
    <3>1. left = [n \in NetNodes |-> left[n]]
      BY DEF NetNodes
    <3> HIDE DEF left
    <3> QED
      BY <1>10, <3>1
  <2>2. onOrder = [n \in NetNodes |-> QuantityOf(To(n, travelling))] /\ DOMAIN sold = NetNodes
    BY DEF NetNodes
  <2> QED
    BY <1>6, <2>1, <2>2
<1>12. SumFunctionOnSet(stock, NetNodes) = SumFunctionOnSet(left, NetNodes) + SumFunctionOnSet(sold, NetNodes)
       /\ SumFunctionOnSet(sold, NetNodes) \in Nat /\ SumFunction(sold) = SumFunctionOnSet(sold, NetNodes)
  <2>1. \A n \in NetNodes : left[n] \in Int /\ sold[n] \in Int /\ stock[n] = left[n] + sold[n]
    BY <1>10
  <2>2. \A n \in NetNodes : sold[n] \in Nat
    BY <1>10
  <2>3. SumFunction(sold) = SumFunctionOnSet(sold, NetNodes)
    BY <1>11 DEF SumFunction
  <2> HIDE DEF left, sold, stock
  <2>4. SumFunctionOnSet(stock, NetNodes) = SumFunctionOnSet(left, NetNodes) + SumFunctionOnSet(sold, NetNodes)
    <3>1. IsFiniteSet(NetNodes)
      BY NodesAre
    <3> QED
      BY <2>1, <3>1, SumPlus
  <2>5. SumFunctionOnSet(sold, NetNodes) \in Nat
    BY <2>2, NodesAre, SumSubset
  <2> QED
    BY <2>3, <2>4, <2>5
<1>13. OrderedUpTo(left, onOrder, NodeCount, ordered)
  <2> HIDE DEF left, onOrder
  <2> QED
    BY <1>11, OrderedIs
<1>14. /\ ordered.stock \in [NetNodes -> Nat] /\ ordered.placed \in [NetNodes -> Nat]
       /\ \A n \in NetNodes : ordered.placed[n] > 0 => n \in Reordering
  BY <1>13 DEF OrderedUpTo, OrderState
<1> HIDE DEF ordered
<1>15. /\ IsFiniteSet(new) /\ new \subseteq Shipment
       /\ \A s \in new : s.arrives = netTick + Lead
       /\ \A n \in NetNodes : QuantityOf(To(n, new)) = ordered.placed[n]
       /\ QuantityOf(new) = SumFunctionOnSet(ordered.placed, NetNodes)
  BY <1>1, <1>14, ShipmentsAre
<1>16. \A s \in travelling : s.arrives \in (netTick + 1) .. (netTick + Lead - 1)
  <2>1. \A s \in travelling : s \in inFlight /\ ~(s.arrives <= netTick)
    BY DEF Remaining, Arrived
  <2>2. \A s \in inFlight : s.arrives \in netTick .. (netTick + Lead - 1)
    BY DEF NetInv, NetworkSound, NothingOverdue
  <2>3. Lead \in Nat
    BY NetConstants
  <2> QED
    BY <1>1, <2>1, <2>2, <2>3
<1> HIDE DEF new, travelling, arrived, stock, sold, left, onOrder, made, came, shelf
<1>17. travelling \cap new = {}
  <2>1. Lead \in Nat
    BY NetConstants
  <2> QED
    BY <1>1, <1>15, <1>16, <2>1
<1>18. NetTypes'
  <2>1. netTick' \in Nat /\ servedTotal' \in Nat /\ inventory' \in [NetNodes -> Nat]
    BY <1>1, <1>3, <1>12, <1>14
  <2>2. IsFiniteSet(inFlight') /\ inFlight' \subseteq Shipment
    BY <1>3, <1>4, <1>15, FS_Union
  <2>3. orderHistory' \in [NetNodes -> Seq(Nat)]
    <3>1. \A n \in NetNodes : orderHistory[n] \in Seq(Nat) /\ ordered.placed[n] \in Nat
      BY <1>1, <1>14
    <3>2. \A n \in NetNodes : Append(orderHistory[n], ordered.placed[n]) \in Seq(Nat)
      BY <3>1, AppendProperties
    <3> QED
      BY <1>3, <3>1, <3>2
  <2> QED
    BY <2>1, <2>2, <2>3 DEF NetTypes
<1>19. GoodsConserved'
  <2>1. QuantityOf(inFlight') = QuantityOf(travelling) + QuantityOf(new)
    <3>1. QuantityOf(travelling \cup new) = QuantityOf(travelling) + QuantityOf(new)
      BY <1>4, <1>15, <1>17, QuantityUnion
    <3> QED
      BY <3>1, <1>3
  <2>2. SumFunction(inventory)' = SumFunctionOnSet(ordered.stock, NetNodes)
        /\ SumFunction(inventory) = SumFunctionOnSet(inventory, NetNodes)
    <3>1. DOMAIN inventory' = NetNodes
      BY <1>3, <1>14
    <3> QED
      BY <1>1, <1>3, <3>1 DEF SumFunction
  <2>3. SumFunctionOnSet(ordered.stock, NetNodes) + SumFunctionOnSet(ordered.placed, NetNodes)
          = SumFunctionOnSet(left, NetNodes)
    BY <1>13 DEF OrderedUpTo
  <2>4. SumFunctionOnSet(inventory, NetNodes) + QuantityOf(inFlight) + servedTotal
          = NodeCount * Initial + netTick * SupplierCount * Production
    BY <2>2 DEF NetInv, NetworkSound, GoodsConserved
  <2>5. /\ SumFunctionOnSet(inventory, NetNodes) \in Int /\ SumFunctionOnSet(left, NetNodes) \in Int
        /\ SumFunctionOnSet(ordered.stock, NetNodes) \in Int /\ SumFunctionOnSet(ordered.placed, NetNodes) \in Int
    <3>1. /\ \A n \in NetNodes : inventory[n] \in Int /\ left[n] \in Int
      BY <1>1, <1>10
    <3>2. SumFunctionOnSet(inventory, NetNodes) \in Int
      BY <3>1, NodesAre, SumType
    <3>3. SumFunctionOnSet(left, NetNodes) \in Int
      BY <3>1, NodesAre, SumType
    <3> DEFINE os == ordered.stock
               op == ordered.placed
    <3>4. (\A n \in NetNodes : os[n] \in Int) /\ (\A n \in NetNodes : op[n] \in Int)
      BY <1>14
    <3> HIDE DEF os, op
    <3>5. SumFunctionOnSet(os, NetNodes) \in Int
      BY <3>4, NodesAre, SumType
    <3>6. SumFunctionOnSet(op, NetNodes) \in Int
      BY <3>4, NodesAre, SumType
    <3> QED
      BY <3>2, <3>3, <3>5, <3>6 DEF os, op
  <2> DEFINE made1 == SupplierCount * Production
             all == NodeCount * Initial
             madeSoFar == netTick * SupplierCount * Production
  <2>6. made1 \in Int /\ all \in Int /\ madeSoFar \in Int
        /\ (netTick + 1) * SupplierCount * Production = madeSoFar + made1
    BY <1>1, NetConstants
  <2>7. SumFunctionOnSet(inventory, NetNodes) + QuantityOf(inFlight) + servedTotal = all + madeSoFar
    BY <2>4
  <2>8. SumFunctionOnSet(stock, NetNodes) = (SumFunctionOnSet(inventory, NetNodes) + made1) + QuantityOf(arrived)
    BY <1>9
  <2>9. QuantityOf(new) = SumFunctionOnSet(ordered.placed, NetNodes)
    BY <1>15
  <2> HIDE DEF made1, all, madeSoFar
  <2>10. SumFunctionOnSet(ordered.stock, NetNodes) + QuantityOf(inFlight') + servedTotal' = all + (madeSoFar + made1)
    <3> DEFINE si == SumFunctionOnSet(inventory, NetNodes)
               sl == SumFunctionOnSet(left, NetNodes)
               ss == SumFunctionOnSet(sold, NetNodes)
               os == SumFunctionOnSet(ordered.stock, NetNodes)
               op == SumFunctionOnSet(ordered.placed, NetNodes)
               qa == QuantityOf(arrived)
               qt == QuantityOf(travelling)
    <3>1. /\ {si, sl, ss, os, op, qa, qt, all, madeSoFar, made1, servedTotal} \subseteq Int
          /\ si + (qa + qt) + servedTotal = all + madeSoFar
          /\ (si + made1) + qa = sl + ss
          /\ os + op = sl
      BY <1>1, <1>5, <1>12, <2>3, <2>5, <2>6, <2>7, <2>8
    <3>2. QuantityOf(inFlight') = qt + op /\ servedTotal' = servedTotal + ss
      BY <1>3, <1>12, <2>1, <2>9
    <3> HIDE DEF si, sl, ss, os, op, qa, qt
    <3>3. os + (qt + op) + (servedTotal + ss) = all + (madeSoFar + made1)
      BY <3>1
    <3> QED
      BY <3>2, <3>3 DEF os
  <2>11. SumFunction(inventory)' + QuantityOf(inFlight') + servedTotal'
           = all + (netTick + 1) * SupplierCount * Production
    BY <2>2, <2>6, <2>10
  <2> QED
    BY <2>11, <1>3 DEF GoodsConserved, all
<1>20. ShelvesNotNegative'
  <2>1. \A n \in NetNodes : inventory'[n] >= 0
    BY <1>3, <1>14
  <2> QED
    BY <2>1 DEF ShelvesNotNegative, NetNodes
<1>21. \A n \in NetNodes : /\ QuantityOf(To(n, inFlight')) = onOrder[n] + ordered.placed[n]
                        /\ onOrder[n] \in Nat /\ ordered.placed[n] \in Nat
                        /\ ordered.stock[n] \in Nat /\ ordered.stock[n] <= left[n] /\ left[n] \in Nat
  <2> TAKE n \in NetNodes
  <2>1. To(n, inFlight') = To(n, travelling) \cup To(n, new) /\ To(n, travelling) \cap To(n, new) = {}
    BY <1>3, <1>17 DEF To
  <2>2. /\ IsFiniteSet(To(n, travelling)) /\ To(n, travelling) \subseteq Shipment
        /\ IsFiniteSet(To(n, new)) /\ To(n, new) \subseteq Shipment
    BY <1>4, <1>15, QuantityByNode
  <2>3. QuantityOf(To(n, travelling) \cup To(n, new)) = QuantityOf(To(n, travelling)) + QuantityOf(To(n, new))
    BY <2>1, <2>2, QuantityUnion
  <2>4. ordered.stock[n] <= left[n]
    BY <1>13 DEF OrderedUpTo
  <2>5. onOrder[n] \in Nat /\ ordered.placed[n] \in Nat /\ ordered.stock[n] \in Nat /\ left[n] \in Nat
    BY <1>10, <1>11, <1>14
  <2> QED
    BY <2>1, <2>3, <2>4, <2>5, <1>11, <1>15
<1>22. PositionWithinTarget'
  <2> DEFINE target == IF Initial > OrderUpTo THEN Initial ELSE OrderUpTo
  <2> SUFFICES ASSUME NEW n \in Reordering
               PROVE  ordered.stock[n] + QuantityOf(To(n, inFlight')) <= target
    BY <1>3 DEF PositionWithinTarget
  <2>1. n \in NetNodes /\ target \in Nat /\ OrderUpTo <= target
    BY NodesAre, NetConstants
  <2>2. inventory[n] + QuantityOf(To(n, inFlight)) <= target
    BY DEF NetInv, NetworkSound, PositionWithinTarget
  <2> HIDE DEF target
  <2>3. CASE ordered.placed[n] > 0
    <3>1. ordered.stock[n] + onOrder[n] + ordered.placed[n] <= OrderUpTo
      BY <1>13, <2>1, <2>3 DEF OrderedUpTo
    <3>2. OrderUpTo \in Nat
      BY NetConstants
    <3> QED
      BY <1>21, <2>1, <3>1, <3>2
  <2>4. CASE ~(ordered.placed[n] > 0)
    <3>1. ordered.placed[n] = 0
      BY <1>21, <2>1, <2>4
    <3>2. /\ stock[n] = inventory[n] + QuantityOf(To(n, arrived)) /\ inventory[n] \in Nat
          /\ QuantityOf(To(n, arrived)) \in Nat
      BY <1>7, <2>1
    <3>3. QuantityOf(To(n, inFlight)) = QuantityOf(To(n, arrived)) + onOrder[n]
      BY <1>6, <1>11, <2>1
    <3>4. left[n] <= stock[n]
      BY <1>10, <2>1
    <3> QED
      BY <1>21, <2>1, <2>2, <3>1, <3>2, <3>3, <3>4
  <2> QED
    BY <2>3, <2>4
<1>23. ShortOnlyIfUpstreamEmpty'
  <2> SUFFICES ASSUME NEW n \in Cities, ordered.stock[n] + QuantityOf(To(n, inFlight')) < ReorderPoint
               PROVE  ordered.stock[UpstreamOf(n)] = 0
    BY <1>3 DEF ShortOnlyIfUpstreamEmpty
  <2>1. n \in NetNodes /\ n <= NodeCount
    BY NodesAre, NetConstants DEF NetNodes
  <2>2. ordered.stock[n] = left[n]
    BY <1>13 DEF OrderedUpTo
  <2>3. left[n] + onOrder[n] + ordered.placed[n] < ReorderPoint
    <3>1. ReorderPoint \in Nat
      BY NetConstants
    <3> QED
      BY <1>21, <2>1, <2>2, <3>1
  <2> QED
    BY <1>13, <2>1, <2>3 DEF OrderedUpTo
<1>24. NothingOverdue'
  <2>1. \A s \in inFlight' : s.arrives \in (netTick + 1) .. (netTick + 1 + Lead - 1)
    <3>1. Lead \in Nat \ {0}
      BY NetConstants
    <3> QED
      BY <1>1, <1>3, <1>15, <1>16, <3>1
  <2> QED
    BY <1>3, <2>1 DEF NothingOverdue
<1> QED
  BY <1>18, <1>19, <1>20, <1>22, <1>23, <1>24 DEF NetInv, NetworkSound

\* A step of another service leaves the network alone.
LEMMA NetRests ==
    ASSUME NetInv, UNCHANGED netVars
    PROVE  NetInv'
BY DEF netVars, NetInv, NetTypes, NetworkSound, GoodsConserved, ShelvesNotNegative, PositionWithinTarget,
       ShortOnlyIfUpstreamEmpty, NothingOverdue

\* The supply network of any size, with any rates, targets, lead time and demand: no goods come or
\* go between its tiers, no shelf goes below zero, nobody orders what is on its way already, and a
\* city is short only when its distributor is empty (EchelonNetwork.build, step).
THEOREM NetworkSoundHolds == Spec => []NetworkSound
<1>1. Init => NetInv
  BY NetStarts DEF Init
<1>2. NetInv /\ [Next]_vars => NetInv'
  BY Parts, NetStepKeeps, NetRests
<1>3. NetInv => NetworkSound
  BY DEF NetInv
<1> QED
  BY <1>1, <1>2, <1>3, PTL DEF Spec

----------------------------------------------------------------------------
(* The turns of the pipeline                                               *)

PipelineTypes ==
    /\ clock \in Nat /\ clock > 0 /\ observed \in Nat /\ warned \in BOOLEAN
    /\ cadences \in [Names -> Nat \ {0}] /\ lastRun \in [Names -> Nat] /\ results \in [Names -> Nat]
    /\ points \in Nat /\ rocAt \in Nat

\* Before the first warning the cadences are those of the consumers.
CadenceOf(c) == Consumers[Place(c)].cadence
FirstCadences == ~warned => \A c \in Names : cadences[c] = CadenceOf(c)

PipelineInv == PipelineTypes /\ FirstCadences /\ CadencesDoubledOnce /\ PointsOfTheLatestFit

\* A name is the name of the consumer at its place.
LEMMA Placed ==
    ASSUME NEW c \in Names
    PROVE  /\ Place(c) \in DOMAIN Consumers /\ Place(c) \in 1 .. Len(Consumers)
           /\ Consumers[Place(c)].name = c
           /\ CadenceOf(c) \in Nat \ {0}
<1>1. \E i \in DOMAIN Consumers : Consumers[i].name = c
  BY DEF Names
<1>2. Place(c) \in DOMAIN Consumers /\ Consumers[Place(c)].name = c
  BY <1>1 DEF Place
<1>3. \A i \in DOMAIN Consumers :
        Consumers[i] \in [name : STRING, cadence : Nat \ {0}, needs : Nat \ {0}, guarded : BOOLEAN]
  <2> DEFINE C == [name : STRING, cadence : Nat \ {0}, needs : Nat \ {0}, guarded : BOOLEAN]
  <2>1. Consumers \in Seq(C)
    BY PipelineAssumption
  <2> HIDE DEF C
  <2>2. \A i \in DOMAIN Consumers : Consumers[i] \in C
    BY <2>1
  <2> QED
    BY <2>2 DEF C
<1>4. DOMAIN Consumers = 1 .. Len(Consumers)
  BY PipelineAssumption
<1> QED
  BY <1>2, <1>3, <1>4 DEF CadenceOf

\* Nothing has run when the pipeline is built.
LEMMA PipelineStarts ==
    ASSUME PipelineInit
    PROVE  PipelineInv
<1>1. \A c \in Names : cadences[c] = CadenceOf(c) /\ CadenceOf(c) \in Nat \ {0}
  BY Placed DEF PipelineInit, CadenceOf
<1>2. cadences \in [Names -> Nat \ {0}]
  BY <1>1, Placed DEF PipelineInit, CadenceOf
<1>3. PipelineTypes
  <2>1. clock = 1 /\ observed = 0 /\ warned = FALSE /\ points = 0 /\ rocAt = 0
    BY DEF PipelineInit
  <2>2. lastRun \in [Names -> Nat] /\ results \in [Names -> Nat]
    BY DEF PipelineInit
  <2> QED
    <3>1. clock \in Nat /\ clock > 0 /\ observed \in Nat /\ points \in Nat /\ rocAt \in Nat
      BY <2>1
    <3>2. warned \in BOOLEAN
      BY <2>1
    <3> QED
      BY <1>2, <2>2, <3>1, <3>2 DEF PipelineTypes
<1>4. "regression" \in Names
  BY PipelineAssumption DEF Names
<1> QED
  BY <1>1, <1>3, <1>4 DEF PipelineInit, PipelineInv, FirstCadences, CadencesDoubledOnce,
                          PointsOfTheLatestFit, CadenceOf

\* What a recompute leaves of a consumer: it has run now, or it was not its turn.
LEMMA Recomputed ==
    ASSUME PipelineInv, Recompute
    PROVE  \E failed \in Nat \ {0} :
             /\ failed = Len(Consumers) + 1 \/
                  \E c \in Names : failed = Place(c) /\ Due(c) /\ Ready(c)
             /\ failedAt' = IF failed \in DOMAIN Consumers THEN failed ELSE 0
             /\ \A c \in Names : lastRun'[c] = IF c \in RunsBefore(failed) THEN clock ELSE lastRun[c]
             /\ points' = PointsAfter(RunsBefore(failed), results')
             /\ \A c \in Names : c \notin RunsBefore(failed) => results'[c] = results[c]
             /\ \A c \in RunsBefore(failed) : results'[c] \in {0, clock}
             /\ rocAt' \in {rocAt, clock}
             /\ lastRun' \in [Names -> Nat] /\ results' \in [Names -> Nat]
<1>1. PICK failed \in {Len(Consumers) + 1} \cup
                {Place(c) : c \in {d \in Names : Due(d) /\ Ready(d) /\ ~Consumers[Place(d)].guarded}} :
        LET runs == RunsBefore(failed) IN
        /\ \E empty \in SUBSET {c \in runs : Consumers[Place(c)].guarded} :
             LET new == [c \in Names |-> IF c \in empty THEN 0 ELSE IF c \in runs THEN clock ELSE results[c]] IN
             /\ results' = new
             /\ points' = PointsAfter(runs, new)
             /\ rocAt' = IF failed > Place("logit") /\ new["logit"] # 0 /\ rocAt = 0 THEN clock ELSE rocAt
        /\ lastRun' = [c \in Names |-> IF c \in runs THEN clock ELSE lastRun[c]]
        /\ failedAt' = IF failed \in DOMAIN Consumers THEN failed ELSE 0
  BY DEF Recompute
<1> DEFINE runs == RunsBefore(failed)
<1>2. PICK empty \in SUBSET {c \in runs : Consumers[Place(c)].guarded} :
        /\ results' = [c \in Names |-> IF c \in empty THEN 0 ELSE IF c \in runs THEN clock ELSE results[c]]
        /\ points' = PointsAfter(runs, results')
        /\ rocAt' \in {rocAt, clock}
  BY <1>1
<1>3. /\ failed \in Nat \ {0}
      /\ failed = Len(Consumers) + 1 \/ \E c \in Names : failed = Place(c) /\ Due(c) /\ Ready(c)
  <2>1. Len(Consumers) \in Nat
    BY PipelineAssumption
  <2> QED
    BY <1>1, <2>1, Placed
<1>4. runs \subseteq Names /\ clock \in Nat /\ lastRun \in [Names -> Nat] /\ results \in [Names -> Nat]
  BY DEF RunsBefore, PipelineInv, PipelineTypes
<1>5. /\ lastRun' = [c \in Names |-> IF c \in runs THEN clock ELSE lastRun[c]]
      /\ failedAt' = IF failed \in DOMAIN Consumers THEN failed ELSE 0
  BY <1>1
<1> HIDE DEF runs
<1>6. \A c \in Names : lastRun'[c] = IF c \in runs THEN clock ELSE lastRun[c]
  BY <1>5
<1>7. lastRun' \in [Names -> Nat]
  BY <1>4, <1>5
<1>8. results' \in [Names -> Nat]
  BY <1>2, <1>4
<1>9. /\ \A c \in Names : c \notin runs => results'[c] = results[c]
      /\ \A c \in runs : results'[c] \in {0, clock}
  BY <1>2, <1>4
<1> QED
  BY <1>2, <1>3, <1>5, <1>6, <1>7, <1>8, <1>9 DEF runs

\* No call makes a warning double twice or lets points outlast their fit.
LEMMA PipelineSteps ==
    ASSUME PipelineInv, [PipelineNext]_pipelineVars
    PROVE  PipelineInv'
<1> USE DEF PipelineInv
<1>1. CASE Observe \/ PassTime
  BY <1>1 DEF Observe, PassTime, PipelineTypes, FirstCadences, CadencesDoubledOnce, PointsOfTheLatestFit
<1>2. CASE UNCHANGED pipelineVars
  BY <1>2 DEF pipelineVars, PipelineTypes, FirstCadences, CadencesDoubledOnce, PointsOfTheLatestFit
<1>3. CASE RelaxForBudget
  <2>1. /\ warned' = TRUE /\ UNCHANGED <<clock, observed, lastRun, results, points, rocAt>>
        /\ cadences' = [c \in Names |-> IF c \in Relaxed /\ ~warned THEN 2 * cadences[c] ELSE cadences[c]]
    BY <1>3 DEF RelaxForBudget, MayRelax
  <2>2. cadences \in [Names -> Nat \ {0}]
    BY DEF PipelineTypes
  <2>3. \A c \in Names : cadences'[c] \in Nat \ {0} /\ cadences'[c] \in {cadences[c], 2 * cadences[c]}
                         /\ (warned => cadences'[c] = cadences[c])
    BY <2>1, <2>2
  <2>4. cadences' \in [Names -> Nat \ {0}]
    BY <2>1, <2>2
  <2>5. PipelineTypes'
    BY <2>1, <2>4 DEF PipelineTypes
  <2>6. \A c \in Names : cadences'[c] \in {CadenceOf(c), 2 * CadenceOf(c)}
    BY <2>3 DEF FirstCadences, CadencesDoubledOnce, CadenceOf, PipelineTypes
  <2> QED
    BY <2>1, <2>5, <2>6 DEF FirstCadences, CadencesDoubledOnce, PointsOfTheLatestFit, CadenceOf
<1>4. CASE Recompute
  <2>1. PICK failed \in Nat :
          /\ points' = PointsAfter(RunsBefore(failed), results')
          /\ \A c \in Names : c \notin RunsBefore(failed) => results'[c] = results[c]
          /\ \A c \in RunsBefore(failed) : results'[c] \in {0, clock}
          /\ rocAt' \in {rocAt, clock}
          /\ lastRun' \in [Names -> Nat] /\ results' \in [Names -> Nat]
    BY <1>4, Recomputed
  <2>2. UNCHANGED <<clock, observed, cadences, warned>>
    BY <1>4 DEF Recompute
  <2>3. "regression" \in Names
    BY PipelineAssumption DEF Names
  <2>4. results'["regression"] # 0 => points' = results'["regression"]
    BY <2>1, <2>3 DEF PointsAfter, PointsOfTheLatestFit
  <2>5. points' \in Nat
    BY <2>1, <2>3 DEF PointsAfter, PipelineTypes
  <2> QED
    BY <2>1, <2>2, <2>4, <2>5 DEF PipelineTypes, FirstCadences, CadencesDoubledOnce, PointsOfTheLatestFit
<1> QED
  BY <1>1, <1>2, <1>3, <1>4 DEF PipelineNext

\* Whoever is ready, and comes before the place where a recompute raises, has had its turn.
LEMMA TurnsTaken ==
    ASSUME PipelineInv, [PipelineNext]_pipelineVars
    PROVE  [lastRuns' # lastRuns \/ failedAt' # failedAt =>
              \A c \in Names :
                Ready(c) /\ (failedAt' = 0 \/ Place(c) < failedAt') => clock - lastRun'[c] < cadences[c]]_pipelineVars
<1> SUFFICES ASSUME lastRuns' # lastRuns \/ failedAt' # failedAt, NEW c \in Names,
                    Ready(c), failedAt' = 0 \/ Place(c) < failedAt'
             PROVE  clock - lastRun'[c] < cadences[c]
  BY DEF pipelineVars
<1>1. Recompute
  BY DEF PipelineNext, Observe, PassTime, RelaxForBudget, pipelineVars
<1>2. PICK failed \in Nat \ {0} :
        /\ failed = Len(Consumers) + 1 \/ \E d \in Names : failed = Place(d) /\ Due(d) /\ Ready(d)
        /\ failedAt' = IF failed \in DOMAIN Consumers THEN failed ELSE 0
        /\ lastRun'[c] = IF c \in RunsBefore(failed) THEN clock ELSE lastRun[c]
  BY <1>1, Recomputed
<1>3. clock \in Nat /\ lastRun[c] \in Nat /\ cadences[c] \in Nat \ {0}
  BY DEF PipelineInv, PipelineTypes
<1>4. CASE ~Due(c)
  BY <1>2, <1>3, <1>4 DEF RunsBefore, Due
<1>5. CASE Due(c)
  <2>1. Place(c) \in 1 .. Len(Consumers) /\ DOMAIN Consumers = 1 .. Len(Consumers) /\ Len(Consumers) \in Nat
    BY Placed, PipelineAssumption
  <2>2. Place(c) < failed
    <3>1. CASE failed \in DOMAIN Consumers
      BY <1>2, <2>1, <3>1
    <3>2. CASE failed \notin DOMAIN Consumers
      <4>1. failed = Len(Consumers) + 1
        BY <1>2, <3>2, Placed
      <4> QED
        BY <2>1, <4>1
    <3> QED
      BY <3>1, <3>2
  <2>3. lastRun'[c] = clock
    BY <1>2, <1>5, <2>2 DEF RunsBefore
  <2> QED
    BY <1>3, <2>3
<1> QED
  BY <1>4, <1>5

\* A consumer that raises is as due as before.
LEMMA RaisedIsDue ==
    ASSUME PipelineInv, [PipelineNext]_pipelineVars
    PROVE  [failedAt' # 0 /\ failedAt' # failedAt =>
              LET c == Consumers[failedAt'].name IN clock - lastRun'[c] >= cadences[c]]_pipelineVars
<1> SUFFICES ASSUME failedAt' # 0, failedAt' # failedAt
             PROVE  clock - lastRun'[Consumers[failedAt'].name] >= cadences[Consumers[failedAt'].name]
  BY DEF pipelineVars
<1>1. Recompute
  BY DEF PipelineNext, Observe, PassTime, RelaxForBudget, pipelineVars
<1>2. PICK failed \in Nat \ {0} :
        /\ failed = Len(Consumers) + 1 \/ \E d \in Names : failed = Place(d) /\ Due(d) /\ Ready(d)
        /\ failedAt' = IF failed \in DOMAIN Consumers THEN failed ELSE 0
        /\ \A d \in Names : lastRun'[d] = IF d \in RunsBefore(failed) THEN clock ELSE lastRun[d]
  BY <1>1, Recomputed
<1>3. DOMAIN Consumers = 1 .. Len(Consumers) /\ Len(Consumers) \in Nat
  BY PipelineAssumption
<1>4. failedAt' = failed /\ failed # Len(Consumers) + 1
  BY <1>2, <1>3
<1>5. PICK d \in Names : failed = Place(d) /\ Due(d)
  BY <1>2, <1>4
<1>6. Consumers[failed].name = d
  BY <1>5, Placed
<1>7. d \notin RunsBefore(failed)
  BY <1>5, Placed DEF RunsBefore
<1>8. lastRun'[d] = lastRun[d]
  BY <1>2, <1>7
<1> QED
  BY <1>4, <1>5, <1>6, <1>8 DEF Due

\* Any consumers, of any cadences and needs, whichever raise: none that is due is skipped or
\* forgotten, the points belong to the latest fit, and a low budget doubles a cadence once
\* (DashboardPipeline.recompute, degrade_for_dp_warning).
THEOREM TurnsSoundHolds == Spec => TurnsSound
<1>1. Init => PipelineInv
  BY PipelineStarts DEF Init
<1>2. PipelineInv /\ [Next]_vars => PipelineInv'
  BY Parts, PipelineSteps
<1>3. PipelineInv => PointsOfTheLatestFit /\ CadencesDoubledOnce
  BY DEF PipelineInv
<1>4. PipelineInv /\ [Next]_vars =>
        [lastRuns' # lastRuns \/ failedAt' # failedAt =>
           \A c \in Names :
             Ready(c) /\ (failedAt' = 0 \/ Place(c) < failedAt') => clock - lastRun'[c] < cadences[c]]_pipelineVars
  BY Parts, TurnsTaken
<1>5. PipelineInv /\ [Next]_vars =>
        [failedAt' # 0 /\ failedAt' # failedAt =>
           LET c == Consumers[failedAt'].name IN clock - lastRun'[c] >= cadences[c]]_pipelineVars
  BY Parts, RaisedIsDue
<1> QED
  BY <1>1, <1>2, <1>3, <1>4, <1>5, PTL DEF Spec, TurnsSound, NothingDueIsSkipped, FailedStaysDue

----------------------------------------------------------------------------
(* The operator's sessions                                                 *)

PlayedScenario == [start_tick : Nat, coins_start : Nat]
SaveRecord == [chain : Nat, sim : Nat, tick : 0 .. MaxTick, scenario : Nat, session : PlayedScenario, id : Nat]
Pointer == [sid : Nat, scenario : Nat, tick : Nat, save : Nat]

\* A dictionary whose values are in S.
Dictionary(f, S) == f \in [DOMAIN f -> S]

\* A save directory, after n saves, offers only what is whole.
Offers(d, n) ==
    /\ d = [pointer |-> d.pointer, dirs |-> d.dirs] /\ d.pointer \in Pointer
    /\ Dictionary(d.dirs, SaveRecord)
    /\ d.pointer = NoPointer \/ d.pointer.scenario \in Scenarios
    /\ d.pointer # NoPointer =>
         LET save == d.dirs[d.pointer.sid] IN
         /\ d.pointer.sid \in DOMAIN d.dirs
         /\ 0 < d.pointer.save /\ d.pointer.save <= save.scenario
         /\ save.scenario <= save.sim /\ save.sim <= save.chain /\ save.chain <= n

Runners(r) == Dictionary(r, PlayedScenario) /\ DOMAIN r \subseteq Scenarios

SessionTypes ==
    /\ worlds \in Seq(0 .. MaxTick) /\ loopWorld \in DOMAIN worlds
    /\ orch \in [world : DOMAIN worlds, sid : Nat, enabled : BOOLEAN]
    /\ ctx \in [world : {None} \cup DOMAIN worlds, coins : Nat]
    /\ Runners(runner) /\ saves \in Nat /\ resumed \in BOOLEAN

\* Until a save is resumed there is one world.
OneWorld ==
    ~resumed =>
      /\ orch.world = loopWorld /\ ctx.world \in {None, loopWorld}
      /\ \A s \in DOMAIN runner : ctx.world # None /\ runner[s].start_tick <= worlds[loopWorld]

\* What is assumed of the scenarios and of the bounds.
LEMMA SessionConstants ==
    /\ Scenarios \subseteq Nat /\ IsFiniteSet(Scenarios) /\ MaxTick \in Nat /\ MaxIds \in Nat
    /\ \A s \in Scenarios : s \notin 0 .. MaxIds /\ s # 0
BY OperatorSessionAssumption

\* g is f with v under k.
With(g, f, k, v) ==
    /\ DOMAIN g = DOMAIN f \cup {k} /\ g[k] = v
    /\ \A x \in DOMAIN f : x # k => g[x] = f[x]

\* What a dictionary holds when a key has been set.
LEMMA BindIs ==
    ASSUME NEW S, NEW f, Dictionary(f, S), NEW k, NEW v \in S
    PROVE  Dictionary(Bind(f, k, v), S) /\ With(Bind(f, k, v), f, k, v)
BY DEF Bind, Dictionary, With

\* g is f without k.
Without(g, f, k) == DOMAIN g = DOMAIN f \ {k} /\ \A x \in DOMAIN g : g[x] = f[x]

\* What it holds when keys have been taken out.
LEMMA DropIs ==
    ASSUME NEW S, NEW f, Dictionary(f, S), NEW k
    PROVE  Dictionary(Drop(f, k), S) /\ Without(Drop(f, k), f, k)
BY DEF Drop, Dictionary, Without

\* A dictionary without keys is the empty one.
LEMMA EmptyIs ==
    ASSUME NEW f, NEW S, Dictionary(f, S), DOMAIN f = {}
    PROVE  f = <<>>
BY DEF Dictionary

\* The empty dictionary has values of every kind.
LEMMA NoEntries == \A S : Dictionary(<<>>, S) /\ DOMAIN <<>> = {}
BY DEF Dictionary

\* The session started last is one of those in the runner.
LEMMA LastStartedIs ==
    ASSUME NEW r, Runners(r), r # <<>>
    PROVE  /\ LastStarted(r) \in DOMAIN r /\ LastStarted(r) \in Scenarios
           /\ r[LastStarted(r)] \in PlayedScenario
<1> DEFINE v == [s \in DOMAIN r |-> r[s].start_tick]
<1>1. \A s \in DOMAIN r : r[s] \in PlayedScenario
  BY DEF Runners, Dictionary
<1>2. \A s \in DOMAIN r : r[s].start_tick \in Int
  BY <1>1 DEF PlayedScenario
<1>3. v \in [DOMAIN r -> Int] /\ \A s \in DOMAIN r : v[s] = r[s].start_tick
  BY <1>2
<1>4. IsFiniteSet(DOMAIN r) /\ DOMAIN r # {}
  BY SessionConstants, FS_Subset, EmptyIs DEF Runners
<1> HIDE DEF v
<1>5. PICK s \in DOMAIN r : \A t \in DOMAIN r : v[t] <= v[s]
  BY <1>3, <1>4, GreatestValue
<1>6. \A t \in DOMAIN r : r[t].start_tick <= r[s].start_tick
  BY <1>3, <1>5
<1>7. LastStarted(r) \in DOMAIN r
  BY <1>6 DEF LastStarted
<1> QED
  BY <1>1, <1>7 DEF Runners

----------------------------------------------------------------------------
\* What is written in a save is in the order of its parts, whichever of them it reaches.
LEMMA SaveOffers ==
    ASSUME SessionTypes, Offers(saveDir, saves), NEW k \in 0 .. 4, NEW r, Runners(r), SaveCurrent(k, r)
    PROVE  saves' \in Nat /\ Offers(saveDir', saves')
<1>1. CASE r = <<>>
  BY <1>1 DEF SaveCurrent, SessionTypes
<1>2. CASE r # <<>>
  <2> DEFINE s == LastStarted(r)
             d == saveDir
             dir == SaveDir(orch.sid, s)
             n == saves + 1
             session == r[s]
             w == worlds[orch.world]
             old == IF dir \in DOMAIN d.dirs THEN d.dirs[dir]
                    ELSE [chain |-> 0, sim |-> 0, tick |-> 0, scenario |-> 0, session |-> session, id |-> s]
             new == [chain |-> IF k >= 1 THEN n ELSE old.chain,
                     sim |-> IF k >= 2 THEN n ELSE old.sim, tick |-> IF k >= 2 THEN w ELSE old.tick,
                     scenario |-> IF k >= 3 THEN n ELSE old.scenario,
                     session |-> IF k >= 3 THEN session ELSE old.session, id |-> IF k >= 3 THEN s ELSE old.id]
             pointer == IF k >= 4 THEN [sid |-> dir, scenario |-> s, tick |-> w, save |-> n] ELSE d.pointer
             dirs == IF k = 0 THEN d.dirs ELSE Bind(d.dirs, dir, new)
  <2>1. saves' = n /\ saveDir' = [pointer |-> pointer, dirs |-> dirs]
    BY <1>2 DEF SaveCurrent, WriteSave
  <2>2. s \in Scenarios /\ s \in Nat /\ session \in PlayedScenario
    BY <1>2, LastStartedIs, SessionConstants
  <2>3. saves \in Nat /\ n \in Nat /\ n > saves /\ dir \in Nat /\ w \in 0 .. MaxTick /\ MaxTick \in Nat /\ 0 \in 0 .. MaxTick
    <3>1. orch.world \in DOMAIN worlds /\ orch.sid \in Nat /\ worlds \in Seq(0 .. MaxTick) /\ saves \in Nat
      BY DEF SessionTypes
    <3>2. w \in 0 .. MaxTick
      <4> DEFINE T == 0 .. MaxTick
      <4>1. worlds \in Seq(T) /\ orch.world \in DOMAIN worlds
        BY <3>1
      <4> HIDE DEF T
      <4>2. worlds[orch.world] \in T
        BY <4>1
      <4> QED
        BY <4>2 DEF T
    <3> QED
      BY <2>2, <3>1, <3>2, SessionConstants DEF SaveDir
  <2>4. /\ Dictionary(d.dirs, SaveRecord) /\ d.pointer \in Pointer
        /\ d.pointer = NoPointer \/ d.pointer.scenario \in Scenarios
    BY DEF Offers
  <2> HIDE DEF s, dir, session, w, n
  <2>5. old \in SaveRecord
    <3>1. CASE dir \in DOMAIN d.dirs
      BY <2>4, <3>1 DEF Dictionary
    <3>2. CASE dir \notin DOMAIN d.dirs
      BY <2>2, <2>3, <3>2 DEF SaveRecord
    <3> QED
      BY <3>1, <3>2
  <2>6. dir \in DOMAIN d.dirs => old = d.dirs[dir]
    OBVIOUS
  <2> HIDE DEF old
  <2>7. /\ old.chain \in Nat /\ old.sim \in Nat /\ old.tick \in 0 .. MaxTick /\ old.scenario \in Nat
        /\ old.session \in PlayedScenario /\ old.id \in Nat
    BY <2>5 DEF SaveRecord
  <2>8. new \in SaveRecord
    BY <2>2, <2>3, <2>7 DEF SaveRecord
  <2>9. /\ new.chain = IF k >= 1 THEN n ELSE old.chain
        /\ new.sim = IF k >= 2 THEN n ELSE old.sim
        /\ new.scenario = IF k >= 3 THEN n ELSE old.scenario
    OBVIOUS
  <2> HIDE DEF new
  <2> DEFINE b == Bind(d.dirs, dir, new)
  <2>a. Dictionary(b, SaveRecord) /\ DOMAIN b = DOMAIN d.dirs \cup {dir} /\ b[dir] = new
        /\ \A x \in DOMAIN d.dirs : x # dir => b[x] = d.dirs[x]
    <3> DEFINE f == d.dirs
    <3>1. Dictionary(f, SaveRecord)
      BY <2>4
    <3> HIDE DEF f
    <3>2. Dictionary(Bind(f, dir, new), SaveRecord) /\ With(Bind(f, dir, new), f, dir, new)
      BY <2>8, <3>1, BindIs
    <3> QED
      BY <3>2 DEF f, With
  <2>b. dirs = IF k = 0 THEN d.dirs ELSE b
    OBVIOUS
  <2> HIDE DEF b, dirs
  <2>10. Dictionary(dirs, SaveRecord) /\ DOMAIN d.dirs \subseteq DOMAIN dirs
    BY <2>4, <2>a, <2>b
  <2>11. \A x \in DOMAIN d.dirs : x # dir => dirs[x] = d.dirs[x]
    BY <2>a, <2>b
  <2>12. k # 0 => dirs[dir] = new /\ dir \in DOMAIN dirs
    BY <2>a, <2>b
  <2>13. k = 0 => dirs = d.dirs
    BY <2>b
  <2>14. /\ pointer \in Pointer
         /\ pointer = NoPointer \/ pointer.scenario \in Scenarios
         /\ k >= 4 => pointer.sid = dir /\ pointer.save = n
         /\ ~(k >= 4) => pointer = d.pointer
    <3>1. w \in Nat
      BY <2>3
    <3> QED
      BY <2>2, <2>3, <2>4, <3>1 DEF Pointer
  <2> HIDE DEF pointer
  <2>15. ASSUME pointer # NoPointer
         PROVE  LET save == dirs[pointer.sid] IN
                /\ pointer.sid \in DOMAIN dirs
                /\ 0 < pointer.save /\ pointer.save <= save.scenario
                /\ save.scenario <= save.sim /\ save.sim <= save.chain /\ save.chain <= n
    <3>1. CASE k >= 4
      <4>1. dirs[pointer.sid] = new /\ pointer.sid \in DOMAIN dirs /\ pointer.save = n
        BY <2>12, <2>14, <3>1
      <4>2. new.chain = n /\ new.sim = n /\ new.scenario = n
        BY <2>9, <3>1
      <4> QED
        BY <2>3, <4>1, <4>2
    <3>2. CASE ~(k >= 4)
      <4> DEFINE x == d.pointer.sid
                 m == d.pointer.save
                 before == d.dirs[x]
      <4>1. pointer.sid = x /\ pointer.save = m /\ m \in Nat
        BY <2>4, <2>14, <3>2 DEF Pointer
      <4>2. /\ x \in DOMAIN d.dirs /\ 0 < m /\ m <= before.scenario
            /\ before.scenario <= before.sim /\ before.sim <= before.chain /\ before.chain <= saves
        BY <2>14, <2>15, <3>2 DEF Offers
      <4>3. before \in SaveRecord
        BY <2>4, <4>2 DEF Dictionary
      <4>4. before.chain \in Nat /\ before.sim \in Nat /\ before.scenario \in Nat
        BY <4>3 DEF SaveRecord
      <4>5. CASE k = 0 \/ x # dir
        <5>1. dirs[x] = before /\ x \in DOMAIN dirs
          BY <2>10, <2>11, <2>13, <4>2, <4>5
        <5> HIDE DEF before, m, x
        <5> QED
          BY <2>3, <4>1, <4>2, <4>4, <5>1
      <4>6. CASE k # 0 /\ x = dir
        <5>1. dirs[x] = new /\ x \in DOMAIN dirs /\ old = before
          BY <2>6, <2>12, <4>2, <4>6
        <5> HIDE DEF before, m, x
        <5>2. /\ new.chain = n /\ new.sim \in {n, before.sim} /\ new.scenario \in {n, before.scenario}
              /\ (new.scenario = n => new.sim = n)
          BY <2>9, <3>2, <4>6, <5>1, <2>3, <4>2, <4>4
        <5> QED
          BY <2>3, <4>1, <4>2, <4>4, <5>1, <5>2
      <4> QED
        BY <4>5, <4>6
    <3> QED
      BY <3>1, <3>2
  <2> DEFINE d2 == [pointer |-> pointer, dirs |-> dirs]
  <2>16. d2.pointer = pointer /\ d2.dirs = dirs /\ d2 = [pointer |-> d2.pointer, dirs |-> d2.dirs]
    OBVIOUS
  <2> HIDE DEF d2
  <2>17. Offers(d2, n)
    BY <2>10, <2>14, <2>15, <2>16 DEF Offers
  <2> QED
    BY <2>1, <2>3, <2>17 DEF d2
<1> QED
  BY <1>1, <1>2

----------------------------------------------------------------------------
\* The actions that a session's log has to tell of, and a log that does.
ActionOf == [sid : Nat, logged : BOOLEAN]
Mine(acts, s) == {i \in DOMAIN acts : acts[i].sid = s /\ acts[i].logged}
InLog(log, mine) ==
    /\ Len(log) = Cardinality(mine)
    /\ \A i, j \in DOMAIN log : log[i] \in mine /\ (i < j => log[i] < log[j])

LogIn(l, s) == IF s \in DOMAIN l.open THEN l.open[s] ELSE l.closed[s]

\* Open and closed logs are those of different sessions, of the n that there were.
Logged(l, acts, n) ==
    /\ l = [open |-> l.open, closed |-> l.closed]
    /\ Dictionary(l.open, Seq(Nat)) /\ Dictionary(l.closed, Seq(Nat))
    /\ DOMAIN l.open \cap DOMAIN l.closed = {}
    /\ DOMAIN l.open \cup DOMAIN l.closed \subseteq 1 .. n
    /\ \A i \in DOMAIN acts : acts[i].logged => acts[i].sid \in 1 .. n
    /\ \A s \in DOMAIN l.open \cup DOMAIN l.closed : InLog(LogIn(l, s), Mine(acts, s))

\* What is closed in l is closed for good in m.
Final(l, m) ==
    \A s \in DOMAIN l.closed :
      s \in DOMAIN m.closed /\ m.closed[s] = l.closed[s] /\ s \notin DOMAIN m.open

\* A log without sessions.
LEMMA NothingLogged == Logged([open |-> <<>>, closed |-> <<>>], <<>>, 0)
<1> DEFINE l == [open |-> <<>>, closed |-> <<>>]
<1>1. l.open = <<>> /\ l.closed = <<>> /\ l = [open |-> l.open, closed |-> l.closed]
  OBVIOUS
<1> HIDE DEF l
<1>2. Dictionary(l.open, Seq(Nat)) /\ Dictionary(l.closed, Seq(Nat)) /\ DOMAIN l.open = {} /\ DOMAIN l.closed = {}
  BY <1>1, NoEntries
<1>3. DOMAIN << >> = {}
  OBVIOUS
<1>4. Logged(l, << >>, 0)
  BY <1>1, <1>2, <1>3 DEF Logged
<1> QED
  BY <1>4 DEF l

\* close_session moves a log.
LEMMA LogMoved ==
    ASSUME NEW l, NEW acts, NEW n, Logged(l, acts, n), NEW sid
    PROVE  Logged(CloseLog(l, sid), acts, n) /\ Final(l, CloseLog(l, sid))
<1>1. CASE sid \notin DOMAIN l.open
  <2>1. CloseLog(l, sid) = l
    BY <1>1 DEF CloseLog
  <2>2. Final(l, l)
    BY DEF Logged, Final
  <2> QED
    BY <2>1, <2>2
<1>2. CASE sid \in DOMAIN l.open
  <2> DEFINE o == Drop(l.open, sid)
             c == Bind(l.closed, sid, l.open[sid])
             m == [open |-> o, closed |-> c]
             lo == l.open
             lc == l.closed
  <2>1. CloseLog(l, sid) = m
    BY <1>2 DEF CloseLog
  <2>2. Dictionary(lo, Seq(Nat)) /\ Dictionary(lc, Seq(Nat)) /\ lo[sid] \in Seq(Nat)
    BY <1>2 DEF Logged, Dictionary
  <2>3. m.open = o /\ m.closed = c /\ m = [open |-> m.open, closed |-> m.closed]
    OBVIOUS
  <2> HIDE DEF lo, lc, m
  <2>4. Dictionary(Drop(lo, sid), Seq(Nat)) /\ Without(Drop(lo, sid), lo, sid)
    BY <2>2, DropIs
  <2>5. Dictionary(Bind(lc, sid, lo[sid]), Seq(Nat)) /\ With(Bind(lc, sid, lo[sid]), lc, sid, lo[sid])
    BY <2>2, BindIs
  <2>6. Dictionary(o, Seq(Nat)) /\ Without(o, lo, sid) /\ Dictionary(c, Seq(Nat)) /\ With(c, lc, sid, lo[sid])
    BY <2>4, <2>5 DEF lo, lc
  <2> HIDE DEF o, c
  <2>7. /\ DOMAIN lo \cap DOMAIN lc = {} /\ DOMAIN lo \cup DOMAIN lc \subseteq 1 .. n /\ sid \in DOMAIN lo
        /\ \A i \in DOMAIN acts : acts[i].logged => acts[i].sid \in 1 .. n
        /\ \A s \in DOMAIN lo \cup DOMAIN lc : InLog(IF s \in DOMAIN lo THEN lo[s] ELSE lc[s], Mine(acts, s))
    BY <1>2 DEF Logged, lo, lc, LogIn
  <2>8. DOMAIN o = DOMAIN lo \ {sid} /\ DOMAIN c = DOMAIN lc \cup {sid}
    BY <2>6 DEF With, Without
  <2>9. ASSUME NEW s \in DOMAIN o \cup DOMAIN c
        PROVE  s \in DOMAIN lo \cup DOMAIN lc
               /\ (IF s \in DOMAIN o THEN o[s] ELSE c[s]) = (IF s \in DOMAIN lo THEN lo[s] ELSE lc[s])
    BY <2>6, <2>7, <2>8, <2>9 DEF With, Without
  <2>10. \A s \in DOMAIN m.open \cup DOMAIN m.closed : InLog(LogIn(m, s), Mine(acts, s))
    BY <2>3, <2>7, <2>9 DEF LogIn
  <2>11. Logged(m, acts, n)
    BY <2>3, <2>6, <2>7, <2>8, <2>10 DEF Logged
  <2>12. Final(l, m)
    BY <2>3, <2>6, <2>7, <2>8 DEF Final, With, lc
  <2> QED
    BY <2>1, <2>11, <2>12
<1> QED
  BY <1>1, <1>2

\* Enabling opens the log of a session that nothing was recorded of.
LEMMA LogOpened ==
    ASSUME NEW l, NEW acts, NEW n \in Nat, Logged(l, acts, n)
    PROVE  /\ Logged([l EXCEPT !.open = Bind(@, n + 1, <<>>)], acts, n + 1)
           /\ Final(l, [l EXCEPT !.open = Bind(@, n + 1, <<>>)])
<1> DEFINE lo == l.open
           lc == l.closed
           o == Bind(lo, n + 1, <<>>)
           m == [open |-> o, closed |-> lc]
<1>1. [l EXCEPT !.open = Bind(@, n + 1, <<>>)] = m
  BY DEF Logged
<1>2. m.open = o /\ m.closed = lc /\ m = [open |-> m.open, closed |-> m.closed]
  OBVIOUS
<1>3. /\ Dictionary(lo, Seq(Nat)) /\ Dictionary(lc, Seq(Nat))
      /\ DOMAIN lo \cap DOMAIN lc = {} /\ DOMAIN lo \cup DOMAIN lc \subseteq 1 .. n
      /\ \A i \in DOMAIN acts : acts[i].logged => acts[i].sid \in 1 .. n
      /\ \A s \in DOMAIN lo \cup DOMAIN lc : InLog(IF s \in DOMAIN lo THEN lo[s] ELSE lc[s], Mine(acts, s))
  BY DEF Logged, LogIn
<1> HIDE DEF lo, lc, m
<1>4. << >> \in Seq(Nat) /\ n + 1 \notin 1 .. n
  OBVIOUS
<1>5. Dictionary(Bind(lo, n + 1, <<>>), Seq(Nat)) /\ With(Bind(lo, n + 1, <<>>), lo, n + 1, <<>>)
  BY <1>3, <1>4, BindIs
<1>6. Dictionary(o, Seq(Nat)) /\ With(o, lo, n + 1, <<>>)
  BY <1>5
<1> HIDE DEF o
<1>7. DOMAIN o = DOMAIN lo \cup {n + 1} /\ o[n + 1] = <<>> /\ \A s \in DOMAIN lo : s # n + 1 => o[s] = lo[s]
  BY <1>6 DEF With
<1>8. \A i \in 1 .. n : i \in 1 .. (n + 1)
  OBVIOUS
<1>9. InLog(<<>>, Mine(acts, n + 1))
  <2>1. Mine(acts, n + 1) = {}
    BY <1>3, <1>4 DEF Mine
  <2>2. Len(<<>>) = 0 /\ DOMAIN <<>> = {} /\ Cardinality({}) = 0
    BY FS_EmptySet
  <2> QED
    BY <2>1, <2>2 DEF InLog
<1>10. ASSUME NEW s \in DOMAIN m.open \cup DOMAIN m.closed
       PROVE  InLog(LogIn(m, s), Mine(acts, s))
  <2>1. CASE s = n + 1
    BY <1>2, <1>7, <1>9, <2>1 DEF LogIn
  <2>2. CASE s # n + 1
    <3>1. s \in DOMAIN lo \cup DOMAIN lc /\ LogIn(m, s) = IF s \in DOMAIN lo THEN lo[s] ELSE lc[s]
      BY <1>2, <1>7, <1>10, <2>2 DEF LogIn
    <3> QED
      BY <1>3, <3>1
  <2> QED
    BY <2>1, <2>2
<1>11. DOMAIN m.open \cap DOMAIN m.closed = {} /\ DOMAIN m.open \cup DOMAIN m.closed \subseteq 1 .. (n + 1)
  <2>1. n + 1 \in 1 .. (n + 1) /\ n + 1 \notin DOMAIN lc
    BY <1>3, <1>4
  <2> QED
    BY <1>2, <1>3, <1>7, <1>8, <2>1
<1>12. Logged(m, acts, n + 1)
  BY <1>2, <1>3, <1>6, <1>8, <1>10, <1>11 DEF Logged
<1>13. Final(l, m)
  BY <1>2, <1>3, <1>4, <1>7 DEF Final, lc
<1> QED
  BY <1>1, <1>12, <1>13

\* A new process knows of no open log.
LEMMA LogForgotten ==
    ASSUME NEW l, NEW acts, NEW n, Logged(l, acts, n)
    PROVE  Logged([l EXCEPT !.open = <<>>], acts, n) /\ Final(l, [l EXCEPT !.open = <<>>])
<1> DEFINE m == [open |-> <<>>, closed |-> l.closed]
<1>1. [l EXCEPT !.open = <<>>] = m
  BY DEF Logged
<1>2. m.open = <<>> /\ m.closed = l.closed /\ m = [open |-> m.open, closed |-> m.closed]
  OBVIOUS
<1> HIDE DEF m
<1>3. Dictionary(m.open, Seq(Nat)) /\ DOMAIN m.open = {}
  BY <1>2, NoEntries
<1>4. \A s \in DOMAIN m.closed : InLog(LogIn(m, s), Mine(acts, s))
  <2> TAKE s \in DOMAIN m.closed
  <2>1. s \in DOMAIN l.closed /\ s \notin DOMAIN l.open /\ LogIn(m, s) = LogIn(l, s)
    BY <1>2, <1>3 DEF Logged, LogIn
  <2> QED
    BY <2>1 DEF Logged
<1>5. Logged(m, acts, n)
  <2>1. /\ Dictionary(m.closed, Seq(Nat)) /\ DOMAIN m.closed \subseteq 1 .. n
        /\ \A i \in DOMAIN acts : acts[i].logged => acts[i].sid \in 1 .. n
    BY <1>2 DEF Logged
  <2> QED
    BY <1>2, <1>3, <1>4, <2>1 DEF Logged
<1>6. Final(l, m)
  BY <1>2, <1>3 DEF Final
<1> QED
  BY <1>1, <1>5, <1>6

\* An action is recorded in the log of its session, if that has one.
LEMMA LogGrows ==
    ASSUME NEW l, NEW acts \in Seq(ActionOf), NEW n, Logged(l, acts, n), orch.sid \in Nat
    PROVE  LET more == Append(acts, [sid |-> orch.sid, logged |-> orch.sid \in DOMAIN l.open])
           IN  Logged(Recorded(l, Len(acts) + 1), more, n) /\ Final(l, Recorded(l, Len(acts) + 1))
<1> DEFINE sid == orch.sid
           k == Len(acts) + 1
           act == [sid |-> sid, logged |-> sid \in DOMAIN l.open]
           more == Append(acts, act)
           lo == l.open
           lc == l.closed
<1>1. /\ Len(acts) \in Nat /\ DOMAIN acts = 1 .. Len(acts) /\ DOMAIN more = 1 .. k /\ more[k] = act
      /\ \A i \in 1 .. Len(acts) : more[i] = acts[i]
  OBVIOUS
<1>2. act.sid = sid /\ (act.logged <=> sid \in DOMAIN lo)
  OBVIOUS
<1>3. /\ Dictionary(lo, Seq(Nat)) /\ Dictionary(lc, Seq(Nat)) /\ l = [open |-> lo, closed |-> lc]
      /\ DOMAIN lo \cap DOMAIN lc = {} /\ DOMAIN lo \cup DOMAIN lc \subseteq 1 .. n
      /\ \A i \in DOMAIN acts : acts[i].logged => acts[i].sid \in 1 .. n
      /\ \A s \in DOMAIN lo \cup DOMAIN lc : InLog(IF s \in DOMAIN lo THEN lo[s] ELSE lc[s], Mine(acts, s))
  BY DEF Logged, LogIn
<1> HIDE DEF act, more
<1>4. \A s : Mine(more, s) = IF s = sid /\ sid \in DOMAIN lo THEN Mine(acts, s) \cup {k} ELSE Mine(acts, s)
  BY <1>1, <1>2 DEF Mine
<1>5. \A i \in DOMAIN more : more[i].logged => more[i].sid \in 1 .. n
  <2> SUFFICES ASSUME NEW i \in DOMAIN more, more[i].logged PROVE more[i].sid \in 1 .. n
    OBVIOUS
  <2>1. CASE i = k
    BY <1>1, <1>2, <1>3, <2>1
  <2>2. CASE i # k
    BY <1>1, <1>3, <2>2
  <2> QED
    BY <2>1, <2>2
<1>6. CASE sid \notin DOMAIN lo
  <2>1. Recorded(l, k) = l
    BY <1>6 DEF Recorded
  <2>2. \A s : Mine(more, s) = Mine(acts, s)
    BY <1>4, <1>6
  <2>3. Logged(l, more, n)
    BY <1>5, <2>2 DEF Logged
  <2>4. Final(l, l)
    BY DEF Logged, Final
  <2> QED
    BY <2>1, <2>3, <2>4 DEF more, act
<1>7. CASE sid \in DOMAIN lo
  <2> DEFINE log == lo[sid]
             longer == Append(log, k)
             o == [lo EXCEPT ![sid] = longer]
             m == [open |-> o, closed |-> lc]
  <2>1. Recorded(l, k) = m
    BY <1>3, <1>7 DEF Recorded
  <2>2. m.open = o /\ m.closed = lc /\ m = [open |-> m.open, closed |-> m.closed]
    OBVIOUS
  <2>3. log \in Seq(Nat) /\ k \in Nat /\ longer \in Seq(Nat)
    BY <1>1, <1>3, <1>7 DEF Dictionary
  <2>4. /\ Len(log) \in Nat /\ DOMAIN log = 1 .. Len(log) /\ Len(longer) = Len(log) + 1
        /\ DOMAIN longer = 1 .. (Len(log) + 1)
        /\ longer[Len(log) + 1] = k /\ \A i \in 1 .. Len(log) : longer[i] = log[i]
    <3> HIDE DEF log
    <3>1. Len(log) \in Nat /\ DOMAIN log = 1 .. Len(log)
      BY <2>3
    <3>2. Len(longer) = Len(log) + 1
      BY <2>3
    <3>3. DOMAIN longer = 1 .. Len(longer)
      BY <2>3
    <3>4. longer[Len(log) + 1] = k
      BY <2>3
    <3>5. \A i \in 1 .. Len(log) : longer[i] = log[i]
      BY <2>3
    <3> HIDE DEF longer
    <3> QED
      BY <3>1, <3>2, <3>3, <3>4, <3>5
  <2> HIDE DEF longer, log, m
  <2>5. DOMAIN o = DOMAIN lo /\ Dictionary(o, Seq(Nat)) /\ o[sid] = longer /\ \A s \in DOMAIN lo : s # sid => o[s] = lo[s]
    BY <1>3, <1>7, <2>3 DEF Dictionary
  <2> HIDE DEF o
  <2>6. InLog(log, Mine(acts, sid))
    BY <1>3, <1>7 DEF log
  <2>7. InLog(longer, Mine(more, sid))
    <3> DEFINE M == Mine(acts, sid)
    <3>1. M \subseteq 1 .. Len(acts) /\ Mine(more, sid) = M \cup {k} /\ k \notin M
      BY <1>1, <1>4, <1>7 DEF Mine
    <3>2. IsFiniteSet(M)
      <4>1. 1 \in Int /\ Len(acts) \in Int
        BY <1>1
      <4> QED
        BY <3>1, <4>1, FS_Interval, FS_Subset
    <3>3. Cardinality(M \cup {k}) = Cardinality(M) + 1
      BY <3>1, <3>2, FS_AddElement
    <3>4. Len(log) = Cardinality(M) /\ \A i, j \in 1 .. Len(log) : log[i] \in M /\ (i < j => log[i] < log[j])
      BY <2>4, <2>6 DEF InLog
    <3> HIDE DEF M
    <3>5. \A i \in 1 .. Len(log) : log[i] < k /\ log[i] \in Nat
      <4> SUFFICES ASSUME NEW i \in 1 .. Len(log) PROVE log[i] < k /\ log[i] \in Nat
        OBVIOUS
      <4>1. log[i] \in 1 .. Len(acts)
        BY <3>1, <3>4
      <4> QED
        BY <1>1, <4>1
    <3>6. Len(longer) = Cardinality(Mine(more, sid))
      BY <2>4, <3>1, <3>3, <3>4
    <3>7. ASSUME NEW i \in DOMAIN longer, NEW j \in DOMAIN longer
          PROVE  longer[i] \in M \cup {k} /\ (i < j => longer[i] < longer[j])
      <4>1. CASE i \in 1 .. Len(log) /\ j \in 1 .. Len(log)
        BY <2>4, <3>4, <4>1
      <4>2. CASE i \in 1 .. Len(log) /\ j = Len(log) + 1
        BY <2>4, <3>4, <3>5, <4>2
      <4>3. CASE i = Len(log) + 1
        BY <2>4, <3>7, <4>3
      <4> QED
        BY <2>4, <3>7, <4>1, <4>2, <4>3
    <3> QED
      BY <3>1, <3>6, <3>7 DEF InLog
  <2>8. ASSUME NEW s \in DOMAIN m.open \cup DOMAIN m.closed
        PROVE  InLog(LogIn(m, s), Mine(more, s))
    <3>1. CASE s = sid
      BY <1>7, <2>2, <2>5, <2>7, <3>1 DEF LogIn
    <3>2. CASE s # sid
      <4>1. Mine(more, s) = Mine(acts, s)
        BY <1>4, <3>2
      <4>2. s \in DOMAIN lo \cup DOMAIN lc /\ LogIn(m, s) = IF s \in DOMAIN lo THEN lo[s] ELSE lc[s]
        BY <2>2, <2>5, <2>8, <3>2 DEF LogIn
      <4> QED
        BY <1>3, <4>1, <4>2
    <3> QED
      BY <3>1, <3>2
  <2>9. Logged(m, more, n)
    BY <1>3, <1>5, <2>2, <2>5, <2>8 DEF Logged
  <2>10. Final(l, m)
    BY <1>3, <2>2, <2>5 DEF Final
  <2> QED
    BY <2>1, <2>9, <2>10 DEF more, act
<1> QED
  BY <1>6, <1>7

----------------------------------------------------------------------------
SessionInv ==
    /\ SessionTypes /\ Offers(saveDir, saves) /\ OneWorld
    /\ applied \in Seq(ActionOf) /\ ids \in Nat /\ Logged(sessionLog, applied, ids)

\* What a step does to closed logs, and to a pointer whose scenario is abandoned.
SessionStep ==
    /\ Final(sessionLog, sessionLog')
    /\ \A s \in Scenarios : s \in DOMAIN runner /\ s \notin DOMAIN runner' /\ loopWorld' = loopWorld
         => saveDir'.pointer = NoPointer

\* The worlds have ticks within the bound.
LEMMA WorldsAre ==
    ASSUME SessionTypes
    PROVE  /\ Len(worlds) \in Nat /\ DOMAIN worlds = 1 .. Len(worlds)
           /\ \A w \in DOMAIN worlds : worlds[w] \in 0 .. MaxTick /\ worlds[w] \in Nat
<1> DEFINE T == 0 .. MaxTick
<1>1. worlds \in Seq(T)
  BY DEF SessionTypes
<1> HIDE DEF T
<1>2. Len(worlds) \in Nat /\ DOMAIN worlds = 1 .. Len(worlds) /\ \A w \in DOMAIN worlds : worlds[w] \in T
  BY <1>1
<1>3. \A w \in DOMAIN worlds : worlds[w] \in 0 .. MaxTick
  BY <1>2 DEF T
<1> QED
  BY <1>2, <1>3, SessionConstants

\* A world more, and the others as they are.
LEMMA WorldAdded ==
    ASSUME SessionTypes, NEW t \in 0 .. MaxTick
    PROVE  LET more == Append(worlds, t) IN
           /\ more \in Seq(0 .. MaxTick) /\ DOMAIN more = 1 .. (Len(worlds) + 1)
           /\ DOMAIN worlds \subseteq DOMAIN more /\ Len(worlds) + 1 \in DOMAIN more
           /\ Len(worlds) + 1 \notin DOMAIN worlds /\ Len(worlds) + 1 # 0
           /\ \A w \in DOMAIN worlds : more[w] = worlds[w]
<1> DEFINE T == 0 .. MaxTick
<1>1. worlds \in Seq(T) /\ t \in T
  BY DEF SessionTypes
<1> HIDE DEF T
<1>2. Append(worlds, t) \in Seq(T) /\ DOMAIN Append(worlds, t) = 1 .. (Len(worlds) + 1)
      /\ Len(worlds) \in Nat /\ DOMAIN worlds = 1 .. Len(worlds)
      /\ \A w \in 1 .. Len(worlds) : Append(worlds, t)[w] = worlds[w]
  BY <1>1
<1> QED
  BY <1>2 DEF T

\* A step that leaves a runner, a log and the saves alone.
LEMMA LogsRest ==
    ASSUME SessionInv, UNCHANGED <<sessionLog, runner>>
    PROVE  SessionStep
BY DEF SessionInv, SessionStep, Final, Logged

\* A process starts with what the invariant says: no session, and nothing saved.
LEMMA SessionStarts ==
    ASSUME SessionInit
    PROVE  SessionInv
<1> DEFINE T == 0 .. MaxTick
<1>1. worlds = <<0>> /\ DOMAIN worlds = {1} /\ worlds \in Seq(T)
  <2>1. 0 \in T
    BY SessionConstants
  <2> HIDE DEF T
  <2>2. <<0>> \in Seq(T) /\ DOMAIN <<0>> = {1}
    BY <2>1
  <2> QED
    BY <2>2 DEF SessionInit
<1>2. loopWorld = 1 /\ orch = [world |-> 1, sid |-> 0, enabled |-> FALSE] /\ ctx = [world |-> 0, coins |-> 0]
  BY DEF SessionInit, FreshOrch, NoContext, None
<1>3. Runners(runner) /\ DOMAIN runner = {} /\ resumed = FALSE /\ saves = 0
  BY NoEntries DEF SessionInit, Runners
<1>4. SessionTypes
  BY <1>1, <1>2, <1>3 DEF SessionTypes, None
<1>5. OneWorld
  BY <1>2, <1>3 DEF OneWorld, None
<1>6. Offers(saveDir, saves)
  <2>1. saveDir.pointer = NoPointer /\ saveDir.dirs = <<>> /\ saveDir = [pointer |-> saveDir.pointer, dirs |-> saveDir.dirs]
    BY DEF SessionInit
  <2>2. NoPointer \in Pointer
    BY DEF NoPointer, Pointer, None
  <2>3. Dictionary(saveDir.dirs, SaveRecord)
    BY <2>1, NoEntries
  <2> QED
    BY <2>1, <2>2, <2>3 DEF Offers
<1>7. applied = <<>> /\ ids = 0 /\ sessionLog = [open |-> <<>>, closed |-> <<>>]
  BY DEF SessionInit
<1>8. Logged(sessionLog, applied, ids)
  BY <1>7, NothingLogged
<1> QED
  BY <1>4, <1>5, <1>6, <1>7, <1>8 DEF SessionInv

\* The loop steps its own world.
LEMMA LoopTickKeepsSession ==
    ASSUME SessionInv, LoopTick
    PROVE  SessionInv' /\ SessionStep
<1> DEFINE T == 0 .. MaxTick
<1>1. SessionTypes /\ loopWorld \in DOMAIN worlds /\ worlds[loopWorld] \in Nat /\ worlds[loopWorld] < MaxTick
  BY WorldsAre DEF SessionInv, SessionTypes, LoopTick
<1>2. /\ worlds' = [worlds EXCEPT ![loopWorld] = worlds[loopWorld] + 1]
      /\ UNCHANGED <<loopWorld, orch, ctx, runner, sessionLog, saveDir, ids, applied, saves, resumed>>
  BY DEF LoopTick
<1>3. worlds[loopWorld] + 1 \in T
  BY <1>1, SessionConstants
<1>4. worlds \in Seq(T)
  BY <1>1 DEF SessionTypes
<1> HIDE DEF T
<1>5. worlds' \in Seq(T) /\ DOMAIN worlds' = DOMAIN worlds /\ worlds'[loopWorld] = worlds[loopWorld] + 1
  BY <1>1, <1>2, <1>3, <1>4
<1>6. SessionTypes'
  BY <1>1, <1>2, <1>5 DEF SessionTypes, T, Runners
<1>7. OneWorld'
  <2> SUFFICES ASSUME ~resumed
               PROVE  /\ orch.world = loopWorld /\ ctx.world \in {None, loopWorld}
                      /\ \A s \in DOMAIN runner : ctx.world # None /\ runner[s].start_tick <= worlds'[loopWorld]
    BY <1>2 DEF OneWorld
  <2>1. \A s \in DOMAIN runner : runner[s] \in PlayedScenario
    BY <1>1 DEF SessionTypes, Runners, Dictionary
  <2>2. \A s \in DOMAIN runner : runner[s].start_tick \in Nat
    BY <2>1 DEF PlayedScenario
  <2> QED
    BY <1>1, <1>5, <2>2 DEF SessionInv, OneWorld
<1> QED
  BY <1>2, <1>6, <1>7, LogsRest DEF SessionInv

\* Enabling and disabling leave the worlds, the runner and the saves alone.
LEMMA EnableKeeps ==
    ASSUME SessionInv, Enable \/ Disable
    PROVE  SessionInv' /\ SessionStep
<1>1. UNCHANGED <<worlds, loopWorld, runner, saveDir, applied, saves, resumed>>
  BY DEF Enable, Disable
<1>2. SessionTypes /\ OneWorld /\ ids \in Nat /\ Logged(sessionLog, applied, ids)
      /\ orch \in [world : DOMAIN worlds, sid : Nat, enabled : BOOLEAN]
      /\ ctx \in [world : {None} \cup DOMAIN worlds, coins : Nat]
  BY DEF SessionInv, SessionTypes
<1>3. CASE Enable
  <2>1. /\ ids' = ids + 1 /\ orch' = [orch EXCEPT !.sid = ids + 1, !.enabled = TRUE]
        /\ ctx' = [world |-> orch.world, coins |-> 1]
        /\ sessionLog' = [sessionLog EXCEPT !.open = Bind(@, ids + 1, <<>>)]
    BY <1>3 DEF Enable, InitialCoins
  <2>2. /\ orch' \in [world : DOMAIN worlds, sid : Nat, enabled : BOOLEAN] /\ orch'.world = orch.world
        /\ ctx' \in [world : {None} \cup DOMAIN worlds, coins : Nat] /\ ctx'.world = orch.world
    <3>1. orch.world \in DOMAIN worlds /\ orch.world \in {None} \cup DOMAIN worlds /\ ids + 1 \in Nat
      BY <1>2
    <3>2. orch' \in [world : DOMAIN worlds, sid : Nat, enabled : BOOLEAN] /\ orch'.world = orch.world
      BY <1>2, <2>1, <3>1
    <3>3. ctx' \in [world : {None} \cup DOMAIN worlds, coins : Nat] /\ ctx'.world = orch.world
      BY <2>1, <3>1
    <3> QED
      BY <3>2, <3>3
  <2>3. SessionTypes'
    BY <1>1, <1>2, <2>2 DEF SessionTypes, Runners
  <2>4. OneWorld'
    BY <1>1, <1>2, <2>2, WorldsAre DEF OneWorld, None, SessionTypes
  <2>5. Logged(sessionLog', applied, ids') /\ Final(sessionLog, sessionLog') /\ ids' \in Nat
    BY <1>2, <2>1, LogOpened
  <2> QED
    BY <1>1, <2>3, <2>4, <2>5 DEF SessionInv, SessionStep
<1>4. CASE Disable
  <2>1. /\ ids' = ids /\ ctx' = ctx
        /\ orch' = [orch EXCEPT !.enabled = FALSE, !.sid = IF ctx.world # None THEN None ELSE @]
        /\ sessionLog' = IF orch.sid # None /\ ctx.world # None THEN CloseLog(sessionLog, orch.sid) ELSE sessionLog
    BY <1>4 DEF Disable
  <2>2. orch' \in [world : DOMAIN worlds, sid : Nat, enabled : BOOLEAN] /\ orch'.world = orch.world
    BY <1>2, <2>1 DEF None
  <2>3. SessionTypes'
    BY <1>1, <1>2, <2>1, <2>2 DEF SessionTypes, Runners
  <2>4. OneWorld'
    BY <1>1, <1>2, <2>1, <2>2 DEF OneWorld
  <2>5. Logged(sessionLog', applied, ids) /\ Final(sessionLog, sessionLog')
    <3>1. Final(sessionLog, sessionLog)
      BY <1>2 DEF Final, Logged
    <3> QED
      BY <1>2, <2>1, <3>1, LogMoved
  <2> QED
    BY <1>1, <2>1, <2>3, <2>4, <2>5 DEF SessionInv, SessionStep
<1> QED
  BY <1>3, <1>4

\* An action is recorded and saved.
LEMMA ActKeeps ==
    ASSUME SessionInv, Act(4)
    PROVE  SessionInv' /\ SessionStep
<1> DEFINE act == [sid |-> orch.sid, logged |-> orch.sid \in DOMAIN sessionLog.open]
<1>1. /\ UNCHANGED <<worlds, loopWorld, orch, runner, ids, resumed>>
      /\ applied' = Append(applied, act) /\ sessionLog' = Recorded(sessionLog, Len(applied) + 1)
      /\ ctx' \in {[ctx EXCEPT !.coins = coins] : coins \in {ctx.coins, ctx.coins + 1}}
      /\ SaveCurrent(4, runner)
  BY DEF Act
<1>2. /\ SessionTypes /\ OneWorld /\ Logged(sessionLog, applied, ids) /\ applied \in Seq(ActionOf)
      /\ orch \in [world : DOMAIN worlds, sid : Nat, enabled : BOOLEAN] /\ orch.sid \in Nat
      /\ ctx \in [world : {None} \cup DOMAIN worlds, coins : Nat] /\ Runners(runner) /\ Offers(saveDir, saves)
  BY DEF SessionInv, SessionTypes
<1>3. ctx' \in [world : {None} \cup DOMAIN worlds, coins : Nat] /\ ctx'.world = ctx.world
  BY <1>1, <1>2
<1>4. saves' \in Nat /\ Offers(saveDir', saves')
  BY <1>1, <1>2, SaveOffers
<1>5. SessionTypes'
  BY <1>1, <1>2, <1>3, <1>4 DEF SessionTypes, Runners
<1>6. OneWorld'
  BY <1>1, <1>2, <1>3 DEF OneWorld
<1>7. Logged(sessionLog', applied', ids) /\ Final(sessionLog, sessionLog')
  BY <1>1, <1>2, LogGrows
<1>8. applied' \in Seq(ActionOf)
  <2>1. act \in ActionOf
    BY <1>2 DEF ActionOf
  <2> HIDE DEF act
  <2> QED
    BY <1>1, <1>2, <2>1
<1> QED
  BY <1>1, <1>4, <1>5, <1>6, <1>7, <1>8 DEF SessionInv, SessionStep

\* A scenario is started and saved.
LEMMA StartKeeps ==
    ASSUME SessionInv, NEW s \in Scenarios, StartScenario(s, 4)
    PROVE  SessionInv' /\ SessionStep
<1> DEFINE start == [start_tick |-> worlds[ctx.world], coins_start |-> ctx.coins]
<1>1. /\ UNCHANGED <<worlds, loopWorld, orch, ctx, sessionLog, ids, applied, resumed>>
      /\ ctx.world # None /\ runner' = Bind(runner, s, start) /\ SaveCurrent(4, runner')
  BY DEF StartScenario, StartTick, Enabled
<1>2. /\ SessionTypes /\ OneWorld /\ Logged(sessionLog, applied, ids)
      /\ ctx.world \in {None} \cup DOMAIN worlds /\ ctx.coins \in Nat
      /\ Runners(runner) /\ Offers(saveDir, saves)
  BY DEF SessionInv, SessionTypes
<1>3. start \in PlayedScenario /\ start.start_tick = worlds[ctx.world] /\ worlds[ctx.world] \in Nat
  BY <1>1, <1>2, WorldsAre DEF PlayedScenario
<1> HIDE DEF start
<1>4. Dictionary(Bind(runner, s, start), PlayedScenario) /\ With(Bind(runner, s, start), runner, s, start)
  BY <1>2, <1>3, BindIs DEF Runners
<1>5. Dictionary(runner', PlayedScenario) /\ With(runner', runner, s, start)
  BY <1>1, <1>4
<1>6. Runners(runner') /\ DOMAIN runner' = DOMAIN runner \cup {s}
  BY <1>2, <1>5 DEF Runners, With
<1>7. saves' \in Nat /\ Offers(saveDir', saves')
  BY <1>1, <1>2, <1>6, SaveOffers
<1>8. SessionTypes'
  BY <1>1, <1>2, <1>6, <1>7 DEF SessionTypes
<1>9. OneWorld'
  <2> SUFFICES ASSUME ~resumed
               PROVE  /\ orch.world = loopWorld /\ ctx.world \in {None, loopWorld}
                      /\ \A t \in DOMAIN runner' : ctx.world # None /\ runner'[t].start_tick <= worlds[loopWorld]
    BY <1>1 DEF OneWorld
  <2>1. /\ orch.world = loopWorld /\ ctx.world = loopWorld
        /\ \A t \in DOMAIN runner : runner[t].start_tick <= worlds[loopWorld]
    BY <1>1, <1>2 DEF OneWorld
  <2>2. ASSUME NEW t \in DOMAIN runner'
        PROVE  runner'[t].start_tick <= worlds[loopWorld]
    <3>1. CASE t = s
      <4>1. runner'[t] = start
        BY <1>5, <3>1 DEF With
      <4> QED
        BY <1>3, <2>1, <4>1
    <3>2. CASE t # s
      BY <1>5, <1>6, <2>1, <2>2, <3>2 DEF With
    <3> QED
      BY <3>1, <3>2
  <2> QED
    BY <1>1, <2>1, <2>2
<1>10. Final(sessionLog, sessionLog')
  BY <1>1, <1>2 DEF Final, Logged
<1> QED
  BY <1>1, <1>6, <1>7, <1>8, <1>9, <1>10 DEF SessionInv, SessionStep

\* A save directory whose pointer is taken away offers nothing.
LEMMA PointerGone ==
    ASSUME NEW d, NEW n, Offers(d, n)
    PROVE  /\ Offers([d EXCEPT !.pointer = NoPointer], n) /\ [d EXCEPT !.pointer = NoPointer].pointer = NoPointer
           /\ \A dir : Offers(Discarded(d, dir), n) /\ Discarded(d, dir).pointer = NoPointer
<1>0. NoPointer \in Pointer
  BY DEF NoPointer, Pointer, None
<1>1. ASSUME NEW f, Dictionary(f, SaveRecord)
      PROVE  Offers([pointer |-> NoPointer, dirs |-> f], n)
  <2> DEFINE m == [pointer |-> NoPointer, dirs |-> f]
  <2>1. m.pointer = NoPointer /\ m.dirs = f /\ m = [pointer |-> m.pointer, dirs |-> m.dirs]
    OBVIOUS
  <2> HIDE DEF m
  <2>2. Offers(m, n)
    BY <1>0, <1>1, <2>1 DEF Offers
  <2> QED
    BY <2>2 DEF m
<1>2. [d EXCEPT !.pointer = NoPointer] = [pointer |-> NoPointer, dirs |-> d.dirs]
  BY DEF Offers
<1>3. Dictionary(d.dirs, SaveRecord)
  BY DEF Offers
<1>4. ASSUME NEW dir
      PROVE  Offers(Discarded(d, dir), n) /\ Discarded(d, dir).pointer = NoPointer
  <2> DEFINE f == d.dirs
  <2>1. Dictionary(f, SaveRecord)
    BY <1>3
  <2> HIDE DEF f
  <2>2. Dictionary(Drop(f, dir), SaveRecord)
    BY <2>1, DropIs
  <2>3. Dictionary(Drop(d.dirs, dir), SaveRecord)
    BY <2>2 DEF f
  <2>4. Discarded(d, dir) = [pointer |-> NoPointer, dirs |-> Drop(d.dirs, dir)]
    BY DEF Discarded
  <2> QED
    BY <1>1, <2>3, <2>4
<1>5. Offers([d EXCEPT !.pointer = NoPointer], n)
  BY <1>1, <1>2, <1>3
<1> QED
  BY <1>2, <1>4, <1>5

\* Abandoning, finishing and discarding take the pointer away.
LEMMA PointerStepKeeps ==
    ASSUME SessionInv, DiscardSave \/ \E s \in Scenarios : Abandon(s) \/ PollStatus(s)
    PROVE  SessionInv' /\ SessionStep
<1>1. /\ UNCHANGED <<worlds, loopWorld, orch, ctx, sessionLog, ids, applied, saves, resumed>>
      /\ saveDir' = [saveDir EXCEPT !.pointer = NoPointer] \/ \E dir : saveDir' = Discarded(saveDir, dir)
      /\ runner' = runner \/ \E s \in Scenarios : runner' = Drop(runner, s)
  BY DEF DiscardSave, Abandon, Abandoned, PollStatus
<1>2. SessionTypes /\ OneWorld /\ Runners(runner) /\ Offers(saveDir, saves) /\ Logged(sessionLog, applied, ids)
  BY DEF SessionInv, SessionTypes
<1>3. Offers(saveDir', saves) /\ saveDir'.pointer = NoPointer
  <2>1. CASE saveDir' = [saveDir EXCEPT !.pointer = NoPointer]
    BY <1>2, <2>1, PointerGone
  <2>2. ASSUME NEW dir, saveDir' = Discarded(saveDir, dir)
        PROVE  Offers(saveDir', saves) /\ saveDir'.pointer = NoPointer
    BY <1>2, <2>2, PointerGone
  <2> QED
    BY <1>1, <2>1, <2>2
<1>4. Runners(runner') /\ \A s \in DOMAIN runner' : s \in DOMAIN runner /\ runner'[s] = runner[s]
  <2>1. CASE runner' = runner
    BY <1>2, <2>1
  <2>2. ASSUME NEW s \in Scenarios, runner' = Drop(runner, s)
        PROVE  Runners(runner') /\ \A t \in DOMAIN runner' : t \in DOMAIN runner /\ runner'[t] = runner[t]
    <3>1. Dictionary(Drop(runner, s), PlayedScenario) /\ Without(Drop(runner, s), runner, s)
      BY <1>2, DropIs DEF Runners
    <3> QED
      BY <1>2, <2>2, <3>1 DEF Runners, Without
  <2> QED
    BY <1>1, <2>1, <2>2
<1>5. SessionTypes'
  BY <1>1, <1>2, <1>4 DEF SessionTypes
<1>6. OneWorld'
  BY <1>1, <1>2, <1>4 DEF OneWorld
<1>7. Final(sessionLog, sessionLog')
  BY <1>1, <1>2 DEF Final, Logged
<1> QED
  BY <1>1, <1>3, <1>5, <1>6, <1>7 DEF SessionInv, SessionStep

\* A save that is resumed brings its world and its scenario.
LEMMA ResumeKeeps ==
    ASSUME SessionInv, Resume
    PROVE  SessionInv' /\ SessionStep
<1> DEFINE p == saveDir.pointer
           save == saveDir.dirs[p.sid]
           w == Len(worlds) + 1
<1>1. /\ p # NoPointer /\ p.sid \in DOMAIN saveDir.dirs
      /\ worlds' = Append(worlds, save.tick) /\ orch' = [orch EXCEPT !.world = w, !.sid = p.sid]
      /\ runner' = Bind(runner, p.scenario, save.session) /\ resumed' = TRUE
      /\ UNCHANGED <<loopWorld, ctx, sessionLog, saveDir, ids, applied, saves>>
  BY DEF Resume
<1>2. /\ SessionTypes /\ Runners(runner) /\ Offers(saveDir, saves) /\ Logged(sessionLog, applied, ids)
      /\ orch \in [world : DOMAIN worlds, sid : Nat, enabled : BOOLEAN]
      /\ ctx \in [world : {None} \cup DOMAIN worlds, coins : Nat] /\ loopWorld \in DOMAIN worlds
  BY DEF SessionInv, SessionTypes
<1>3. p \in Pointer /\ p.scenario \in Scenarios /\ p.sid \in Nat /\ save \in SaveRecord
  BY <1>1, <1>2 DEF Offers, Dictionary, Pointer
<1>4. save.tick \in 0 .. MaxTick /\ save.session \in PlayedScenario
  BY <1>3 DEF SaveRecord
<1> HIDE DEF save
<1>5. /\ worlds' \in Seq(0 .. MaxTick) /\ DOMAIN worlds \subseteq DOMAIN worlds' /\ w \in DOMAIN worlds'
  BY <1>1, <1>2, <1>4, WorldAdded
<1>6. orch' \in [world : DOMAIN worlds', sid : Nat, enabled : BOOLEAN]
  BY <1>1, <1>2, <1>3, <1>5
<1>7. ctx' \in [world : {None} \cup DOMAIN worlds', coins : Nat] /\ loopWorld' \in DOMAIN worlds'
  <2>1. ctx.world \in {None} \cup DOMAIN worlds' /\ ctx.coins \in Nat /\ ctx = [world |-> ctx.world, coins |-> ctx.coins]
    BY <1>2, <1>5
  <2> QED
    BY <1>1, <1>2, <1>5, <2>1
<1>8. Runners(runner') /\ DOMAIN runner \subseteq DOMAIN runner'
  <2> DEFINE id == p.scenario
             session == save.session
  <2>1. session \in PlayedScenario /\ Dictionary(runner, PlayedScenario)
    BY <1>2, <1>4 DEF Runners
  <2> HIDE DEF id, session
  <2>2. Dictionary(Bind(runner, id, session), PlayedScenario) /\ With(Bind(runner, id, session), runner, id, session)
    BY <2>1, BindIs
  <2>3. runner' = Bind(runner, id, session) /\ id \in Scenarios
    BY <1>1, <1>3 DEF id, session
  <2> QED
    BY <1>2, <2>2, <2>3 DEF Runners, With
<1>9. SessionTypes'
  BY <1>1, <1>2, <1>5, <1>6, <1>7, <1>8 DEF SessionTypes
<1>10. OneWorld'
  BY <1>1 DEF OneWorld
<1>11. Final(sessionLog, sessionLog')
  BY <1>1, <1>2 DEF Final, Logged
<1> QED
  BY <1>1, <1>8, <1>9, <1>10, <1>11 DEF SessionInv, SessionStep

\* A process that ends, in a save or between two, leaves what is written.
LEMMA RestartKeeps ==
    ASSUME SessionInv, RestartProcess \/ CrashInSave
    PROVE  SessionInv' /\ SessionStep
<1> DEFINE w == Len(worlds) + 1
<1>1. /\ worlds' = Append(worlds, 0) /\ loopWorld' = w /\ orch' = [world |-> w, sid |-> 0, enabled |-> FALSE]
      /\ ctx' = [world |-> 0, coins |-> 0] /\ runner' = <<>> /\ resumed' = FALSE
      /\ sessionLog' = [sessionLog EXCEPT !.open = <<>>] /\ UNCHANGED <<ids, applied>>
  BY DEF RestartProcess, CrashInSave, Restarted, FreshOrch, NoContext, None
<1>2. /\ SessionTypes /\ Runners(runner) /\ Offers(saveDir, saves) /\ Logged(sessionLog, applied, ids)
      /\ saves \in Nat /\ loopWorld \in DOMAIN worlds
  BY DEF SessionInv, SessionTypes
<1>3. saves' \in Nat /\ Offers(saveDir', saves')
  <2>1. CASE RestartProcess
    BY <1>2, <2>1 DEF RestartProcess
  <2>2. CASE CrashInSave
    <3>1. PICK k \in 0 .. 3 : SaveCurrent(k, runner)
      BY <2>2 DEF CrashInSave
    <3>2. k \in 0 .. 4
      OBVIOUS
    <3> QED
      BY <1>2, <3>1, <3>2, SaveOffers
  <2> QED
    BY <2>1, <2>2
<1>4. 0 \in 0 .. MaxTick
  BY SessionConstants
<1>5. /\ worlds' \in Seq(0 .. MaxTick) /\ w \in DOMAIN worlds' /\ w \notin DOMAIN worlds
  BY <1>1, <1>2, <1>4, WorldAdded
<1> HIDE DEF w
<1>6. Runners(runner') /\ DOMAIN runner' = {}
  BY <1>1, NoEntries DEF Runners
<1>7. SessionTypes'
  BY <1>1, <1>3, <1>5, <1>6 DEF SessionTypes, None
<1>8. OneWorld'
  BY <1>1, <1>6 DEF OneWorld, None
<1>9. Logged(sessionLog', applied, ids) /\ Final(sessionLog, sessionLog')
  BY <1>1, <1>2, LogForgotten
<1>10. loopWorld' # loopWorld
  BY <1>1, <1>2, <1>5
<1> QED
  BY <1>1, <1>3, <1>7, <1>8, <1>9, <1>10 DEF SessionInv, SessionStep

\* Every step of the operator's slot.
LEMMA SessionSteps ==
    ASSUME SessionInv, [SessionNext]_sessionVars
    PROVE  SessionInv' /\ [SessionStep]_sessionVars
<1>1. CASE UNCHANGED sessionVars
  BY <1>1 DEF sessionVars, SessionInv, SessionTypes, OneWorld, Runners
<1>2. CASE LoopTick
  BY <1>2, LoopTickKeepsSession
<1>3. CASE Enable \/ Disable
  BY <1>3, EnableKeeps
<1>4. CASE Act(4)
  BY <1>4, ActKeeps
<1>5. ASSUME NEW s \in Scenarios, StartScenario(s, 4)
      PROVE  SessionInv' /\ [SessionStep]_sessionVars
  BY <1>5, StartKeeps
<1>6. CASE DiscardSave \/ \E s \in Scenarios : Abandon(s) \/ PollStatus(s)
  BY <1>6, PointerStepKeeps
<1>7. CASE Resume
  BY <1>7, ResumeKeeps
<1>8. CASE RestartProcess \/ CrashInSave
  BY <1>8, RestartKeeps
<1> QED
  BY <1>1, <1>2, <1>3, <1>4, <1>5, <1>6, <1>7, <1>8 DEF SessionNext

\* The invariant contains the properties of states.
LEMMA SessionInvSound ==
    ASSUME SessionInv
    PROVE  SessionTypeOK /\ OfferedSaveIsWhole /\ ActionsLoggedOnce /\ ClockForwardUntilResume
<1>1. SessionTypeOK
  BY DEF SessionInv, SessionTypes, SessionTypeOK, Runners, Offers
<1>2. OfferedSaveIsWhole
  <2> SUFFICES ASSUME saveDir.pointer # NoPointer
               PROVE  /\ saveDir.pointer.sid \in DOMAIN saveDir.dirs
                      /\ LET save == saveDir.dirs[saveDir.pointer.sid] IN
                         /\ 0 < saveDir.pointer.save /\ saveDir.pointer.save <= save.scenario
                         /\ save.scenario <= save.sim /\ save.sim <= save.chain
                         /\ save.chain - saveDir.pointer.save <= saves - saveDir.pointer.save
    BY DEF OfferedSaveIsWhole
  <2> DEFINE p == saveDir.pointer
             save == saveDir.dirs[p.sid]
             m == p.save
             c == save.chain
  <2>1. /\ p.sid \in DOMAIN saveDir.dirs /\ 0 < m /\ m <= save.scenario
        /\ save.scenario <= save.sim /\ save.sim <= c /\ c <= saves
    BY DEF SessionInv, Offers
  <2>2. p \in Pointer /\ save \in SaveRecord /\ saves \in Nat
    BY <2>1 DEF SessionInv, SessionTypes, Offers, Dictionary
  <2>3. m \in Nat /\ c \in Nat
    BY <2>2 DEF Pointer, SaveRecord
  <2> HIDE DEF m, c
  <2>4. c - m <= saves - m
    BY <2>1, <2>2, <2>3
  <2> QED
    BY <2>1, <2>4 DEF m, c
<1>3. ActionsLoggedOnce
  BY DEF SessionInv, Logged, LogIn, InLog, Mine, ActionsLoggedOnce
<1>4. ClockForwardUntilResume
  <2> SUFFICES ASSUME ~resumed, NEW s \in DOMAIN runner
               PROVE  ctx.world # None /\ Elapsed(s) >= 0
    BY DEF ClockForwardUntilResume
  <2> DEFINE t == runner[s].start_tick
             now_ == worlds[loopWorld]
  <2>1. ctx.world # None /\ ctx.world = loopWorld /\ t <= now_
    BY DEF SessionInv, OneWorld
  <2>2. runner[s] \in PlayedScenario /\ now_ \in Nat
    BY WorldsAre DEF SessionInv, SessionTypes, Runners, Dictionary
  <2>3. t \in Nat
    BY <2>2 DEF PlayedScenario
  <2>4. Elapsed(s) = now_ - t
    BY <2>1 DEF Elapsed
  <2> HIDE DEF t, now_
  <2> QED
    BY <2>1, <2>2, <2>3, <2>4
<1> QED
  BY <1>1, <1>2, <1>3, <1>4

\* Any number of scenarios, sessions, worlds, saves, crashes and resumes in any order: what is offered
\* is whole and was not abandoned, every action is in the log of its session once and in order, a
\* closed log is final, and until a save is resumed a scenario's clock runs forward (save_session,
\* operator_scenarios_abandon, operator_sessions_resume, SessionLogger, ScenarioRunner).
THEOREM SessionsSoundHolds == Spec => SessionsSound
<1>1. Init => SessionInv
  BY SessionStarts DEF Init
<1>2. SessionInv /\ [Next]_vars => SessionInv'
  BY Parts, SessionSteps
<1>3. SessionInv => SessionTypeOK /\ OfferedSaveIsWhole /\ ActionsLoggedOnce /\ ClockForwardUntilResume
  BY SessionInvSound
<1>4. SessionInv /\ [Next]_vars =>
        [\A s \in Scenarios : s \in DOMAIN runner /\ s \notin DOMAIN runner' /\ loopWorld' = loopWorld
           => saveDir'.pointer = NoPointer]_sessionVars
  BY Parts, SessionSteps DEF SessionStep
<1>5. SessionInv /\ [Next]_vars =>
        [\A s \in DOMAIN sessionLog.closed :
           /\ s \in DOMAIN sessionLog'.closed /\ sessionLog'.closed[s] = sessionLog.closed[s]
           /\ s \notin DOMAIN sessionLog'.open]_sessionVars
  BY Parts, SessionSteps DEF SessionStep, Final
<1> QED
  BY <1>1, <1>2, <1>3, <1>4, <1>5, PTL DEF Spec, SessionsSound, AbandonedNotOffered, ClosedLogsFinal

----------------------------------------------------------------------------
(* The perpetual game                                                      *)

Arenas(D) == [edges : SUBSET Pairs, priced : SUBSET Pairs, goals : [D -> Nodes], tick : Nat, storms : Nat]

\* A connected arena with goals numbered by D, whose edges have a cost.
GoodArena(a, D) == a \in Arenas(D) /\ Connected(a.edges) /\ a.priced = a.edges

Walks(t) == t > 0 /\ t % WalkPeriod = 0

PlayTypes ==
    /\ driver \in {"live", "env"} /\ played \in Nat
    /\ GoodArena(arena, DOMAIN arena.goals)
    /\ position \in [Players -> Nodes] /\ IsFiniteSet(Players)
    /\ match \in [id : Nat, started : Nat, status : {"running"}] /\ nextMatch = match.id + 1

\* In training an agent was shown the neighbours that it has.
ShownNeighbours == driver = "env" => seen = [p \in Players |-> NeighboursIn(arena, position[p])]

PlayInv == PlayTypes /\ MatchWithinTime /\ ShownNeighbours

\* What is assumed of graph, goals and clocks.
LEMMA PlayConstants ==
    /\ NodeTotal \in Nat /\ NodeTotal > 0 /\ WalkPeriod \in Nat /\ WalkPeriod > 0
    /\ MatchMax \in Nat /\ MatchMax > 0 /\ NeighboursK \in Nat /\ NeighboursK > 0
    /\ PerturbSteps \in Nat /\ CrowdingPenalty \in Nat /\ PerturbSteps < WalkPeriod
BY MatchPlayAssumption

\* There are finitely many nodes, which are numbers.
LEMMA NodesFinite == Nodes \subseteq Nat /\ IsFiniteSet(Nodes)
<1>1. 0 \in Int /\ NodeTotal - 1 \in Int
  BY PlayConstants
<1>2. IsFiniteSet(0 .. NodeTotal - 1)
  BY <1>1, FS_Interval
<1> QED
  BY <1>1, <1>2 DEF Nodes

\* More edges connect what fewer connect.
LEMMA MoreEdges ==
    ASSUME NEW E, Connected(E), NEW F, E \subseteq F
    PROVE  Connected(F)
BY DEF Connected

\* Weather leaves an arena connected, and clock and goals as they are.
LEMMA WeatherKeeps ==
    ASSUME NEW D, NEW a, GoodArena(a, D), NEW w \in Weather(a)
    PROVE  GoodArena(w, D) /\ w.tick = a.tick /\ w.goals = a.goals
<1> DEFINE Kept(b) == GoodArena(b, D) /\ b.tick = a.tick /\ b.goals = a.goals
<1>0. a \in Arenas(D) /\ a.edges \in SUBSET Pairs /\ a.storms \in Nat
  BY DEF GoodArena, Arenas
<1>1. ASSUME NEW e \in Pairs
      PROVE  Kept(WithEdge(a, e))
  <2> DEFINE b == WithEdge(a, e)
  <2>1. a.edges \cup {e} \in SUBSET Pairs /\ a.priced \cup {e} \in SUBSET Pairs /\ a.priced = a.edges
    BY <1>0 DEF GoodArena
  <2>2. b = [a EXCEPT !.edges = a.edges \cup {e}, !.priced = a.priced \cup {e}]
    BY DEF WithEdge
  <2>3. /\ b \in Arenas(D) /\ b.edges = a.edges \cup {e} /\ b.priced = a.priced \cup {e}
        /\ b.tick = a.tick /\ b.goals = a.goals
    BY <1>0, <2>1, <2>2 DEF Arenas
  <2>4. Connected(a.edges \cup {e})
    <3>1. Connected(a.edges) /\ a.edges \subseteq a.edges \cup {e}
      BY DEF GoodArena
    <3> QED
      BY <3>1, MoreEdges
  <2> QED
    BY <2>1, <2>3, <2>4 DEF GoodArena
<1>2. ASSUME NEW e
      PROVE  Kept(WithoutEdge(a, e))
  <2> DEFINE b == WithoutEdge(a, e)
  <2>1. CASE Connected(a.edges \ {e})
    <3>1. a.edges \ {e} \in SUBSET Pairs /\ a.priced \ {e} \in SUBSET Pairs /\ a.priced = a.edges
      BY <1>0 DEF GoodArena
    <3>2. b = [a EXCEPT !.edges = a.edges \ {e}, !.priced = a.priced \ {e}]
      BY <2>1 DEF WithoutEdge
    <3>3. /\ b \in Arenas(D) /\ b.edges = a.edges \ {e} /\ b.priced = a.priced \ {e}
          /\ b.tick = a.tick /\ b.goals = a.goals
      BY <1>0, <3>1, <3>2 DEF Arenas
    <3> QED
      BY <2>1, <3>1, <3>3 DEF GoodArena
  <2>2. CASE ~Connected(a.edges \ {e})
    BY <2>2 DEF WithoutEdge
  <2> QED
    BY <2>1, <2>2
<1>3. \A b \in WeatherEvents(a) : Kept(b)
  BY <1>1, <1>2 DEF WeatherEvents
<1>4. ASSUME NEW b, Kept(b)
      PROVE  Kept([b EXCEPT !.storms = @ + 1])
  <2> DEFINE c == [b EXCEPT !.storms = b.storms + 1]
  <2>1. b \in Arenas(D) /\ b.storms + 1 \in Nat
    BY <1>4 DEF GoodArena, Arenas
  <2>2. /\ c \in Arenas(D) /\ c.edges = b.edges /\ c.priced = b.priced /\ c.tick = b.tick /\ c.goals = b.goals
    BY <2>1 DEF Arenas
  <2> QED
    BY <1>4, <2>2 DEF GoodArena
<1>5. Kept(a)
  OBVIOUS
<1> HIDE DEF Kept
<1>6. Kept(w)
  <2>1. w = a \/ \E b \in WeatherEvents(a) : w = [b EXCEPT !.storms = @ + 1]
    BY DEF Weather
  <2> QED
    BY <1>3, <1>4, <1>5, <2>1
<1> QED
  BY <1>6 DEF Kept

\* A step of the arena; goals walk only when it is time.
LEMMA ArenaStepKeeps ==
    ASSUME NEW D, NEW a, GoodArena(a, D), NEW b \in ArenaStep(a)
    PROVE  GoodArena(b, D) /\ b.tick = a.tick + 1 /\ (~Walks(a.tick) => b.goals = a.goals)
<1>0. PICK w \in Weather(a) : \E c \in (IF Walks(a.tick) THEN MigrateGoals(w) ELSE {w}) :
                                b = [c EXCEPT !.tick = @ + 1]
  BY DEF ArenaStep, Walks
<1>1. PICK c \in (IF Walks(a.tick) THEN MigrateGoals(w) ELSE {w}) : b = [c EXCEPT !.tick = @ + 1]
  BY <1>0
<1>2. GoodArena(w, D) /\ w.tick = a.tick /\ w.goals = a.goals
  BY WeatherKeeps
<1>3. GoodArena(c, D) /\ c.tick = a.tick /\ (~Walks(a.tick) => c.goals = a.goals)
  <2>1. CASE ~Walks(a.tick)
    BY <1>1, <1>2, <2>1
  <2>2. CASE Walks(a.tick)
    <3>1. PICK g \in [DOMAIN w.goals -> Nodes] : c = [w EXCEPT !.goals = g]
      BY <1>1, <2>2 DEF MigrateGoals
    <3>2. w \in Arenas(D) /\ DOMAIN w.goals = D
      BY <1>2 DEF GoodArena, Arenas
    <3>3. c \in Arenas(D) /\ c.edges = w.edges /\ c.priced = w.priced /\ c.tick = w.tick
      BY <3>1, <3>2 DEF Arenas
    <3> QED
      BY <1>2, <2>2, <3>3 DEF GoodArena
  <2> QED
    BY <2>1, <2>2
<1>4. c \in Arenas(D) /\ c.tick + 1 \in Nat
  BY <1>3 DEF GoodArena, Arenas
<1>5. b \in Arenas(D) /\ b.edges = c.edges /\ b.priced = c.priced /\ b.tick = c.tick + 1 /\ b.goals = c.goals
  BY <1>1, <1>4 DEF Arenas
<1> QED
  BY <1>3, <1>5 DEF GoodArena

\* b is a, some steps later.
Later(a, b, n, D) ==
    /\ GoodArena(b, D) /\ b.tick = a.tick + n
    /\ (\A i \in 0 .. n - 1 : ~Walks(a.tick + i)) => b.goals = a.goals

\* One step more is still later.
LEMMA LaterStill ==
    ASSUME NEW D, NEW a, GoodArena(a, D), NEW n \in Nat, NEW b, Later(a, b, n, D), NEW c \in ArenaStep(b)
    PROVE  Later(a, c, n + 1, D)
<1>1. GoodArena(c, D) /\ c.tick = b.tick + 1 /\ (~Walks(b.tick) => c.goals = b.goals)
  BY ArenaStepKeeps DEF Later
<1>2. a.tick \in Nat /\ b.tick = a.tick + n
  BY DEF GoodArena, Arenas, Later
<1>3. ASSUME \A i \in 0 .. (n + 1) - 1 : ~Walks(a.tick + i)
      PROVE  c.goals = a.goals
  <2>1. n \in 0 .. (n + 1) - 1 /\ \A i \in 0 .. n - 1 : i \in 0 .. (n + 1) - 1
    OBVIOUS
  <2>2. ~Walks(b.tick) /\ \A i \in 0 .. n - 1 : ~Walks(a.tick + i)
    BY <1>2, <1>3, <2>1
  <2> QED
    BY <1>1, <2>2 DEF Later
<1> QED
  BY <1>1, <1>2, <1>3 DEF Later

\* What step_n makes of an arena.
LEMMA PerturbedLater ==
    ASSUME NEW D, NEW a, GoodArena(a, D), NEW b \in Perturbed(a)
    PROVE  Later(a, b, PerturbSteps, D)
<1> DEFINE G == [p \in Int \X SUBSET Arenas(D) |-> UNION {ArenaStep(c) : c \in p[2]}]
           Body(f) == [n \in 0 .. PerturbSteps |-> IF n = 0 THEN {a} ELSE UNION {ArenaStep(c) : c \in f[n - 1]}]
           after == CHOOSE f : f = Body(f)
<1>1. Perturbed(a) = after[PerturbSteps]
  BY DEF Perturbed
<1>2. 0 \in Int /\ PerturbSteps \in Int /\ 0 <= PerturbSteps
  BY PlayConstants
<1>3. PICK f : f = [n \in 0 .. PerturbSteps |-> IF n = 0 THEN {a} ELSE G[<<n, f[n - 1]>>]]
  <2> HIDE DEF G
  <2>1. \E f : Recursive(f, 0, PerturbSteps, {a}, G)
    BY <1>2, RecursionExists
  <2> QED
    BY <2>1 DEF Recursive
<1>4. ASSUME NEW n \in 0 .. PerturbSteps, n # 0, f[n - 1] \in SUBSET Arenas(D)
      PROVE  f[n] = UNION {ArenaStep(c) : c \in f[n - 1]}
  <2>1. n \in Int
    BY <1>2
  <2>2. f[n] = G[<<n, f[n - 1]>>]
    BY <1>3, <1>4
  <2>3. <<n, f[n - 1]>> \in Int \X SUBSET Arenas(D)
    BY <1>4, <2>1
  <2> QED
    BY <2>2, <2>3
<1> DEFINE Goes(g) == /\ g[0] = {a}
                      /\ \A n \in 0 .. PerturbSteps : n # 0 /\ g[n - 1] \in SUBSET Arenas(D) =>
                           g[n] = UNION {ArenaStep(c) : c \in g[n - 1]}
<1>5. ASSUME NEW g, Goes(g)
      PROVE  \A n \in 0 .. PerturbSteps : \A c \in g[n] : Later(a, c, n, D)
  <2> DEFINE S == {n \in Nat : n <= PerturbSteps => \A c \in g[n] : Later(a, c, n, D)}
  <2>1. 0 \in S
    <3>1. g[0] = {a}
      BY <1>5
    <3>2. a.tick + 0 = a.tick
      BY DEF GoodArena, Arenas
    <3> QED
      BY <3>1, <3>2 DEF Later
  <2>2. ASSUME NEW n \in Nat, n \in S
        PROVE  n + 1 \in S
    <3> SUFFICES ASSUME n + 1 <= PerturbSteps, NEW c \in g[n + 1]
                 PROVE  Later(a, c, n + 1, D)
      OBVIOUS
    <3>1. n + 1 \in 0 .. PerturbSteps /\ n + 1 # 0 /\ (n + 1) - 1 = n /\ n <= PerturbSteps
      BY <1>2
    <3>2. \A d \in g[n] : Later(a, d, n, D)
      BY <2>2, <3>1
    <3>3. g[n] \in SUBSET Arenas(D)
      BY <3>2 DEF Later, GoodArena
    <3>4. g[n + 1] = UNION {ArenaStep(d) : d \in g[n]}
      BY <1>5, <3>1, <3>3
    <3>5. PICK d \in g[n] : c \in ArenaStep(d)
      BY <3>4
    <3> QED
      BY <3>2, <3>5, LaterStill
  <2> HIDE DEF S
  <2>3. Nat \subseteq S
    BY <2>1, <2>2, SetInduction
  <2> QED
    BY <2>3 DEF S
<1>6. Goes(f)
  <2>1. f[0] = {a}
    BY <1>2, <1>3
  <2> QED
    BY <1>4, <2>1
<1> HIDE DEF G
<1>7. f = Body(f)
  <2>1. \A n \in 0 .. PerturbSteps : n # 0 => n - 1 \in 0 .. PerturbSteps
    BY <1>2
  <2>2. \A n \in 0 .. PerturbSteps : n # 0 => f[n - 1] \in SUBSET Arenas(D)
    BY <1>5, <1>6, <2>1 DEF Later, GoodArena
  <2>3. \A n \in 0 .. PerturbSteps : f[n] = IF n = 0 THEN {a} ELSE UNION {ArenaStep(c) : c \in f[n - 1]}
    BY <1>3, <1>6, <2>2
  <2>4. f = [n \in 0 .. PerturbSteps |-> f[n]]
    BY <1>3
  <2> QED
    BY <2>3, <2>4
<1>8. after = Body(after)
  BY <1>7
<1>9. Goes(after)
  <2> HIDE DEF after
  <2>1. 0 \in 0 .. PerturbSteps
    BY <1>2
  <2> QED
    BY <1>8, <2>1
<1> HIDE DEF Goes, after
<1>10. PerturbSteps \in 0 .. PerturbSteps
  BY <1>2
<1> QED
  BY <1>1, <1>5, <1>9, <1>10

----------------------------------------------------------------------------
\* There are finitely many neighbours.
LEMMA NeighboursAre ==
    ASSUME NEW a, NEW n
    PROVE  /\ NeighboursIn(a, n) \subseteq Nodes /\ NeighboursIn(a, n) \in SUBSET Nat
           /\ IsFiniteSet(NeighboursIn(a, n)) /\ Cardinality(NeighboursIn(a, n)) \in Nat
<1>1. NeighboursIn(a, n) \subseteq Nodes
  BY DEF NeighboursIn
<1> QED
  BY <1>1, NodesFinite, FS_Subset, FS_CardinalityType

\* A match goes on, or the next one begins.
LEMMA Judged ==
    ASSUME PlayInv, NEW a, GoodArena(a, DOMAIN arena.goals), NEW where, NEW tick \in Nat, EvaluateMatch(a, where, tick)
    PROVE  /\ GoodArena(arena', DOMAIN arena'.goals)
           /\ match' \in [id : Nat, started : Nat, status : {"running"}] /\ nextMatch' = match'.id + 1
           /\ \/ /\ match' = match /\ arena' = a /\ tick - match.started < MatchMax
                 /\ \A p \in Players : where[p] \notin GoalsOf(a)
              \/ /\ match'.started = tick /\ match' # match /\ arena' \in Perturbed(a)
                 /\ tick - match.started < MatchMax => \E p \in Players : where[p] \in GoalsOf(a)
<1>0. /\ match \in [id : Nat, started : Nat, status : {"running"}] /\ nextMatch = match.id + 1 /\ MatchMax \in Nat
      /\ match.started \in Nat /\ match.id \in Nat
  BY PlayConstants DEF PlayInv, PlayTypes
<1>1. \A b \in Arenas(DOMAIN arena.goals) : DOMAIN b.goals = DOMAIN arena.goals
  BY DEF Arenas
<1>2. CASE (\E p \in Players : where[p] \in GoalsOf(a)) \/ HasExpired(tick)
  <2>1. /\ arena' \in Perturbed(a) /\ match' = [id |-> nextMatch, started |-> tick, status |-> "running"]
        /\ nextMatch' = nextMatch + 1
    BY <1>2 DEF EvaluateMatch, BeginNewMatch
  <2>2. GoodArena(arena', DOMAIN arena.goals)
    BY <2>1, PerturbedLater DEF Later
  <2>3. GoodArena(arena', DOMAIN arena'.goals)
    BY <1>1, <2>2 DEF GoodArena
  <2>4. /\ match' \in [id : Nat, started : Nat, status : {"running"}] /\ nextMatch' = match'.id + 1
        /\ match'.started = tick /\ match' # match
    BY <1>0, <2>1
  <2>5. tick - match.started < MatchMax => \E p \in Players : where[p] \in GoalsOf(a)
    BY <1>0, <1>2 DEF HasExpired
  <2> QED
    BY <2>1, <2>3, <2>4, <2>5
<1>3. CASE ~((\E p \in Players : where[p] \in GoalsOf(a)) \/ HasExpired(tick))
  <2>1. arena' = a /\ UNCHANGED <<match, nextMatch>>
    BY <1>3 DEF EvaluateMatch
  <2>2. GoodArena(arena', DOMAIN arena'.goals)
    BY <1>1, <2>1 DEF GoodArena
  <2>3. tick - match.started < MatchMax
    BY <1>0, <1>3 DEF HasExpired
  <2> QED
    BY <1>0, <1>3, <2>1, <2>2, <2>3
<1> QED
  BY <1>2, <1>3

\* The game starts on a connected graph, with a match that has just begun.
LEMMA PlayStarts ==
    ASSUME PlayInit
    PROVE  PlayInv
<1>1. PICK goals \in FirstGoals :
        arena = [edges |-> FirstEdges, priced |-> FirstEdges, goals |-> goals, tick |-> 0, storms |-> 0]
  BY DEF PlayInit
<1>2. goals \in [DOMAIN goals -> Nodes] /\ FirstEdges \in SUBSET Pairs /\ Connected(FirstEdges)
  BY MatchPlayAssumption
<1>3. arena \in Arenas(DOMAIN goals) /\ arena.goals = goals /\ arena.edges = FirstEdges /\ arena.priced = FirstEdges
  BY <1>1, <1>2 DEF Arenas
<1>4. GoodArena(arena, DOMAIN arena.goals)
  BY <1>2, <1>3 DEF GoodArena
<1>5. position \in [Players -> Nodes] /\ IsFiniteSet(Players)
  BY MatchPlayAssumption DEF PlayInit, Players
<1>6. /\ match \in [id : Nat, started : Nat, status : {"running"}] /\ nextMatch = match.id + 1
      /\ match.started = 0 /\ match.status = "running" /\ played = 0 /\ driver \in {"live", "env"}
  BY DEF PlayInit
<1>7. MatchWithinTime
  BY <1>6, PlayConstants DEF MatchWithinTime
<1>8. ShownNeighbours
  BY DEF PlayInit, ShownNeighbours
<1> QED
  BY <1>4, <1>5, <1>6, <1>7, <1>8 DEF PlayInv, PlayTypes

\* What a tick promises of the moves it makes.
MovesSound ==
    /\ \A p \in Players : position'[p] # position[p] =>
         IF driver = "env" THEN Travelled(p) \in arena.edges
         ELSE match' = match => Travelled(p) \in arena'.edges
    /\ \A p \in stayers' : played' # played /\ position'[p] # position[p] =>
         /\ driver = "live"
         /\ match' = match => Cardinality(NeighboursIn(arena', position[p])) > NeighboursK

\* The rest of a tick of the live loop: agents go along edges of the arena a.
LEMMA TickToKeeps ==
    ASSUME PlayInv, driver = "live", NEW a \in ArenaStep(arena), NEW target, TickTo(a, target)
    PROVE  /\ PlayInv' /\ played' # played
           /\ (match' = match => arena' = a)
           /\ \A p \in Players : position'[p] # position[p] =>
                position'[p] = target[p] /\ target[p] \in NeighboursIn(a, position[p])
<1> DEFINE D == DOMAIN arena.goals
<1>1. /\ GoodArena(arena, D) /\ position \in [Players -> Nodes] /\ IsFiniteSet(Players) /\ played \in Nat
      /\ match \in [id : Nat, started : Nat, status : {"running"}] /\ match.started \in Nat
  BY DEF PlayInv, PlayTypes
<1>2. GoodArena(a, D)
  BY <1>1, ArenaStepKeeps
<1>3. /\ position' = [p \in Players |-> Moved(a, position[p], target[p])]
      /\ EvaluateMatch(a, position', played) /\ played' = played + 1 /\ UNCHANGED <<driver, seen, reward>>
  BY DEF TickTo
<1>4. /\ position' \in [Players -> Nodes]
      /\ \A p \in Players : position'[p] # position[p] =>
           position'[p] = target[p] /\ target[p] \in NeighboursIn(a, position[p])
  BY <1>1, <1>3, NeighboursAre DEF Moved
<1>5. Players' = Players
  BY <1>4 DEF Players
<1>6. /\ GoodArena(arena', DOMAIN arena'.goals)
      /\ match' \in [id : Nat, started : Nat, status : {"running"}] /\ nextMatch' = match'.id + 1
      /\ \/ match' = match /\ arena' = a /\ played - match.started < MatchMax
         \/ match'.started = played /\ match' # match
  BY <1>1, <1>2, <1>3, Judged
<1>7. PlayTypes'
  <2>1. driver' = driver /\ driver \in {"live", "env"} /\ played' \in Nat
    BY <1>1, <1>3 DEF PlayInv, PlayTypes
  <2> QED
    BY <1>1, <1>4, <1>5, <1>6, <2>1 DEF PlayTypes
<1>8. MatchWithinTime'
  <2>1. match'.started \in Nat /\ match'.status = "running" /\ MatchMax \in Nat /\ MatchMax > 0
    BY <1>6, PlayConstants
  <2>2. played' - match'.started <= MatchMax
    BY <1>1, <1>3, <1>6, <2>1
  <2> QED
    BY <2>1, <2>2 DEF MatchWithinTime
<1>9. ShownNeighbours'
  BY <1>3 DEF ShownNeighbours
<1> QED
  BY <1>1, <1>3, <1>4, <1>6, <1>7, <1>8, <1>9 DEF PlayInv

\* The policy sends nobody with fewer neighbours than actions where "stay" points.
LEMMA LiveTickKeeps ==
    ASSUME PlayInv, LiveTick \/ LiveWalk
    PROVE  PlayInv' /\ MovesSound /\ driver = "live"
<1>1. driver = "live"
  BY DEF LiveTick, LiveWalk
<1> DEFINE Chosen(a, target) ==
             /\ TickTo(a, target)
             /\ \/ stayers' = {}
                \/ \E action \in [Players -> 0 .. NeighboursK] :
                     /\ target = [p \in Players |-> Deployed(a, position[p], action[p])]
                     /\ stayers' = {p \in Players : action[p] = NeighboursK}
<1>0. PICK a \in ArenaStep(arena) : \E target : Chosen(a, target)
  <2>1. CASE LiveTick
    BY <2>1 DEF LiveTick
  <2>2. CASE LiveWalk
    BY <2>2 DEF LiveWalk
  <2> QED
    BY <2>1, <2>2
<1>2. PICK target : Chosen(a, target)
  BY <1>0
<1>3. /\ PlayInv' /\ (match' = match => arena' = a)
      /\ \A p \in Players : position'[p] # position[p] =>
           position'[p] = target[p] /\ target[p] \in NeighboursIn(a, position[p])
  BY <1>1, <1>2, TickToKeeps
<1>4. \A p \in Players : position'[p] # position[p] => Travelled(p) \in a.edges
  BY <1>3 DEF NeighboursIn, Travelled
<1>5. ASSUME NEW p \in stayers', position'[p] # position[p]
      PROVE  Cardinality(NeighboursIn(a, position[p])) > NeighboursK
  <2>1. PICK action \in [Players -> 0 .. NeighboursK] :
          /\ target = [q \in Players |-> Deployed(a, position[q], action[q])]
          /\ stayers' = {q \in Players : action[q] = NeighboursK}
    BY <1>2, <1>5
  <2>2. p \in Players /\ action[p] = NeighboursK /\ target[p] = Deployed(a, position[p], NeighboursK)
    BY <1>5, <2>1
  <2>3. target[p] # position[p]
    BY <1>3, <1>5, <2>2
  <2>4. ~(NeighboursK >= Cardinality(NeighboursIn(a, position[p])))
    BY <2>2, <2>3 DEF Deployed
  <2>5. Cardinality(NeighboursIn(a, position[p])) \in Nat /\ NeighboursK \in Nat
    BY NeighboursAre, PlayConstants
  <2> QED
    BY <2>4, <2>5
<1>6. \A p \in Players : position'[p] # position[p] =>
        IF driver = "env" THEN Travelled(p) \in arena.edges
        ELSE match' = match => Travelled(p) \in arena'.edges
  BY <1>1, <1>3, <1>4
<1>7. \A p \in stayers' : played' # played /\ position'[p] # position[p] =>
        /\ driver = "live"
        /\ match' = match => Cardinality(NeighboursIn(arena', position[p])) > NeighboursK
  BY <1>1, <1>3, <1>5
<1> QED
  BY <1>1, <1>3, <1>6, <1>7 DEF MovesSound

\* In a step of the environment agents go where they were shown they can, and the clock is read ahead.
LEMMA EnvStepKeeps ==
    ASSUME PlayInv, NEW a \in ArenaStep(arena), NEW action \in [Players -> 0 .. NeighboursK],
           driver = "env", driver' = driver, played' = played + 1,
           position' = [p \in Players |-> Applied(p, action[p])],
           EvaluateMatch(a, position', played + 1),
           stayers' = {p \in Players : action[p] = NeighboursK},
           seen' = [p \in Players |-> Shown(arena, arena', position'[p])]
    PROVE  PlayInv' /\ MovesSound
<1> DEFINE D == DOMAIN arena.goals
<1>1. /\ GoodArena(arena, D) /\ position \in [Players -> Nodes] /\ IsFiniteSet(Players) /\ played \in Nat
      /\ match \in [id : Nat, started : Nat, status : {"running"}] /\ match.started \in Nat
      /\ seen = [p \in Players |-> NeighboursIn(arena, position[p])]
  BY DEF PlayInv, PlayTypes, ShownNeighbours
<1>2. GoodArena(a, D)
  BY <1>1, ArenaStepKeeps
<1>3. \A p \in Players : \/ position'[p] = position[p]
                         \/ action[p] # NeighboursK /\ position'[p] \in NeighboursIn(arena, position[p])
  <2> SUFFICES ASSUME NEW p \in Players, position'[p] # position[p]
               PROVE  action[p] # NeighboursK /\ position'[p] \in NeighboursIn(arena, position[p])
    OBVIOUS
  <2>1. position'[p] = Applied(p, action[p]) /\ seen[p] = NeighboursIn(arena, position[p])
    BY <1>1
  <2>2. action[p] # NeighboursK /\ ~(action[p] >= Cardinality(seen[p])) /\ position'[p] = Nth(seen[p], action[p])
    BY <2>1 DEF Applied, Illegal
  <2>3. /\ seen[p] \in SUBSET Nat /\ IsFiniteSet(seen[p]) /\ Cardinality(seen[p]) \in Nat /\ action[p] \in Nat
    BY <2>1, NeighboursAre, PlayConstants
  <2>4. action[p] < Cardinality(seen[p])
    BY <2>2, <2>3
  <2>5. Nth(seen[p], action[p]) \in seen[p]
    BY <2>3, <2>4, NthExists
  <2> QED
    BY <2>1, <2>2, <2>5
<1>4. position' \in [Players -> Nodes]
  BY <1>1, <1>3, NeighboursAre
<1>5. Players' = Players
  BY <1>4 DEF Players
<1>6. /\ GoodArena(arena', DOMAIN arena'.goals)
      /\ match' \in [id : Nat, started : Nat, status : {"running"}] /\ nextMatch' = match'.id + 1
      /\ \/ match' = match /\ (played + 1) - match.started < MatchMax
         \/ match'.started = played + 1
  BY <1>1, <1>2, Judged
<1>7. PlayTypes'
  <2>1. driver' \in {"live", "env"} /\ played' \in Nat
    BY <1>1
  <2> QED
    BY <1>1, <1>4, <1>5, <1>6, <2>1 DEF PlayTypes
<1>8. MatchWithinTime'
  <2>1. match'.started \in Nat /\ match'.status = "running" /\ MatchMax \in Nat /\ MatchMax > 0
    BY <1>6, PlayConstants
  <2>2. played' - match'.started <= MatchMax
    BY <1>1, <1>6, <2>1
  <2> QED
    BY <2>1, <2>2 DEF MatchWithinTime
<1>9. ShownNeighbours'
  <2>1. seen' = [p \in Players |-> NeighboursIn(arena', position'[p])]
    BY DEF Shown
  <2> QED
    BY <1>5, <2>1 DEF ShownNeighbours
<1>10. \A p \in Players : position'[p] # position[p] => Travelled(p) \in arena.edges
  BY <1>3 DEF NeighboursIn, Travelled
<1>11. \A p \in stayers' : position'[p] = position[p]
  BY <1>3
<1> QED
  BY <1>7, <1>8, <1>9, <1>10, <1>11 DEF PlayInv, MovesSound

\* Goals that have just walked do not walk again within less than a period.
LEMMA WalksApart ==
    ASSUME NEW t \in Nat, Walks(t), NEW i \in Nat, i < PerturbSteps
    PROVE  ~Walks((t + 1) + i)
<1> DEFINE W == WalkPeriod
           q == t \div W
           r == ((t + 1) + i) \div W
<1>1. W \in Nat /\ W > 0 /\ i + 1 < W
  BY PlayConstants
<1> HIDE DEF W
<1>2. q \in Int /\ t = W * q + (t % W)
  BY <1>1
<1>3. r \in Int /\ (t + 1) + i = W * r + (((t + 1) + i) % W)
  BY <1>1
<1> HIDE DEF q, r
<1>4. t % W = 0
  BY DEF Walks, W
<1>5. ASSUME ((t + 1) + i) % W = 0
      PROVE  FALSE
  <2>1. W * r - W * q = i + 1 /\ W * r \in Int /\ W * q \in Int
    BY <1>1, <1>2, <1>3, <1>4, <1>5
  <2>2. CASE r <= q
    <3>1. W * r <= W * q
      BY <1>1, <1>2, <1>3, <2>2
    <3> QED
      BY <2>1, <3>1
  <2>3. CASE r >= q + 1
    <3>1. W * r >= W * (q + 1) /\ W * (q + 1) = W * q + W
      BY <1>1, <1>2, <1>3, <2>3
    <3> QED
      BY <1>1, <2>1, <3>1
  <2> QED
    BY <1>2, <1>3, <2>2, <2>3
<1> QED
  BY <1>5 DEF Walks, W

\* Goals that a step of the arena and those after it let an agent reach were there before or are after.
LEMMA GoalsCounted ==
    ASSUME NEW D, NEW g, GoodArena(g, D), NEW a \in ArenaStep(g), NEW b \in Perturbed(a)
    PROVE  GoalsOf(a) \subseteq GoalsOf(g) \cup GoalsOf(b)
<1>1. GoodArena(a, D) /\ a.tick = g.tick + 1 /\ (~Walks(g.tick) => a.goals = g.goals)
  BY ArenaStepKeeps
<1>2. CASE ~Walks(g.tick)
  BY <1>1, <1>2 DEF GoalsOf
<1>3. CASE Walks(g.tick)
  <2>1. Later(a, b, PerturbSteps, D)
    BY <1>1, PerturbedLater
  <2>2. g.tick \in Nat /\ PerturbSteps \in Nat
    BY PlayConstants DEF GoodArena, Arenas
  <2>3. \A i \in 0 .. PerturbSteps - 1 : i \in Nat /\ i < PerturbSteps
    BY <2>2
  <2>4. \A i \in 0 .. PerturbSteps - 1 : ~Walks(a.tick + i)
    BY <1>1, <1>3, <2>2, <2>3, WalksApart
  <2>5. b.goals = a.goals
    BY <2>1, <2>4 DEF Later
  <2> QED
    BY <2>5 DEF GoalsOf
<1> QED
  BY <1>2, <1>3

\* However crowded the node: who stands on a goal that pays gets the goal less every other agent.
LEMMA GoalPays ==
    ASSUME PlayInv, NEW where, NEW p \in Players, NEW action, NEW paying, where[p] \in paying
    PROVE  RewardOf(p, action, where, paying) >= 89 - CrowdingPenalty * (Cardinality(Players) - 1)
<1> DEFINE crowd == {q \in Players : where[q] = where[p]}
           n == Cardinality(crowd)
           N == Cardinality(Players)
           C == CrowdingPenalty
           fine == IF Illegal(p, action) THEN -10 ELSE 0
<1>1. IsFiniteSet(Players) /\ crowd \subseteq Players
  BY DEF PlayInv, PlayTypes
<1>2. n \in Nat /\ N \in Nat /\ n <= N /\ C \in Nat
  BY <1>1, FS_Subset, FS_CardinalityType, PlayConstants
<1>3. fine \in {-10, 0}
  OBVIOUS
<1> DEFINE prize == IF where[p] \in paying THEN 100 ELSE 0
<1>3a. prize = 100
  OBVIOUS
<1>3b. RewardOf(p, action, where, paying) = -1 + fine + prize - C * (n - 1)
  BY Zenon DEF RewardOf
<1> HIDE DEF prize
<1>4. RewardOf(p, action, where, paying) = -1 + fine + 100 - C * (n - 1)
  BY <1>3a, <1>3b
<1> HIDE DEF n, N, C, fine, crowd
<1>5. C * (n - 1) <= C * (N - 1) /\ C * (n - 1) \in Int /\ C * (N - 1) \in Int
  BY <1>2
<1>6. -1 + fine + 100 - C * (n - 1) >= 89 - C * (N - 1)
  BY <1>3, <1>5
<1> QED
  BY <1>4, <1>6 DEF C, N

\* What a step of the game promises those who win.
WinnerPaid ==
    driver = "env" /\ match' # match /\ played + 1 - match.started < MatchMax =>
      \E p \in Players : reward'[p] >= 89 - CrowdingPenalty * (Cardinality(Players) - 1)

\* The winner of a match in the environment stands on a goal that pays.
LEMMA EnvStepPays ==
    ASSUME PlayInv, NEW a \in ArenaStep(arena), NEW action \in [Players -> 0 .. NeighboursK],
           EvaluateMatch(a, position', played + 1), match' # match, played + 1 - match.started < MatchMax,
           reward' = [p \in Players |-> RewardOf(p, action[p], position', PayingGoals(arena, arena'))]
    PROVE  \E p \in Players : reward'[p] >= 89 - CrowdingPenalty * (Cardinality(Players) - 1)
<1> DEFINE D == DOMAIN arena.goals
<1>1. GoodArena(arena, D) /\ played \in Nat /\ match.started \in Nat
  BY DEF PlayInv, PlayTypes
<1>2. GoodArena(a, D)
  BY <1>1, ArenaStepKeeps
<1> DEFINE where == position'
           tick == played + 1
<1>3. arena' \in Perturbed(a) /\ \E p \in Players : where[p] \in GoalsOf(a)
  <2>0. EvaluateMatch(a, where, tick)
    BY Zenon
  <2>1. tick \in Nat /\ tick - match.started < MatchMax
    BY <1>1
  <2> HIDE DEF where, tick
  <2>2. \/ match' = match
        \/ /\ arena' \in Perturbed(a)
           /\ tick - match.started < MatchMax => \E p \in Players : where[p] \in GoalsOf(a)
    BY <1>2, <2>0, <2>1, Judged
  <2> QED
    BY <2>1, <2>2
<1>4. PICK p \in Players : position'[p] \in GoalsOf(a)
  BY <1>3
<1>5. position'[p] \in PayingGoals(arena, arena')
  BY <1>1, <1>3, <1>4, GoalsCounted DEF PayingGoals
<1>6. reward'[p] = RewardOf(p, action[p], position', PayingGoals(arena, arena'))
  OBVIOUS
<1>7. RewardOf(p, action[p], position', PayingGoals(arena, arena')) >= 89 - CrowdingPenalty * (Cardinality(Players) - 1)
  BY <1>5, GoalPays
<1> QED
  BY <1>6, <1>7

\* Every step of the game keeps the invariant and its promises.
LEMMA PlaySteps ==
    ASSUME PlayInv, [PlayNext]_matchVars
    PROVE  PlayInv' /\ ([MovesSound]_matchVars) /\ ([WinnerPaid]_matchVars)
<1>1. CASE LiveTick \/ LiveWalk
  BY <1>1, LiveTickKeeps DEF WinnerPaid
<1>2. CASE EnvStep
  <2>1. driver = "env" /\ driver' = driver /\ played' = played + 1
    BY <1>2 DEF EnvStep
  <2>2. PICK a \in ArenaStep(arena) : \E action \in [Players -> 0 .. NeighboursK] :
          /\ position' = [p \in Players |-> Applied(p, action[p])]
          /\ EvaluateMatch(a, position', played + 1)
          /\ stayers' = {p \in Players : action[p] = NeighboursK}
          /\ reward' = [p \in Players |-> RewardOf(p, action[p], position', PayingGoals(arena, arena'))]
    BY <1>2 DEF EnvStep
  <2>3. PICK action \in [Players -> 0 .. NeighboursK] :
          /\ position' = [p \in Players |-> Applied(p, action[p])]
          /\ EvaluateMatch(a, position', played + 1)
          /\ stayers' = {p \in Players : action[p] = NeighboursK}
          /\ reward' = [p \in Players |-> RewardOf(p, action[p], position', PayingGoals(arena, arena'))]
    BY <2>2
  <2>4. seen' = [p \in Players |-> Shown(arena, arena', position'[p])]
    BY <1>2 DEF EnvStep
  <2>5. PlayInv' /\ MovesSound
    BY <2>1, <2>3, <2>4, EnvStepKeeps
  <2>6. WinnerPaid
    BY <2>3, EnvStepPays DEF WinnerPaid
  <2> QED
    BY <2>5, <2>6
<1>3. CASE UNCHANGED matchVars
  BY <1>3 DEF matchVars, PlayInv, PlayTypes, MatchWithinTime, ShownNeighbours, Players
<1> QED
  BY <1>1, <1>2, <1>3 DEF PlayNext

\* The invariant says more than the property.
LEMMA PlayInvSound ==
    ASSUME PlayInv
    PROVE  ArenaSound /\ MatchWithinTime
<1>1. GoodArena(arena, DOMAIN arena.goals) /\ MatchWithinTime
  BY DEF PlayInv, PlayTypes
<1>2. GoalsOf(arena) \subseteq Nodes
  BY <1>1 DEF GoodArena, Arenas, GoalsOf
<1> QED
  BY <1>1, <1>2 DEF GoodArena, ArenaSound

\* Whatever the weather deletes and wherever goals and agents go: the arena stays connected, nobody
\* moves along an edge that is not there, "stay" stays, matches end in time and their winners are paid
\* (Arena.step, Simulation._tick, PenumbraEnv.step).
THEOREM PlaySoundHolds == Spec => PlaySound
<1>1. Init => PlayInv
  BY PlayStarts DEF Init
<1>2. PlayInv /\ [Next]_vars => PlayInv' /\ ([MovesSound]_matchVars) /\ ([WinnerPaid]_matchVars)
  BY Parts, PlaySteps
<1>3. PlayInv => ArenaSound /\ MatchWithinTime
  BY PlayInvSound
<1>4. Spec => [](ArenaSound /\ MatchWithinTime)
  BY <1>1, <1>2, <1>3, PTL DEF Spec
<1>5. Spec => NoJumps
  <2>1. [MovesSound]_matchVars =>
          [\A p \in Players : position'[p] # position[p] =>
             IF driver = "env" THEN Travelled(p) \in arena.edges
             ELSE match' = match => Travelled(p) \in arena'.edges]_matchVars
    BY DEF MovesSound
  <2> QED
    BY <1>1, <1>2, <2>1, PTL DEF Spec, NoJumps
<1>6. Spec => StayMeansStay
  <2>1. [MovesSound]_matchVars =>
          [\A p \in stayers' : played' # played /\ position'[p] # position[p] =>
             /\ driver = "live"
             /\ match' = match => Cardinality(NeighboursIn(arena', position[p])) > NeighboursK]_matchVars
    BY DEF MovesSound
  <2> QED
    BY <1>1, <1>2, <2>1, PTL DEF Spec, StayMeansStay
<1>7. Spec => WinnerIsPaid
  <2>1. [WinnerPaid]_matchVars =>
          [driver = "env" /\ match' # match /\ played + 1 - match.started < MatchMax =>
             \E p \in Players : reward'[p] >= 89 - CrowdingPenalty * (Cardinality(Players) - 1)]_matchVars
    BY DEF WinnerPaid
  <2> QED
    BY <1>1, <1>2, <2>1, PTL DEF Spec, WinnerIsPaid
<1> QED
  BY <1>4, <1>5, <1>6, <1>7 DEF PlaySound

----------------------------------------------------------------------------
(* The operator's slot                                                     *)

\* Whatever is asked, scheduled, attached or retargeted before a tick drains the queue: no action is
\* lost uncounted, what is due leaves in order and the last move wins, a paused mechanism releases
\* nothing, the trainer's Krum is the one reported, and a rotation of the key is seen by the signatures
\* after it (OperatorQueue, drain_operator_queue and the handlers).
THEOREM SlotSoundHolds == Spec => SlotSound
<1>1. Init => SlotInv
  BY SlotStarts DEF Init
<1>2. SlotInv /\ [Next]_vars => SlotInv' /\ [SlotStep]_slotVars
  BY Parts, SlotSteps
<1>3. SlotInv => QueueAccounted /\ DrainsInOrder /\ ReportedKrumIsSet
  BY SlotInvSound
<1>4. Spec => [](QueueAccounted /\ DrainsInOrder /\ ReportedKrumIsSet)
  BY <1>1, <1>2, <1>3, PTL DEF Spec
<1>5. Spec => LastMoveWins
  <2>1. [SlotStep]_slotVars =>
          [\A i \in DOMAIN drained' :
             drained' # drained /\ drained'[i].entry.action.kind = "move" =>
               \A j \in DOMAIN queue.entries :
                 queue.entries[j].action.kind = "move" /\ IsDue(queue.entries[j]) =>
                   queue.entries[j].seq <= drained'[i].entry.seq]_slotVars
    BY DEF SlotStep
  <2> QED
    BY <1>1, <1>2, <2>1, PTL DEF Spec, LastMoveWins
<1>6. Spec => PausedReleasesNothing
  <2>1. [SlotStep]_slotVars =>
          [context'.released > context.released =>
             \/ ~pauseAsked
             \/ \E i \in DOMAIN drained' : drained'[i].entry.action.kind = "defense_resume_dp"]_slotVars
    BY DEF SlotStep
  <2> QED
    BY <1>1, <1>2, <2>1, PTL DEF Spec, PausedReleasesNothing
<1>7. Spec => RotationsChangeTheKey
  <2>1. [SlotStep]_slotVars =>
          [slot' = slot =>
             /\ operatorKey' - operatorKey
                  = context'.defences.key_rotations - context.defences.key_rotations
             /\ drained' # drained =>
                  \A i \in DOMAIN drained' :
                    drained'[i].entry.action.kind = "sign" =>
                      drained'[i].shown = operatorKey + Cardinality(
                        {j \in 1..i - 1 :
                           drained'[j].entry.action.kind = "defense_rotate_keys"})]_slotVars
    BY DEF SlotStep
  <2> QED
    BY <1>1, <1>2, <2>1, PTL DEF Spec, RotationsChangeTheKey
<1> QED
  BY <1>4, <1>5, <1>6, <1>7 DEF SlotSound

----------------------------------------------------------------------------
(* The pool of threads                                                     *)

\* The elements of a sequence, and that none is there twice.
Elements(w) == {w[i] : i \in DOMAIN w}
Once(w) == \A i, j \in DOMAIN w : w[i] = w[j] => i = j

\* Appending what was not there.
LEMMA OnceMore ==
    ASSUME NEW J, NEW w \in Seq(J), NEW x \in J, Once(w), x \notin Elements(w)
    PROVE  /\ Append(w, x) \in Seq(J) /\ Once(Append(w, x))
           /\ Elements(Append(w, x)) = Elements(w) \cup {x}
<1> DEFINE v == Append(w, x)
<1>1. v \in Seq(J) /\ Len(v) = Len(w) + 1 /\ v[Len(w) + 1] = x /\ \A i \in 1 .. Len(w) : v[i] = w[i]
  BY AppendProperties
<1>2. Len(w) \in Nat /\ DOMAIN w = 1 .. Len(w) /\ DOMAIN v = 1 .. Len(w) + 1
  BY <1>1
<1>3. \A i \in DOMAIN v : i \in DOMAIN w \/ i = Len(w) + 1
  BY <1>2
<1> HIDE DEF v
<1>4. \A i \in DOMAIN w : w[i] # x
  BY DEF Elements
<1>5. Once(v)
  BY <1>1, <1>2, <1>3, <1>4 DEF Once
<1>6. \A y : y \in Elements(v) <=> y \in Elements(w) \/ y = x
  <2> TAKE y
  <2>1. ASSUME y \in Elements(v) PROVE y \in Elements(w) \/ y = x
    <3>1. PICK i \in DOMAIN v : y = v[i]
      BY <2>1 DEF Elements
    <3> QED
      BY <1>1, <1>2, <1>3, <3>1 DEF Elements
  <2>2. ASSUME y \in Elements(w) PROVE y \in Elements(v)
    <3>1. PICK i \in DOMAIN w : y = w[i]
      BY <2>2 DEF Elements
    <3>2. i \in DOMAIN v /\ y = v[i]
      BY <1>1, <1>2, <3>1
    <3> QED
      BY <3>2 DEF Elements
  <2>3. x \in Elements(v)
    <3>1. Len(w) + 1 \in DOMAIN v
      BY <1>2
    <3> QED
      BY <1>1, <3>1 DEF Elements
  <2> QED
    BY <2>1, <2>2, <2>3
<1>7. Elements(v) = Elements(w) \cup {x}
  BY <1>6
<1> QED
  BY <1>1, <1>5, <1>7 DEF v

\* Taking the first.
LEMMA OnceLess ==
    ASSUME NEW J, NEW w \in Seq(J), Once(w), w # <<>>
    PROVE  /\ Tail(w) \in Seq(J) /\ Once(Tail(w)) /\ Head(w) \in Elements(w)
           /\ Elements(Tail(w)) = Elements(w) \ {Head(w)}
<1> DEFINE v == Tail(w)
<1>1. v \in Seq(J) /\ Len(v) = Len(w) - 1 /\ \A i \in 1 .. Len(v) : v[i] = w[i + 1]
  BY HeadTailProperties
<1>2. /\ Len(w) \in Nat /\ Len(w) > 0 /\ DOMAIN w = 1 .. Len(w) /\ DOMAIN v = 1 .. Len(v)
      /\ Head(w) = w[1] /\ 1 \in DOMAIN w
  BY <1>1
<1> HIDE DEF v
<1>3. \A i \in DOMAIN v : i \in Int /\ i + 1 \in DOMAIN w /\ i + 1 # 1 /\ v[i] = w[i + 1]
  BY <1>1, <1>2
<1>4. Once(v)
  <2> SUFFICES ASSUME NEW i \in DOMAIN v, NEW j \in DOMAIN v, v[i] = v[j] PROVE i = j
    BY DEF Once
  <2>1. i + 1 = j + 1
    BY <1>3 DEF Once
  <2> QED
    BY <1>3, <2>1
<1>5. \A y : y \in Elements(v) <=> y \in Elements(w) /\ y # w[1]
  <2> TAKE y
  <2>1. ASSUME y \in Elements(v) PROVE y \in Elements(w) /\ y # w[1]
    <3>1. PICK i \in DOMAIN v : y = v[i]
      BY <2>1 DEF Elements
    <3> QED
      BY <1>2, <1>3, <3>1 DEF Elements, Once
  <2>2. ASSUME y \in Elements(w), y # w[1] PROVE y \in Elements(v)
    <3>1. PICK i \in DOMAIN w : y = w[i]
      BY <2>2 DEF Elements
    <3>2. i - 1 \in DOMAIN v /\ i \in Int
      BY <1>1, <1>2, <2>2, <3>1
    <3>3. (i - 1) + 1 = i
      BY <3>2
    <3>4. y = v[i - 1]
      BY <1>3, <3>1, <3>2, <3>3
    <3> QED
      BY <3>2, <3>4 DEF Elements
  <2> QED
    BY <2>1, <2>2
<1>6. Elements(v) = Elements(w) \ {w[1]}
  BY <1>5
<1>7. Head(w) \in Elements(w)
  BY <1>2 DEF Elements
<1> QED
  BY <1>1, <1>2, <1>4, <1>6, <1>7 DEF v

\* Withdrawing the jobs of a terminal's pumps.
LEMMA StillWaitingIs ==
    ASSUME NEW J, NEW w \in Seq(J), Once(w), NEW t
    PROVE  /\ StillWaiting(w, t) \in Seq(J) /\ Once(StillWaiting(w, t))
           /\ Elements(StillWaiting(w, t)) = {j \in Elements(w) : ~Withdrawn(j, t)}
<1> DEFINE N == Len(w)
           G == [p \in (Int \X Seq(J)) |-> IF Withdrawn(w[p[1]], t) THEN p[2] ELSE Append(p[2], w[p[1]])]
           Body(f) == [i \in 0 .. Len(w) |->
                         IF i = 0 THEN <<>>
                         ELSE IF Withdrawn(w[i], t) THEN f[i - 1] ELSE Append(f[i - 1], w[i])]
           upTo == CHOOSE f : f = Body(f)
<1>1. StillWaiting(w, t) = upTo[Len(w)]
  BY DEF StillWaiting
<1>2. /\ Len(w) \in Nat /\ DOMAIN w = 1 .. Len(w) /\ 0 \in Int /\ Len(w) \in Int /\ 0 <= Len(w)
      /\ \A i \in 0 .. Len(w) : i # 0 => i \in DOMAIN w /\ w[i] \in J
  OBVIOUS
<1>3. PICK f : f = [i \in 0 .. Len(w) |-> IF i = 0 THEN <<>> ELSE G[<<i, f[i - 1]>>]]
  <2> HIDE DEF G
  <2>1. \E f : Recursive(f, 0, Len(w), <<>>, G)
    BY <1>2, RecursionExists
  <2> QED
    BY <2>1 DEF Recursive
<1> DEFINE Step(g, i) == IF Withdrawn(w[i], t) THEN g[i - 1] ELSE Append(g[i - 1], w[i])
           Goes(g) == /\ g[0] = <<>>
                      /\ \A i \in 0 .. Len(w) : i # 0 /\ g[i - 1] \in Seq(J) => g[i] = Step(g, i)
           Kept(v, i) == /\ v \in Seq(J) /\ Once(v)
                         /\ \A j : j \in Elements(v) <=> \E k \in 1 .. i : j = w[k] /\ ~Withdrawn(w[k], t)
<1>4. ASSUME NEW g, Goes(g)
      PROVE  \A i \in 0 .. Len(w) : Kept(g[i], i)
  <2> DEFINE S == {i \in Nat : i <= Len(w) => Kept(g[i], i)}
  <2>1. 0 \in S
    <3>1. g[0] = <<>>
      BY <1>4
    <3>2. <<>> \in Seq(J) /\ Once(<<>>) /\ Elements(<<>>) = {} /\ 1 .. 0 = {}
      BY DEF Once, Elements
    <3> QED
      BY <3>1, <3>2
  <2>2. ASSUME NEW i \in Nat, i \in S
        PROVE  i + 1 \in S
    <3> SUFFICES ASSUME i + 1 <= Len(w) PROVE Kept(g[i + 1], i + 1)
      OBVIOUS
    <3> DEFINE n == i + 1
    <3>1. n \in 0 .. Len(w) /\ n # 0 /\ n - 1 = i /\ i <= Len(w) /\ n \in DOMAIN w /\ w[n] \in J
      BY <1>2
    <3>2. Kept(g[i], i)
      BY <2>2, <3>1
    <3>3. g[n] = IF Withdrawn(w[n], t) THEN g[i] ELSE Append(g[i], w[n])
      BY <1>4, <3>1, <3>2
    <3>4. \A k : k \in 1 .. n <=> k \in 1 .. i \/ k = n
      BY <3>1
    <3>5. \A k \in 1 .. i : k \in DOMAIN w /\ k # n
      BY <1>2, <3>1
    <3> HIDE DEF n
    <3>6. CASE Withdrawn(w[n], t)
      <4>1. g[n] = g[i]
        BY <3>3, <3>6
      <4> QED
        BY <3>2, <3>4, <3>6, <4>1 DEF n
    <3>7. CASE ~Withdrawn(w[n], t)
      <4> DEFINE v == g[i]
      <4>1. g[n] = Append(v, w[n])
        BY <3>3, <3>7
      <4>2. v \in Seq(J) /\ Once(v) /\ \A j : j \in Elements(v) <=> \E k \in 1 .. i : j = w[k] /\ ~Withdrawn(w[k], t)
        BY <3>2
      <4> HIDE DEF v
      <4>3. w[n] \notin Elements(v)
        BY <3>1, <3>5, <4>2 DEF Once
      <4>4. Append(v, w[n]) \in Seq(J) /\ Once(Append(v, w[n])) /\ Elements(Append(v, w[n])) = Elements(v) \cup {w[n]}
        BY <3>1, <4>2, <4>3, OnceMore
      <4>5. \A j : j \in Elements(Append(v, w[n])) <=> \E k \in 1 .. n : j = w[k] /\ ~Withdrawn(w[k], t)
        BY <3>4, <3>7, <4>2, <4>4
      <4> QED
        BY <4>1, <4>4, <4>5 DEF n
    <3> QED
      BY <3>6, <3>7
  <2> HIDE DEF S
  <2>3. Nat \subseteq S
    BY <2>1, <2>2, SetInduction
  <2> HIDE DEF Kept
  <2>4. \A i \in 0 .. Len(w) : i \in Nat /\ i <= Len(w)
    BY <1>2
  <2>5. \A i \in Nat : i \in S => (i <= Len(w) => Kept(g[i], i))
    BY DEF S
  <2> QED
    BY <2>3, <2>4, <2>5
<1>5. Goes(f)
  <2>1. f[0] = <<>>
    BY <1>2, <1>3
  <2>2. ASSUME NEW i \in 0 .. Len(w), i # 0, f[i - 1] \in Seq(J)
        PROVE  f[i] = Step(f, i)
    <3>1. f[i] = G[<<i, f[i - 1]>>]
      BY <1>3, <2>2
    <3>2. <<i, f[i - 1]>> \in Int \X Seq(J)
      BY <1>2, <2>2
    <3> QED
      BY <3>1, <3>2
  <2> QED
    BY <2>1, <2>2
<1> HIDE DEF G
<1>6. f = Body(f)
  <2>1. \A i \in 0 .. Len(w) : i # 0 => i - 1 \in 0 .. Len(w)
    BY <1>2
  <2>2. \A i \in 0 .. Len(w) : i # 0 => f[i - 1] \in Seq(J)
    BY <1>4, <1>5, <2>1
  <2>3. \A i \in 0 .. Len(w) : f[i] = IF i = 0 THEN <<>> ELSE Step(f, i)
    BY <1>3, <1>5, <2>2
  <2>4. f = [i \in 0 .. Len(w) |-> f[i]]
    BY <1>3
  <2> QED
    BY <2>3, <2>4
<1>7. upTo = Body(upTo)
  BY <1>6
<1>8. Goes(upTo)
  <2> HIDE DEF upTo
  <2>1. 0 \in 0 .. Len(w)
    BY <1>2
  <2> QED
    BY <1>7, <2>1
<1> HIDE DEF Goes, upTo
<1>9. Kept(StillWaiting(w, t), Len(w))
  <2> HIDE DEF Kept
  <2>1. Len(w) \in 0 .. Len(w)
    BY <1>2
  <2> QED
    BY <2>1, <1>1, <1>2, <1>4, <1>8
<1> DEFINE v == StillWaiting(w, t)
<1> HIDE DEF v
<1>10. v \in Seq(J) /\ Once(v) /\ \A j : j \in Elements(v) <=> \E k \in 1 .. Len(w) : j = w[k] /\ ~Withdrawn(w[k], t)
  BY <1>9 DEF v
<1>11. \A j : j \in Elements(v) <=> j \in Elements(w) /\ ~Withdrawn(j, t)
  <2> TAKE j
  <2>1. j \in Elements(w) <=> \E k \in 1 .. Len(w) : j = w[k]
    BY <1>2 DEF Elements
  <2> QED
    BY <1>10, <2>1
<1>12. Elements(v) = {j \in Elements(w) : ~Withdrawn(j, t)}
  BY <1>11
<1> QED
  BY <1>10, <1>12 DEF v

Jobs == [kind : {"spawn", "read", "write", "close", "repl"}, of : Nat, arg : Nat]
Pools == [size : Nat, running : SUBSET Jobs, waiting : Seq(Jobs)]
Queue(p) == Elements(p.waiting)

\* No two jobs of one kind are of one terminal or submission, running or not.
Single(S) == \A j, k \in S : j.kind = k.kind /\ j.of = k.of => j = k

PoolOK(p) == p \in Pools /\ Once(p.waiting) /\ p.running \cap Queue(p) = {} /\ Single(p.running \cup Queue(p))

\* q is a pool of the same size with the jobs running and waiting.
Becomes(p, q, running, waiting) ==
    PoolOK(q) /\ q.size = p.size /\ q.running = running /\ Queue(q) = waiting

\* A pool in which jobs that wait are others.
LEMMA OtherQueue ==
    ASSUME NEW p, PoolOK(p), NEW w \in Seq(Jobs), Once(w), NEW r \in SUBSET Jobs,
           r \cap Elements(w) = {}, Single(r \cup Elements(w)),
           NEW q, q = [size |-> p.size, running |-> r, waiting |-> w]
    PROVE  Becomes(p, q, r, Elements(w))
<1>1. p.size \in Nat /\ q.size = p.size /\ q.running = r /\ q.waiting = w
  BY DEF PoolOK, Pools
<1>2. q \in Pools
  BY <1>1 DEF Pools
<1> QED
  BY <1>1, <1>2 DEF Becomes, PoolOK, Queue

\* A pool and its parts.
LEMMA PoolIs ==
    ASSUME NEW p, PoolOK(p)
    PROVE  /\ p = [size |-> p.size, running |-> p.running, waiting |-> p.waiting]
           /\ p.running \in SUBSET Jobs /\ p.waiting \in Seq(Jobs) /\ Queue(p) \in SUBSET Jobs
<1>1. p \in Pools
  BY DEF PoolOK
<1>2. p = [size |-> p.size, running |-> p.running, waiting |-> p.waiting] /\ p.running \in SUBSET Jobs
      /\ p.waiting \in Seq(Jobs)
  BY <1>1 DEF Pools
<1> DEFINE w == p.waiting
           J == Jobs
<1>3. w \in Seq(J)
  BY <1>2
<1> HIDE DEF w, J
<1>4. \A i \in DOMAIN w : w[i] \in J
  BY <1>3
<1>5. Elements(w) \subseteq J
  BY <1>4 DEF Elements
<1> QED
  BY <1>2, <1>5 DEF w, J, Queue

\* A job that nobody has asked for yet.
LEMMA PooledIs ==
    ASSUME NEW p, PoolOK(p), NEW j \in Jobs,
           \A k \in p.running \cup Queue(p) : ~(k.kind = j.kind /\ k.of = j.of)
    PROVE  Becomes(p, Pooled(p, j), p.running, Queue(p) \cup {j})
<1> DEFINE w == p.waiting
           r == p.running
           v == Append(w, j)
<1>1. p = [size |-> p.size, running |-> r, waiting |-> w] /\ r \in SUBSET Jobs /\ w \in Seq(Jobs)
  BY PoolIs
<1>2. Once(w) /\ r \cap Elements(w) = {} /\ Single(r \cup Elements(w)) /\ Queue(p) = Elements(w)
  BY DEF PoolOK, Queue
<1>3. Pooled(p, j) = [size |-> p.size, running |-> r, waiting |-> v]
  <2>1. Pooled(p, j) = [p EXCEPT !.waiting = v]
    BY DEF Pooled
  <2> HIDE DEF v
  <2> QED
    BY <1>1, <2>1
<1>4. \A k \in r \cup Elements(w) : ~(k.kind = j.kind /\ k.of = j.of)
  BY <1>2
<1> HIDE DEF w, r, v
<1>5. j \notin Elements(w) /\ j \notin r
  BY <1>4
<1>6. v \in Seq(Jobs) /\ Once(v) /\ Elements(v) = Elements(w) \cup {j}
  BY <1>1, <1>2, <1>5, OnceMore DEF v
<1>7. r \cap Elements(v) = {} /\ Single(r \cup Elements(v))
  BY <1>2, <1>4, <1>5, <1>6 DEF Single
<1>8. Becomes(p, Pooled(p, j), r, Elements(v))
  BY <1>1, <1>3, <1>6, <1>7, OtherQueue
<1> QED
  BY <1>2, <1>6, <1>8 DEF r

\* Fewer jobs run.
LEMMA FewerRun ==
    ASSUME NEW p, PoolOK(p), NEW r \in SUBSET p.running
    PROVE  Becomes(p, [p EXCEPT !.running = r], r, Queue(p))
<1> DEFINE w == p.waiting
<1>1. p = [size |-> p.size, running |-> p.running, waiting |-> w] /\ p.running \in SUBSET Jobs /\ w \in Seq(Jobs)
  BY PoolIs
<1>2. Once(w) /\ p.running \cap Elements(w) = {} /\ Single(p.running \cup Elements(w)) /\ Queue(p) = Elements(w)
  BY DEF PoolOK, Queue
<1>3. [p EXCEPT !.running = r] = [size |-> p.size, running |-> r, waiting |-> w]
  BY <1>1
<1> HIDE DEF w
<1>4. r \cap Elements(w) = {} /\ Single(r \cup Elements(w)) /\ r \in SUBSET Jobs
  BY <1>1, <1>2 DEF Single
<1>5. Becomes(p, [p EXCEPT !.running = r], r, Elements(w))
  BY <1>1, <1>2, <1>3, <1>4, OtherQueue
<1> QED
  BY <1>2, <1>5

\* A thread takes the first job.
LEMMA TakenIs ==
    ASSUME NEW p, PoolOK(p), p.waiting # <<>>, NEW q,
           q = [p EXCEPT !.running = @ \cup {Head(p.waiting)}, !.waiting = Tail(@)]
    PROVE  \E j \in Queue(p) : Becomes(p, q, p.running \cup {j}, Queue(p) \ {j})
<1> DEFINE w == p.waiting
           r == p.running
           h == Head(w)
           v == Tail(w)
<1>1. p = [size |-> p.size, running |-> r, waiting |-> w] /\ r \in SUBSET Jobs /\ w \in Seq(Jobs)
      /\ Queue(p) \in SUBSET Jobs
  BY PoolIs
<1>2. Once(w) /\ r \cap Elements(w) = {} /\ Single(r \cup Elements(w)) /\ Queue(p) = Elements(w) /\ w # <<>>
  BY DEF PoolOK, Queue
<1>3. q = [size |-> p.size, running |-> r \cup {h}, waiting |-> v]
  BY <1>1
<1>4. v \in Seq(Jobs) /\ Once(v) /\ h \in Elements(w) /\ Elements(v) = Elements(w) \ {h}
  BY <1>1, <1>2, OnceLess
<1> HIDE DEF w, r, v, h
<1>5. (r \cup {h}) \cap Elements(v) = {} /\ r \cup {h} \in SUBSET Jobs
  BY <1>1, <1>2, <1>4
<1>6. (r \cup {h}) \cup Elements(v) = r \cup Elements(w)
  BY <1>4
<1>7. Becomes(p, q, r \cup {h}, Elements(v))
  BY <1>2, <1>3, <1>4, <1>5, <1>6, OtherQueue
<1> QED
  BY <1>2, <1>4, <1>7 DEF r

\* A terminal is left: the jobs of its pumps no longer wait, and one that closes it does.
LEMMA LeavingIs ==
    ASSUME NEW p, PoolOK(p), NEW t \in Nat,
           \A k \in p.running \cup Queue(p) : ~(k.kind = "close" /\ k.of = t)
    PROVE  Becomes(p, LeavingJobs(p, t), p.running, {j \in Queue(p) : ~Withdrawn(j, t)} \cup {Job("close", t, 0)})
<1> DEFINE w == p.waiting
           r == p.running
           v == StillWaiting(w, t)
           q == [size |-> p.size, running |-> r, waiting |-> v]
           j == Job("close", t, 0)
<1>1. p = [size |-> p.size, running |-> r, waiting |-> w] /\ r \in SUBSET Jobs /\ w \in Seq(Jobs)
  BY PoolIs
<1>2. Once(w) /\ r \cap Elements(w) = {} /\ Single(r \cup Elements(w)) /\ Queue(p) = Elements(w)
  BY DEF PoolOK, Queue
<1>3. LeavingJobs(p, t) = Pooled(q, j)
  BY <1>1 DEF LeavingJobs
<1>4. \A k \in r \cup Elements(w) : ~(k.kind = "close" /\ k.of = t)
  BY <1>2
<1>5. v \in Seq(Jobs) /\ Once(v) /\ Elements(v) = {k \in Elements(w) : ~Withdrawn(k, t)}
  BY <1>1, <1>2, StillWaitingIs
<1> HIDE DEF w, r, v
<1>6. r \cap Elements(v) = {} /\ Single(r \cup Elements(v))
  BY <1>2, <1>5 DEF Single
<1>7. Becomes(p, q, r, Elements(v))
  BY <1>1, <1>5, <1>6, OtherQueue
<1>8. j \in Jobs /\ j.kind = "close" /\ j.of = t
  BY DEF Job, Jobs
<1> HIDE DEF q, j
<1>9. PoolOK(q) /\ q.size = p.size /\ q.running = r /\ Queue(q) = Elements(v)
  BY <1>7 DEF Becomes
<1>10. \A k \in q.running \cup Queue(q) : ~(k.kind = j.kind /\ k.of = j.of)
  BY <1>4, <1>5, <1>8, <1>9
<1>11. Becomes(q, Pooled(q, j), q.running, Queue(q) \cup {j})
  BY <1>8, <1>9, <1>10, PooledIs
<1>12. Becomes(p, Pooled(q, j), r, Elements(v) \cup {j})
  BY <1>9, <1>11 DEF Becomes
<1> QED
  BY <1>2, <1>3, <1>5, <1>12 DEF r, j

\* A job that has ended.
LEMMA EndedIs ==
    ASSUME NEW p, PoolOK(p), NEW k, NEW t
    PROVE  Becomes(p, Ended(p, k, t), {j \in p.running : ~(j.kind = k /\ j.of = t)}, Queue(p))
<1> DEFINE r == {j \in p.running : ~(j.kind = k /\ j.of = t)}
<1>1. Ended(p, k, t) = [p EXCEPT !.running = r]
  BY DEF Ended
<1>2. r \in SUBSET p.running
  OBVIOUS
<1> HIDE DEF r
<1>3. Becomes(p, [p EXCEPT !.running = r], r, Queue(p))
  BY <1>2, FewerRun
<1> QED
  BY <1>1, <1>3 DEF r

----------------------------------------------------------------------------
(* The terminals                                                           *)

\* Of some jobs those of a terminal, and whether one is of a kind.
Of(S, u) == {j \in S : j.kind # "repl" /\ j.of = u}
Has(S, kind) == \E j \in S : j.kind = kind

\* A terminal in place c, its shell s with number f, its jobs that run and wait, and what it printed.
Life(c, s, f, running, waiting, piece, passed) ==
    /\ c = "none" => running = {} /\ waiting = {}
    /\ c = "spawning" => \A j \in running \cup waiting : j.kind = "spawn"
    /\ c \in {"none", "spawning"} => s = "none" /\ piece = <<>> /\ passed = <<>>
    /\ c \in {"open", "leaving", "closed"} => s # "none" /\ f \in Consoles /\ ~Has(running \cup waiting, "spawn")
    /\ c \in {"open", "closed"} => ~Has(running \cup waiting, "close")
    /\ c \in {"leaving", "closed"} => ~Has(waiting, "read") /\ ~Has(waiting, "write")
    /\ Has(running \cup waiting, "read") => piece = <<>>
    /\ c = "closed" /\ s = "alive" => Has(running, "read")
    /\ passed \o piece = [i \in 1 .. Len(passed \o piece) |-> i]

\* Terminal u and its keys: typed, accepted and received, when those in l were closed late.
Keys(u, c, running, waiting, ty, ac, rc, l) ==
    /\ c \in {"none", "spawning"} => ty = 0 /\ ac = 0 /\ rc = <<>>
    /\ c = "closed" /\ Has(running, "write") => u \in l
    /\ l = {} =>
         /\ rc = [i \in 1 .. Len(rc) |-> <<u, i>>] /\ Len(rc) <= ac /\ ac <= ty
         /\ \A j \in running \cup waiting : j.kind = "write" => j.arg = ac /\ ac = Len(rc) + 1
         /\ c = "open" /\ ~Has(running \cup waiting, "write") => Len(rc) = ac

LifeOf(u) == Life(conn[u], shell[u], fd[u], Of(pool.running, u), Of(Queue(pool), u), chunk[u], shown[u])
KeysOf(u) == Keys(u, conn[u], Of(pool.running, u), Of(Queue(pool), u), typed[u], accepted[u], received[u], late)

\* A number belongs to the terminal that has it, and to no other.
NumbersOK ==
    /\ \A u \in Consoles : conn[u] \in {"open", "leaving"} => files[fd[u]] = u
    /\ \A n \in Consoles : files[n] # 0 => conn[files[n]] \in {"open", "leaving"} /\ fd[files[n]] = n

JobsAreOf(S) == \A j \in S : IF j.kind = "repl" THEN j.of \in Submissions ELSE j.of \in Consoles

TerminalTypes ==
    /\ PoolOK(pool) /\ JobsAreOf(pool.running \cup Queue(pool))
    /\ conn \in [Consoles -> {"none", "spawning", "open", "leaving", "closed"}]
    /\ shell \in [Consoles -> {"none", "alive", "dead"}]
    /\ fd \in [Consoles -> Nat] /\ files \in [Consoles -> Consoles \cup {0}]
    /\ typed \in [Consoles -> Nat] /\ accepted \in [Consoles -> Nat] /\ printed \in [Consoles -> Nat]
    /\ received \in [Consoles -> Seq(Consoles \X Nat)]
    /\ chunk \in [Consoles -> Seq(Nat)] /\ shown \in [Consoles -> Seq(Nat)]
    /\ late \subseteq Consoles

TerminalInv == TerminalTypes /\ NumbersOK /\ \A u \in Consoles : LifeOf(u) /\ KeysOf(u)

\* What is assumed of terminals and submissions.
LEMMA TerminalConstants ==
    /\ Consoles \subseteq Nat /\ 0 \notin Consoles /\ IsFiniteSet(Consoles)
    /\ Submissions \subseteq Nat /\ 0 \notin Submissions
BY TerminalsAssumption

\* Whether a terminal's job runs or waits.
LEMMA RunsIs ==
    ASSUME TerminalInv, NEW k, k # "repl", NEW t
    PROVE  /\ Runs(k, t) <=> Has(Of(pool.running, t), k)
           /\ Waits(k, t) <=> Has(Of(Queue(pool), t), k)
<1> DEFINE w == pool.waiting
<1>1. Runs(k, t) <=> Has(Of(pool.running, t), k)
  BY DEF Runs, Has, Of
<1>2. Queue(pool) = Elements(w)
  BY DEF Queue
<1>3. Waits(k, t) <=> \E i \in DOMAIN w : w[i].kind = k /\ w[i].of = t
  BY DEF Waits
<1> HIDE DEF w
<1>4. Waits(k, t) <=> \E j \in Elements(w) : j.kind = k /\ j.of = t
  BY <1>3 DEF Elements
<1>5. Waits(k, t) <=> Has(Of(Queue(pool), t), k)
  BY <1>2, <1>4 DEF Has, Of
<1> QED
  BY <1>1, <1>5

\* Only jobs of terminal t come and go.
OnlyOf(t) ==
    \A j : j.kind = "repl" \/ j.of # t =>
      /\ j \in pool'.running <=> j \in pool.running
      /\ j \in Queue(pool') <=> j \in Queue(pool)

\* What concerns one terminal alone leaves the others as they are.
LEMMA OthersRest ==
    ASSUME TerminalInv, NEW t \in Consoles, TerminalTypes', NumbersOK', LifeOf(t)', KeysOf(t)',
           late \subseteq late', OnlyOf(t),
           \A u \in Consoles \ {t} :
             /\ conn'[u] = conn[u] /\ shell'[u] = shell[u] /\ fd'[u] = fd[u] /\ chunk'[u] = chunk[u]
             /\ shown'[u] = shown[u] /\ typed'[u] = typed[u] /\ accepted'[u] = accepted[u] /\ received'[u] = received[u]
    PROVE  TerminalInv'
<1>1. ASSUME NEW u \in Consoles, u # t
      PROVE  LifeOf(u)' /\ KeysOf(u)'
  <2>1. Of(pool'.running, u) = Of(pool.running, u) /\ Of(Queue(pool'), u) = Of(Queue(pool), u)
    BY <1>1 DEF OnlyOf, Of
  <2>2. LifeOf(u)'
    BY <1>1, <2>1 DEF LifeOf, TerminalInv
  <2>3. Keys(u, conn[u], Of(pool.running, u), Of(Queue(pool), u), typed[u], accepted[u], received[u], late')
    <3>1. KeysOf(u)
      BY DEF TerminalInv
    <3> QED
      BY <3>1 DEF KeysOf, Keys
  <2>4. KeysOf(u)'
    BY <1>1, <2>1, <2>3 DEF KeysOf
  <2> QED
    BY <2>2, <2>4
<1> QED
  BY <1>1 DEF TerminalInv

\* Whatever happens to the pool alone: numbers stay as they are.
LEMMA NumbersStay ==
    ASSUME NumbersOK, UNCHANGED <<fd, files>>,
           \A u \in Consoles : conn'[u] # conn[u] =>
             /\ conn[u] \notin {"open", "leaving"} \/ conn'[u] \in {"open", "leaving"}
             /\ conn'[u] \notin {"open", "leaving"} \/ conn[u] \in {"open", "leaving"},
           files \in [Consoles -> Consoles \cup {0}]
    PROVE  NumbersOK'
<1>1. \A u \in Consoles : conn'[u] \in {"open", "leaving"} <=> conn[u] \in {"open", "leaving"}
  OBVIOUS
<1>2. \A n \in Consoles : files[n] # 0 => files[n] \in Consoles
  OBVIOUS
<1> QED
  BY <1>1, <1>2 DEF NumbersOK

\* A thread takes a job: nobody but its terminal may notice.
LEMMA JobTakenKeeps ==
    ASSUME TerminalInv, ThreadTakesJob
    PROVE  TerminalInv' /\ pool'.running \cup Queue(pool') = pool.running \cup Queue(pool)
<1>1. /\ pool.waiting # <<>> /\ pool' = [pool EXCEPT !.running = @ \cup {Head(pool.waiting)}, !.waiting = Tail(@)]
      /\ UNCHANGED ptyVars
  BY DEF ThreadTakesJob
<1>2. PoolOK(pool) /\ JobsAreOf(pool.running \cup Queue(pool)) /\ TerminalTypes
  BY DEF TerminalInv, TerminalTypes
<1>3. PICK j \in Queue(pool) : Becomes(pool, pool', pool.running \cup {j}, Queue(pool) \ {j})
  BY <1>1, <1>2, TakenIs
<1>4. PoolOK(pool') /\ pool'.running = pool.running \cup {j} /\ Queue(pool') = Queue(pool) \ {j}
  BY <1>3 DEF Becomes
<1>5. pool'.running \cup Queue(pool') = pool.running \cup Queue(pool)
  BY <1>4
<1>6. TerminalTypes'
  BY <1>1, <1>2, <1>4, <1>5 DEF TerminalTypes, ptyVars
<1>7. NumbersOK'
  BY <1>1 DEF NumbersOK, ptyVars, TerminalInv
<1>8. ASSUME NEW u \in Consoles
      PROVE  LifeOf(u)' /\ KeysOf(u)'
  <2> DEFINE r == Of(pool.running, u)
             w == Of(Queue(pool), u)
             rr == Of(pool'.running, u)
             ww == Of(Queue(pool'), u)
  <2>1. \/ rr = r /\ ww = w
        \/ rr = r \cup {j} /\ ww = w \ {j} /\ j \in w
    BY <1>3, <1>4 DEF Of
  <2>2. LifeOf(u) /\ KeysOf(u)
    BY DEF TerminalInv
  <2> HIDE DEF r, w, rr, ww
  <2>3. Life(conn[u], shell[u], fd[u], r, w, chunk[u], shown[u])
    BY <2>2 DEF LifeOf, r, w
  <2>4. Keys(u, conn[u], r, w, typed[u], accepted[u], received[u], late)
    BY <2>2 DEF KeysOf, r, w
  <2>5. rr \cup ww = r \cup w /\ r \subseteq rr /\ ww \subseteq w
    BY <2>1
  <2>6. Life(conn[u], shell[u], fd[u], rr, ww, chunk[u], shown[u])
    BY <2>3, <2>5 DEF Life, Has
  <2>7. Keys(u, conn[u], rr, ww, typed[u], accepted[u], received[u], late)
    <3>1. conn[u] = "closed" /\ Has(rr, "write") => Has(r, "write")
      BY <2>1, <2>3 DEF Life, Has
    <3> QED
      BY <2>4, <2>5, <3>1 DEF Keys
  <2> QED
    BY <1>1, <2>6, <2>7 DEF LifeOf, KeysOf, ptyVars, rr, ww
<1> QED
  BY <1>5, <1>6, <1>7, <1>8 DEF TerminalInv

\* A client connects.
LEMMA ConnectKeeps ==
    ASSUME TerminalInv, NEW t \in Consoles, ClientConnects(t)
    PROVE  TerminalInv' /\ OnlyOf(t)
<1>1. /\ conn[t] = "none" /\ conn' = [conn EXCEPT ![t] = "spawning"] /\ pool' = Pooled(pool, Job("spawn", t, 0))
      /\ UNCHANGED <<shell, fd, files, printed, chunk, shown, typed, accepted, received, late>>
  BY DEF ClientConnects, ReaderVars, WriterVars
<1>2. TerminalTypes /\ NumbersOK /\ LifeOf(t) /\ KeysOf(t) /\ PoolOK(pool)
  BY DEF TerminalInv, TerminalTypes
<1> DEFINE j == Job("spawn", t, 0)
           r == Of(pool.running, t)
           w == Of(Queue(pool), t)
<1>3. j \in Jobs /\ j.kind = "spawn" /\ j.of = t
  BY TerminalConstants DEF Job, Jobs
<1> HIDE DEF j
<1>4. r = {} /\ w = {}
  BY <1>1, <1>2 DEF LifeOf, Life
<1>5. \A k \in pool.running \cup Queue(pool) : ~(k.kind = j.kind /\ k.of = j.of)
  BY <1>3, <1>4 DEF Of
<1>6. Becomes(pool, pool', pool.running, Queue(pool) \cup {j})
  BY <1>1, <1>2, <1>3, <1>5, PooledIs DEF j
<1>7. PoolOK(pool') /\ pool'.running = pool.running /\ Queue(pool') = Queue(pool) \cup {j}
  BY <1>6 DEF Becomes
<1>8. conn' \in [Consoles -> {"none", "spawning", "open", "leaving", "closed"}] /\ conn'[t] = "spawning"
      /\ \A u \in Consoles \ {t} : conn'[u] = conn[u]
  BY <1>1, <1>2 DEF TerminalTypes
<1>9. TerminalTypes'
  <2>1. JobsAreOf(pool'.running \cup Queue(pool'))
    BY <1>2, <1>3, <1>7 DEF TerminalTypes, JobsAreOf
  <2> QED
    BY <1>1, <1>2, <1>7, <1>8, <2>1 DEF TerminalTypes
<1>10. NumbersOK'
  BY <1>1, <1>2, <1>8, NumbersStay DEF TerminalTypes
<1>11. OnlyOf(t)
  BY <1>3, <1>7 DEF OnlyOf
<1>12. Of(pool'.running, t) = {} /\ Of(Queue(pool'), t) = {j}
  BY <1>3, <1>4, <1>7 DEF Of
<1>13. LifeOf(t)'
  <2>1. Life("none", shell[t], fd[t], {}, {}, chunk[t], shown[t])
    BY <1>1, <1>2, <1>4 DEF LifeOf
  <2>2. Life("spawning", shell[t], fd[t], {}, {j}, chunk[t], shown[t])
    BY <1>3, <2>1 DEF Life, Has
  <2> QED
    BY <1>1, <1>8, <1>12, <2>2 DEF LifeOf
<1>14. KeysOf(t)'
  <2>1. Keys(t, "none", {}, {}, typed[t], accepted[t], received[t], late)
    BY <1>1, <1>2, <1>4 DEF KeysOf
  <2>2. Keys(t, "spawning", {}, {j}, typed[t], accepted[t], received[t], late)
    BY <1>3, <2>1 DEF Keys, Has
  <2> QED
    BY <1>1, <1>8, <1>12, <2>2 DEF KeysOf
<1> QED
  BY <1>1, <1>8, <1>9, <1>10, <1>11, <1>13, <1>14, OthersRest

\* While a terminal has no number, one is free: each that is taken is another terminal's.
LEMMA NumberFree ==
    ASSUME TerminalInv, NEW t \in Consoles, conn[t] \notin {"open", "leaving"}
    PROVE  \E n \in Consoles : files[n] = 0 /\ \A m \in Consoles : files[m] = 0 => n <= m
<1> DEFINE free == {n \in Consoles : files[n] = 0}
           others == Consoles \ {t}
           holder == [n \in Consoles |-> files[n]]
<1>0. NumbersOK /\ files \in [Consoles -> Consoles \cup {0}]
  BY DEF TerminalInv, TerminalTypes
<1>1. free # {}
  <2> SUFFICES ASSUME \A n \in Consoles : files[n] # 0 PROVE FALSE
    OBVIOUS
  <2>1. \A n \in Consoles : files[n] \in others /\ fd[files[n]] = n
    BY <1>0 DEF NumbersOK
  <2>2. holder \in [Consoles -> others] /\ \A m, n \in Consoles : holder[m] = holder[n] => m = n
    BY <2>1
  <2>3. IsFiniteSet(Consoles) /\ IsFiniteSet(others) /\ Cardinality(others) = Cardinality(Consoles) - 1
        /\ Cardinality(Consoles) \in Nat
    BY TerminalConstants, FS_RemoveElement, FS_CardinalityType
  <2> HIDE DEF holder, others
  <2>4. Cardinality(others) < Cardinality(Consoles)
    BY <2>3
  <2> QED
    BY <2>2, <2>3, <2>4, FS_PigeonHole
<1>2. free \in SUBSET Nat
  BY TerminalConstants
<1>3. PICK n \in free : \A m \in free : n <= m
  <2> HIDE DEF free
  <2> QED
    BY <1>1, <1>2, LeastNatural
<1> QED
  BY <1>3

\* The shell is there, under the least free number.
LEMMA SpawnKeeps ==
    ASSUME TerminalInv, NEW t \in Consoles, ShellSpawned(t)
    PROVE  TerminalInv' /\ OnlyOf(t)
<1>0. TerminalTypes /\ NumbersOK /\ LifeOf(t) /\ KeysOf(t) /\ PoolOK(pool)
  BY DEF TerminalInv, TerminalTypes
<1> DEFINE r == Of(pool.running, t)
           w == Of(Queue(pool), t)
           p == Ended(pool, "spawn", t)
           j == Job("read", t, 0)
<1>1. Has(r, "spawn")
  BY RunsIs DEF ShellSpawned
<1>2. conn[t] = "spawning"
  BY <1>0, <1>1 DEF LifeOf, Life, TerminalTypes, Has
<1>3. \E n \in Consoles : files[n] = 0 /\ \A m \in Consoles : files[m] = 0 => n <= m
  BY <1>2, NumberFree
<1> DEFINE n == CHOOSE n \in Consoles : files[n] = 0 /\ \A m \in Consoles : files[m] = 0 => n <= m
<1>4. n \in Consoles /\ files[n] = 0
  BY <1>3
<1>5. /\ fd' = [fd EXCEPT ![t] = n] /\ files' = [files EXCEPT ![n] = t]
      /\ shell' = [shell EXCEPT ![t] = "alive"] /\ conn' = [conn EXCEPT ![t] = "open"]
      /\ pool' = Pooled(p, j)
      /\ UNCHANGED <<printed, chunk, shown, typed, accepted, received, late>>
  BY DEF ShellSpawned, ReaderVars, WriterVars
<1>6. j \in Jobs /\ j.kind = "read" /\ j.of = t /\ n \in Nat /\ n # 0 /\ t # 0 /\ t \in Nat
  BY <1>4, TerminalConstants DEF Job, Jobs
<1> HIDE DEF n, j, p
<1>7. Becomes(pool, p, {k \in pool.running : ~(k.kind = "spawn" /\ k.of = t)}, Queue(pool))
  BY <1>0, EndedIs DEF p
<1>8. \A k \in r \cup w : k.kind = "spawn" /\ k.of = t
  BY <1>0, <1>2 DEF LifeOf, Life, Of
<1>9. w = {}
  <2>1. Single(pool.running \cup Queue(pool)) /\ pool.running \cap Queue(pool) = {}
    BY <1>0 DEF PoolOK
  <2> QED
    BY <1>1, <1>8, <2>1 DEF Single, Has, Of
<1>10. PoolOK(p) /\ p.running = {k \in pool.running : ~(k.kind = "spawn" /\ k.of = t)} /\ Queue(p) = Queue(pool)
  BY <1>7 DEF Becomes
<1>11. \A k \in p.running \cup Queue(p) : k.kind = "repl" \/ k.of # t
  BY <1>8, <1>9, <1>10 DEF Of
<1>12. Becomes(p, pool', p.running, Queue(p) \cup {j})
  <2>1. \A k \in p.running \cup Queue(p) : ~(k.kind = j.kind /\ k.of = j.of)
    BY <1>6, <1>11
  <2> QED
    BY <1>5, <1>6, <1>10, <2>1, PooledIs
<1>13. PoolOK(pool') /\ pool'.running = p.running /\ Queue(pool') = Queue(pool) \cup {j}
  BY <1>10, <1>12 DEF Becomes
<1>14. /\ conn' \in [Consoles -> {"none", "spawning", "open", "leaving", "closed"}] /\ conn'[t] = "open"
       /\ shell' \in [Consoles -> {"none", "alive", "dead"}] /\ shell'[t] = "alive"
       /\ fd' \in [Consoles -> Nat] /\ fd'[t] = n /\ files' \in [Consoles -> Consoles \cup {0}] /\ files'[n] = t
       /\ \A u \in Consoles \ {t} : conn'[u] = conn[u] /\ shell'[u] = shell[u] /\ fd'[u] = fd[u]
       /\ \A m \in Consoles \ {n} : files'[m] = files[m]
  BY <1>0, <1>4, <1>5, <1>6 DEF TerminalTypes
<1>15. TerminalTypes'
  <2>1. JobsAreOf(pool'.running \cup Queue(pool'))
    BY <1>0, <1>6, <1>10, <1>13 DEF TerminalTypes, JobsAreOf
  <2> QED
    BY <1>0, <1>5, <1>13, <1>14, <2>1 DEF TerminalTypes
<1>16. NumbersOK'
  <2>1. \A u \in Consoles : conn[u] \in {"open", "leaving"} => files[fd[u]] = u /\ fd[u] \in Consoles /\ fd[u] # n
    <3>1. \A u \in Consoles : conn[u] \in {"open", "leaving"} => fd[u] \in Consoles
      BY DEF TerminalInv, LifeOf, Life
    <3> QED
      BY <1>0, <1>4, <3>1, TerminalConstants DEF NumbersOK
  <2>2. \A u \in Consoles : conn'[u] \in {"open", "leaving"} => files'[fd'[u]] = u
    BY <1>14, <2>1
  <2>3. \A m \in Consoles : files[m] # 0 => files[m] \in Consoles \ {t} /\ m # n
    <3>1. \A m \in Consoles : files[m] \in Consoles \cup {0}
      BY <1>0 DEF TerminalTypes
    <3>2. \A m \in Consoles : files[m] # 0 => conn[files[m]] \in {"open", "leaving"}
      BY <1>0 DEF NumbersOK
    <3> QED
      BY <1>2, <1>4, <3>1, <3>2
  <2>4. \A m \in Consoles : files'[m] # 0 => conn'[files'[m]] \in {"open", "leaving"} /\ fd'[files'[m]] = m
    BY <1>0, <1>14, <2>3 DEF NumbersOK
  <2> QED
    BY <2>2, <2>4 DEF NumbersOK
<1>17. OnlyOf(t)
  BY <1>6, <1>10, <1>13 DEF OnlyOf
<1>18. Of(pool'.running, t) = {} /\ Of(Queue(pool'), t) = {j}
  BY <1>6, <1>9, <1>10, <1>11, <1>13 DEF Of
<1>19. LifeOf(t)'
  <2>1. Life("spawning", shell[t], fd[t], r, w, chunk[t], shown[t])
    BY <1>0, <1>2 DEF LifeOf
  <2>2. Life("open", "alive", n, {}, {j}, chunk[t], shown[t])
    BY <1>4, <1>6, <2>1 DEF Life, Has
  <2> QED
    BY <1>5, <1>14, <1>18, <2>2 DEF LifeOf
<1>20. KeysOf(t)'
  <2>1. Keys(t, "spawning", r, w, typed[t], accepted[t], received[t], late)
    BY <1>0, <1>2 DEF KeysOf
  <2>2. Len(<<>>) = 0
    OBVIOUS
  <2>3. Keys(t, "open", {}, {j}, typed[t], accepted[t], received[t], late)
    BY <1>6, <2>1, <2>2 DEF Keys, Has
  <2> QED
    BY <1>5, <1>14, <1>18, <2>3 DEF KeysOf
<1> QED
  BY <1>5, <1>14, <1>15, <1>16, <1>17, <1>19, <1>20, OthersRest

\* The shell prints or exits, or the client types: no job comes or goes.
LEMMA TrafficKeeps ==
    ASSUME TerminalInv, NEW t \in Consoles, ShellPrints(t) \/ ShellExits(t) \/ ClientTypes(t)
    PROVE  TerminalInv' /\ OnlyOf(t)
<1>0. TerminalTypes /\ NumbersOK /\ LifeOf(t) /\ KeysOf(t)
  BY DEF TerminalInv
<1>1. /\ UNCHANGED <<pool, conn, fd, files, chunk, shown, accepted, received, late>>
      /\ \/ printed' = [printed EXCEPT ![t] = @ + 1] /\ UNCHANGED <<shell, typed>>
         \/ shell[t] = "alive" /\ shell' = [shell EXCEPT ![t] = "dead"] /\ UNCHANGED <<printed, typed>>
         \/ conn[t] = "open" /\ typed' = [typed EXCEPT ![t] = @ + 1] /\ UNCHANGED <<shell, printed>>
  BY DEF ShellPrints, ShellExits, ClientTypes, ReaderVars, WriterVars
<1>2. /\ printed \in [Consoles -> Nat] /\ typed \in [Consoles -> Nat] /\ shell \in [Consoles -> {"none", "alive", "dead"}]
      /\ accepted[t] \in Nat /\ received[t] \in Seq(Consoles \X Nat)
  BY <1>0 DEF TerminalTypes
<1>3. /\ printed' \in [Consoles -> Nat] /\ typed' \in [Consoles -> Nat] /\ shell' \in [Consoles -> {"none", "alive", "dead"}]
      /\ \A u \in Consoles \ {t} : typed'[u] = typed[u] /\ shell'[u] = shell[u]
      /\ shell'[t] = shell[t] \/ (shell[t] # "none" /\ shell'[t] = "dead")
      /\ typed'[t] = typed[t] \/ (conn[t] = "open" /\ typed'[t] = typed[t] + 1)
  <2>1. CASE printed' = [printed EXCEPT ![t] = @ + 1] /\ UNCHANGED <<shell, typed>>
    BY <1>2, <2>1
  <2>2. CASE shell[t] = "alive" /\ shell' = [shell EXCEPT ![t] = "dead"] /\ UNCHANGED <<printed, typed>>
    BY <1>2, <2>2
  <2>3. CASE conn[t] = "open" /\ typed' = [typed EXCEPT ![t] = @ + 1] /\ UNCHANGED <<shell, printed>>
    BY <1>2, <2>3
  <2> QED
    BY <1>1, <2>1, <2>2, <2>3
<1>4. TerminalTypes'
  BY <1>0, <1>1, <1>3 DEF TerminalTypes
<1>5. NumbersOK' /\ OnlyOf(t)
  BY <1>0, <1>1 DEF NumbersOK, OnlyOf
<1>6. LifeOf(t)'
  <2> DEFINE r == Of(pool.running, t)
             w == Of(Queue(pool), t)
  <2> HIDE DEF r, w
  <2>1. Life(conn[t], shell[t], fd[t], r, w, chunk[t], shown[t])
    BY <1>0 DEF LifeOf, r, w
  <2>2. Life(conn[t], shell'[t], fd[t], r, w, chunk[t], shown[t])
    BY <1>3, <2>1 DEF Life
  <2> QED
    BY <1>1, <2>2 DEF LifeOf, r, w
<1>7. KeysOf(t)'
  <2> DEFINE r == Of(pool.running, t)
             w == Of(Queue(pool), t)
             ty == typed[t]
             tz == typed'[t]
             ac == accepted[t]
  <2> HIDE DEF r, w
  <2>1. Keys(t, conn[t], r, w, ty, ac, received[t], late) /\ ty \in Nat /\ ac \in Nat
    BY <1>0, <1>2 DEF KeysOf, r, w
  <2>2. tz = ty \/ (conn[t] = "open" /\ tz = ty + 1)
    BY <1>3
  <2> HIDE DEF ty, tz, ac
  <2>3. Keys(t, conn[t], r, w, tz, ac, received[t], late)
    BY <2>1, <2>2 DEF Keys
  <2> QED
    BY <1>1, <2>3 DEF KeysOf, r, w, tz, ac
<1> QED
  BY <1>0, <1>1, <1>3, <1>4, <1>5, <1>6, <1>7, OthersRest

\* What was sent and what follows on it count on.
LEMMA CountsOn ==
    ASSUME NEW s \in Seq(Nat), s = [i \in 1 .. Len(s) |-> i], NEW k \in Int, NEW n \in 1 .. k
    PROVE  LET piece == SubSeq([i \in 1 .. k |-> Len(s) + i], 1, n) IN
           /\ piece \in Seq(Nat)
           /\ s \o piece = [i \in 1 .. Len(s \o piece) |-> i]
<1> DEFINE f == [i \in 1 .. k |-> Len(s) + i]
           piece == SubSeq(f, 1, n)
           L == Len(s)
<1>1. L \in Nat /\ k \in Nat /\ n \in Nat /\ 1 <= n /\ n <= k
  OBVIOUS
<1>2. f \in Seq(Nat) /\ Len(f) = k /\ \A i \in 1 .. k : f[i] = L + i
  BY <1>1
<1> HIDE DEF f
<1>3. piece \in Seq(Nat) /\ Len(piece) = n /\ \A i \in 1 .. n : piece[i] = L + i
  <2>1. SubSeq(f, 1, n) \in Seq(Nat) /\ Len(SubSeq(f, 1, n)) = n
    BY <1>1, <1>2
  <2>2. \A i \in 1 .. n : SubSeq(f, 1, n)[i] = f[i]
    BY <1>1, <1>2
  <2> QED
    BY <1>1, <1>2, <2>1, <2>2
<1> HIDE DEF piece
<1> DEFINE c == s \o piece
<1>4. /\ c \in Seq(Nat) /\ Len(c) = L + n
      /\ \A i \in 1 .. L + n : c[i] = IF i <= L THEN s[i] ELSE piece[i - L]
  <2>1. /\ c \in Seq(Nat) /\ Len(c) = Len(s) + Len(piece)
        /\ \A i \in 1 .. Len(s) + Len(piece) : c[i] = IF i <= Len(s) THEN s[i] ELSE piece[i - Len(s)]
    <3>1. s \in Seq(Nat) /\ piece \in Seq(Nat)
      BY <1>3
    <3> QED
      <4>1. s \o piece \in Seq(Nat)
        BY <3>1
      <4>2. Len(s \o piece) = Len(s) + Len(piece)
        BY <3>1
      <4>3. \A i \in 1 .. Len(s) + Len(piece) :
              (s \o piece)[i] = IF i <= Len(s) THEN s[i] ELSE piece[i - Len(s)]
        BY <3>1
      <4> QED
        BY <4>1, <4>2, <4>3
  <2> HIDE DEF c
  <2> QED
    BY <1>3, <2>1
<1> HIDE DEF c
<1>5. \A i \in 1 .. L + n : c[i] = i
  <2> TAKE i \in 1 .. L + n
  <2>1. CASE i <= L
    <3>1. i \in 1 .. L
      BY <1>1, <2>1
    <3>2. s[i] = i /\ c[i] = s[i]
      BY <1>4, <2>1, <3>1
    <3> QED
      BY <3>2
  <2>2. CASE i > L
    <3>1. c[i] = piece[i - L] /\ i - L \in 1 .. n
      BY <1>1, <1>4, <2>2
    <3>2. L + (i - L) = i
      BY <1>1
    <3> QED
      BY <1>3, <3>1, <3>2
  <2> QED
    BY <1>1, <2>1, <2>2
<1>6. c = [i \in 1 .. Len(c) |-> i]
  BY <1>4, <1>5
<1> QED
  BY <1>3, <1>6 DEF c, piece, f

\* A read returns.
LEMMA ReadKeeps ==
    ASSUME TerminalInv, NEW t \in Consoles, ReadReturns(t)
    PROVE  TerminalInv' /\ OnlyOf(t)
<1>0. TerminalTypes /\ NumbersOK /\ LifeOf(t) /\ KeysOf(t) /\ PoolOK(pool)
  BY DEF TerminalInv, TerminalTypes
<1> DEFINE r == Of(pool.running, t)
           w == Of(Queue(pool), t)
           rr == {j \in r : j.kind # "read"}
<1>1. /\ Has(r, "read") /\ pool' = Ended(pool, "read", t)
      /\ \E n \in 1 .. Len(Unread(t)) :
           chunk' = IF conn[t] = "open" THEN [chunk EXCEPT ![t] = SubSeq(Unread(t), 1, n)] ELSE chunk
      /\ shell' = IF conn[t] = "closed" THEN [shell EXCEPT ![t] = "dead"] ELSE shell
      /\ UNCHANGED <<conn, fd, files, printed, shown, typed, accepted, received, late>>
  <2>1. /\ Runs("read", t) /\ pool' = Ended(pool, "read", t)
        /\ \E n \in 1 .. Len(Unread(t)) :
             chunk' = IF conn[t] = "open" THEN [chunk EXCEPT ![t] = SubSeq(Unread(t), 1, n)] ELSE chunk
        /\ shell' = IF conn[t] = "closed" THEN [shell EXCEPT ![t] = "dead"] ELSE shell
        /\ UNCHANGED <<conn, fd, files, printed, shown, typed, accepted, received, late>>
    BY DEF ReadReturns, WriterVars
  <2>2. Has(r, "read")
    BY <2>1, RunsIs
  <2> QED
    BY <2>1, <2>2
<1>2. chunk[t] = <<>> /\ conn[t] \notin {"none", "spawning"} /\ shell[t] # "none"
  <2>1. Life(conn[t], shell[t], fd[t], r, w, chunk[t], shown[t])
    BY <1>0 DEF LifeOf
  <2>2. conn[t] \in {"none", "spawning", "open", "leaving", "closed"}
    BY <1>0 DEF TerminalTypes
  <2>3. Has(r, "read")
    BY <1>1
  <2> HIDE DEF r, w
  <2>4. conn[t] \notin {"none", "spawning"} /\ chunk[t] = <<>>
    BY <2>1, <2>3 DEF Life, Has
  <2> QED
    BY <2>1, <2>2, <2>4 DEF Life
<1>3. Becomes(pool, pool', {k \in pool.running : ~(k.kind = "read" /\ k.of = t)}, Queue(pool))
  BY <1>0, <1>1, EndedIs
<1>4. /\ PoolOK(pool') /\ pool'.running = {k \in pool.running : ~(k.kind = "read" /\ k.of = t)}
      /\ Queue(pool') = Queue(pool)
  BY <1>3 DEF Becomes
<1>5. Of(pool'.running, t) = rr /\ Of(Queue(pool'), t) = w /\ OnlyOf(t)
  BY <1>4 DEF Of, OnlyOf
<1>6. ~Has(rr \cup w, "read")
  <2>1. Single(pool.running \cup Queue(pool)) /\ pool.running \cap Queue(pool) = {}
    BY <1>0 DEF PoolOK
  <2>2. PICK j \in r : j.kind = "read"
    BY <1>1 DEF Has
  <2>3. \A k \in w : k.kind # "read"
    BY <2>1, <2>2 DEF Single, Of
  <2> QED
    BY <2>3 DEF Has
<1>7. /\ chunk'[t] \in Seq(Nat)
      /\ shown[t] \o chunk'[t] = [i \in 1 .. Len(shown[t] \o chunk'[t]) |-> i]
      /\ \A u \in Consoles \ {t} : chunk'[u] = chunk[u]
      /\ chunk' \in [Consoles -> Seq(Nat)]
  <2> DEFINE s == shown[t]
             e == chunk[t]
             k == printed[t] - Len(s) - Len(e)
             f == [i \in 1 .. k |-> Len(s) + i]
  <2>0. chunk \in [Consoles -> Seq(Nat)] /\ e \in Seq(Nat) /\ s \in Seq(Nat) /\ printed[t] \in Nat
    BY <1>0 DEF TerminalTypes
  <2>1. s \o e = [i \in 1 .. Len(s \o e) |-> i]
    BY <1>0 DEF LifeOf, Life
  <2>2. CASE conn[t] # "open"
    BY <1>1, <2>0, <2>1, <2>2
  <2>3. CASE conn[t] = "open"
    <3>1. e = <<>> /\ Len(e) = 0 /\ Len(s) + Len(e) = Len(s) /\ s \o e = s
      BY <1>2, <2>0
    <3>2. k \in Int /\ s = [i \in 1 .. Len(s) |-> i]
      BY <2>0, <2>1, <3>1
    <3>3. Unread(t) = f
      <4>1. \A i : Len(s) + Len(e) + i = Len(s) + i
        BY <3>1
      <4>2. Unread(t) = [i \in 1 .. k |-> Len(s) + Len(e) + i]
        BY DEF Unread
      <4> HIDE DEF k
      <4> QED
        BY <4>1, <4>2
    <3>4. \A n \in 1 .. Len(f) : n \in 1 .. k
      <4> HIDE DEF k
      <4>1. k \in Nat => Len(f) = k
        BY <2>0
      <4>2. k \notin Nat => Len(f) = 0
        <5> SUFFICES ASSUME k \notin Nat PROVE Len(f) = 0
          OBVIOUS
        <5>1. 1 .. k = 1 .. 0 /\ \A i \in 1 .. 0 : FALSE
          BY <3>2
        <5>2. f = [i \in 1 .. 0 |-> Len(s) + i]
          BY <5>1
        <5>3. f \in [1 .. 0 -> Nat]
          BY <5>1, <5>2
        <5> HIDE DEF f
        <5> QED
          BY <5>3
      <4> HIDE DEF f
      <4> QED
        BY <3>2, <4>1, <4>2
    <3>5. PICK n \in 1 .. k : chunk' = [chunk EXCEPT ![t] = SubSeq(f, 1, n)]
      <4> HIDE DEF f, k
      <4> QED
        BY <1>1, <2>3, <3>3, <3>4
    <3> DEFINE piece == SubSeq(f, 1, n)
    <3>6. piece \in Seq(Nat) /\ s \o piece = [i \in 1 .. Len(s \o piece) |-> i]
      <4> HIDE DEF k, s
      <4> QED
        BY <2>0, <3>2, CountsOn
    <3>7. chunk' = [chunk EXCEPT ![t] = piece]
      BY <3>5
    <3> HIDE DEF piece
    <3>8. chunk'[t] = piece /\ chunk' \in [Consoles -> Seq(Nat)] /\ \A u \in Consoles \ {t} : chunk'[u] = chunk[u]
      BY <2>0, <3>6, <3>7
    <3> QED
      BY <3>6, <3>8
  <2> QED
    BY <2>2, <2>3
<1>8. /\ shell' \in [Consoles -> {"none", "alive", "dead"}] /\ \A u \in Consoles \ {t} : shell'[u] = shell[u]
      /\ shell'[t] # "none" /\ (conn[t] = "closed" => shell'[t] = "dead")
  BY <1>0, <1>1, <1>2 DEF TerminalTypes
<1>9. TerminalTypes'
  <2>1. JobsAreOf(pool'.running \cup Queue(pool'))
    BY <1>0, <1>4 DEF TerminalTypes, JobsAreOf
  <2> QED
    BY <1>0, <1>1, <1>4, <1>7, <1>8, <2>1 DEF TerminalTypes
<1>10. NumbersOK'
  BY <1>0, <1>1 DEF NumbersOK
<1>11. LifeOf(t)'
  <2> DEFINE e == chunk'[t]
  <2> HIDE DEF r, w, rr, e
  <2>1. Life(conn[t], shell[t], fd[t], r, w, chunk[t], shown[t])
    BY <1>0 DEF LifeOf, r, w
  <2>2. rr \subseteq r
    BY DEF rr
  <2>3. shown[t] \o e = [i \in 1 .. Len(shown[t] \o e) |-> i]
    BY <1>7 DEF e
  <2>4. Life(conn[t], shell'[t], fd[t], rr, w, e, shown[t])
    BY <1>2, <1>6, <1>8, <2>1, <2>2, <2>3 DEF Life, Has
  <2> QED
    BY <1>1, <1>5, <2>4 DEF LifeOf, e
<1>12. KeysOf(t)'
  <2> HIDE DEF r, w, rr
  <2>1. Keys(t, conn[t], r, w, typed[t], accepted[t], received[t], late)
    BY <1>0 DEF KeysOf, r, w
  <2>2. rr \subseteq r /\ \A j \in r : j.kind = "write" => j \in rr
    BY DEF rr
  <2>3. Keys(t, conn[t], rr, w, typed[t], accepted[t], received[t], late)
    BY <2>1, <2>2 DEF Keys, Has
  <2> QED
    BY <1>1, <1>5, <2>3 DEF KeysOf
<1> QED
  BY <1>1, <1>5, <1>7, <1>8, <1>9, <1>10, <1>11, <1>12, OthersRest

\* A job that terminal t asks for.
LEMMA AskedFor ==
    ASSUME TerminalInv, NEW t \in Consoles, NEW kind \in {"read", "write"}, NEW arg \in Nat,
           ~Has(Of(pool.running, t), kind), ~Has(Of(Queue(pool), t), kind),
           NEW j, j = Job(kind, t, arg), pool' = Pooled(pool, j)
    PROVE  /\ PoolOK(pool') /\ JobsAreOf(pool'.running \cup Queue(pool')) /\ OnlyOf(t)
           /\ Of(pool'.running, t) = Of(pool.running, t)
           /\ Of(Queue(pool'), t) = Of(Queue(pool), t) \cup {j}
           /\ j.kind = kind /\ j.arg = arg
<1>1. j \in Jobs /\ j.kind = kind /\ j.of = t /\ j.arg = arg /\ j.kind # "repl"
  BY TerminalConstants DEF Job, Jobs
<1>2. PoolOK(pool) /\ JobsAreOf(pool.running \cup Queue(pool))
  BY DEF TerminalInv, TerminalTypes
<1>3. \A k \in pool.running \cup Queue(pool) : ~(k.kind = j.kind /\ k.of = j.of)
  BY <1>1 DEF Has, Of
<1>4. Becomes(pool, pool', pool.running, Queue(pool) \cup {j})
  BY <1>1, <1>2, <1>3, PooledIs
<1>5. PoolOK(pool') /\ pool'.running = pool.running /\ Queue(pool') = Queue(pool) \cup {j}
  BY <1>4 DEF Becomes
<1>6. JobsAreOf(pool'.running \cup Queue(pool'))
  BY <1>1, <1>2, <1>5 DEF JobsAreOf
<1>7. OnlyOf(t)
  BY <1>1, <1>5 DEF OnlyOf
<1>8. Of(pool'.running, t) = Of(pool.running, t) /\ Of(Queue(pool'), t) = Of(Queue(pool), t) \cup {j}
  BY <1>1, <1>5 DEF Of
<1> QED
  BY <1>1, <1>5, <1>6, <1>7, <1>8

\* A piece is sent, and the next read asked for.
LEMMA PieceKeeps ==
    ASSUME TerminalInv, NEW t \in Consoles, PieceSent(t)
    PROVE  TerminalInv' /\ OnlyOf(t)
<1>0. TerminalTypes /\ NumbersOK /\ LifeOf(t) /\ KeysOf(t)
  BY DEF TerminalInv
<1> DEFINE r == Of(pool.running, t)
           w == Of(Queue(pool), t)
           j == Job("read", t, 0)
           ww == w \cup {j}
           s == shown[t]
           e == chunk[t]
<1>1. /\ conn[t] = "open" /\ e # <<>> /\ shown' = [shown EXCEPT ![t] = @ \o e] /\ chunk' = [chunk EXCEPT ![t] = <<>>]
      /\ pool' = Pooled(pool, j)
      /\ UNCHANGED <<conn, shell, fd, files, printed, typed, accepted, received, late>>
  BY DEF PieceSent, ShownAfter, NextRead, WriterVars
<1>2. ~Has(r, "read") /\ ~Has(w, "read")
  BY <1>0, <1>1 DEF LifeOf, Life, Has
<1>3. 0 \in Nat
  OBVIOUS
<1>4. /\ PoolOK(pool') /\ JobsAreOf(pool'.running \cup Queue(pool')) /\ OnlyOf(t)
      /\ Of(pool'.running, t) = r /\ Of(Queue(pool'), t) = ww /\ j.kind = "read"
  <2>1. j = Job("read", t, 0) /\ pool' = Pooled(pool, j) /\ "read" \in {"read", "write"}
    BY <1>1
  <2> HIDE DEF j
  <2> QED
    BY <1>2, <1>3, <2>1, AskedFor
<1>5. /\ shown \in [Consoles -> Seq(Nat)] /\ chunk \in [Consoles -> Seq(Nat)]
      /\ s \in Seq(Nat) /\ e \in Seq(Nat) /\ s \o e \in Seq(Nat) /\ (s \o e) \o <<>> = s \o e
  BY <1>0 DEF TerminalTypes
<1> DEFINE c == s \o e
<1>6. /\ shown' \in [Consoles -> Seq(Nat)] /\ chunk' \in [Consoles -> Seq(Nat)]
      /\ shown'[t] = c /\ chunk'[t] = <<>> /\ c \o <<>> = c
      /\ \A u \in Consoles \ {t} : shown'[u] = shown[u] /\ chunk'[u] = chunk[u]
  <2>1. shown' = [shown EXCEPT ![t] = c] /\ c \in Seq(Nat) /\ <<>> \in Seq(Nat) /\ c \o <<>> = c
    BY <1>1, <1>5
  <2> HIDE DEF c
  <2> QED
    BY <1>1, <1>5, <2>1
<1>7. TerminalTypes'
  BY <1>0, <1>1, <1>4, <1>6 DEF TerminalTypes
<1>8. NumbersOK'
  BY <1>0, <1>1 DEF NumbersOK
<1>9. LifeOf(t)'
  <2>0. c = [i \in 1 .. Len(c) |-> i]
    BY <1>0 DEF LifeOf, Life
  <2> HIDE DEF r, w, j, ww, s, e, c
  <2>1. Life("open", shell[t], fd[t], r, w, e, s)
    BY <1>0, <1>1 DEF LifeOf, r, w, e, s
  <2>2. ww = w \cup {j} /\ j.kind = "read"
    BY <1>4 DEF ww
  <2>3. Life("open", shell[t], fd[t], r, ww, <<>>, c)
    BY <1>6, <2>0, <2>1, <2>2 DEF Life, Has
  <2> QED
    BY <1>1, <1>4, <1>6, <2>3 DEF LifeOf
<1>10. KeysOf(t)'
  <2> HIDE DEF r, w, j, ww
  <2>1. Keys(t, "open", r, w, typed[t], accepted[t], received[t], late)
    BY <1>0, <1>1 DEF KeysOf, r, w
  <2>2. ww = w \cup {j} /\ j.kind = "read"
    BY <1>4 DEF ww
  <2>3. Keys(t, "open", r, ww, typed[t], accepted[t], received[t], late)
    BY <2>1, <2>2 DEF Keys, Has
  <2> QED
    BY <1>1, <1>4, <2>3 DEF KeysOf
<1> HIDE DEF r, w, j, ww, s, e, c
<1> QED
  BY <1>1, <1>4, <1>6, <1>7, <1>8, <1>9, <1>10, OthersRest

\* The pump takes a key once the last is written.
LEMMA KeyTakenKeeps ==
    ASSUME TerminalInv, NEW t \in Consoles, PumpTakesKey(t)
    PROVE  TerminalInv' /\ OnlyOf(t)
<1>0. TerminalTypes /\ NumbersOK /\ LifeOf(t) /\ KeysOf(t)
  BY DEF TerminalInv
<1> DEFINE r == Of(pool.running, t)
           w == Of(Queue(pool), t)
           ac == accepted[t]
           next == ac + 1
           j == Job("write", t, next)
           ww == w \cup {j}
<1>1. /\ conn[t] = "open" /\ ac < typed[t] /\ accepted' = [accepted EXCEPT ![t] = ac + 1]
      /\ pool' = Pooled(pool, j)
      /\ UNCHANGED <<conn, shell, fd, files, printed, chunk, shown, typed, received, late>>
  BY DEF PumpTakesKey, ReaderVars
<1>2. ~Has(r, "write") /\ ~Has(w, "write")
  BY RunsIs DEF PumpTakesKey, PumpIsFree
<1>3. accepted \in [Consoles -> Nat] /\ ac \in Nat /\ ac + 1 \in Nat /\ typed[t] \in Nat /\ received[t] \in Seq(Consoles \X Nat)
  BY <1>0 DEF TerminalTypes
<1>4. /\ PoolOK(pool') /\ JobsAreOf(pool'.running \cup Queue(pool')) /\ OnlyOf(t)
      /\ Of(pool'.running, t) = r /\ Of(Queue(pool'), t) = ww /\ j.kind = "write" /\ j.arg = ac + 1
  <2>1. j = Job("write", t, next) /\ pool' = Pooled(pool, j) /\ "write" \in {"read", "write"} /\ next \in Nat
    BY <1>1, <1>3
  <2>2. next = ac + 1
    OBVIOUS
  <2> HIDE DEF j, next, ac
  <2>3. /\ PoolOK(pool') /\ JobsAreOf(pool'.running \cup Queue(pool')) /\ OnlyOf(t)
        /\ Of(pool'.running, t) = r /\ Of(Queue(pool'), t) = ww /\ j.kind = "write" /\ j.arg = next
    BY <1>2, <2>1, AskedFor
  <2> QED
    BY <2>2, <2>3
<1>5. /\ accepted' \in [Consoles -> Nat] /\ accepted'[t] = ac + 1
      /\ \A u \in Consoles \ {t} : accepted'[u] = accepted[u]
  <2> HIDE DEF ac
  <2> QED
    BY <1>1, <1>3
<1>6. TerminalTypes'
  BY <1>0, <1>1, <1>4, <1>5 DEF TerminalTypes
<1>7. NumbersOK'
  BY <1>0, <1>1 DEF NumbersOK
<1>8. LifeOf(t)'
  <2> HIDE DEF r, w, j, ww
  <2>1. Life("open", shell[t], fd[t], r, w, chunk[t], shown[t])
    BY <1>0, <1>1 DEF LifeOf, r, w
  <2>2. ww = w \cup {j} /\ j.kind = "write"
    BY <1>4 DEF ww
  <2>3. Life("open", shell[t], fd[t], r, ww, chunk[t], shown[t])
    BY <2>1, <2>2 DEF Life, Has
  <2> QED
    BY <1>1, <1>4, <2>3 DEF LifeOf
<1>9. KeysOf(t)'
  <2> DEFINE rc == received[t]
             ty == typed[t]
             n == Len(rc)
  <2>0. n \in Nat
    BY <1>3
  <2> HIDE DEF r, w, j, ww, ac, ty
  <2>1. Keys(t, "open", r, w, ty, ac, rc, late)
    BY <1>0, <1>1 DEF KeysOf, r, w, ac, ty
  <2>2. ww = w \cup {j} /\ j.kind = "write" /\ j.arg = ac + 1 /\ ac < ty /\ ty \in Nat
    BY <1>1, <1>3, <1>4 DEF ww, ty
  <2>3. late = {} => n = ac /\ rc = [i \in 1 .. n |-> <<t, i>>]
    BY <1>2, <2>1 DEF Keys, Has
  <2>4. \A k \in r \cup ww : k.kind = "write" => k = j
    BY <1>2, <2>2 DEF Has
  <2>5. Has(r \cup ww, "write")
    BY <2>2 DEF Has
  <2>6. Keys(t, "open", r, ww, ty, ac + 1, rc, late)
    <3>1. late = {} => n <= ac + 1 /\ ac + 1 <= ty /\ ac + 1 = n + 1
      BY <1>3, <2>0, <2>2, <2>3
    <3> QED
      BY <2>2, <2>3, <2>4, <2>5, <3>1 DEF Keys
  <2> QED
    BY <1>1, <1>4, <1>5, <2>6 DEF KeysOf, ty
<1> HIDE DEF r, w, j, ww, ac
<1> QED
  BY <1>1, <1>4, <1>5, <1>6, <1>7, <1>8, <1>9, OthersRest

\* A terminal that is left: its pumps' jobs do not wait any more, and one that closes it does.
LEMMA LifeLeft ==
    ASSUME NEW s, NEW f, NEW r, NEW w, NEW piece, NEW passed, Life("open", s, f, r, w, piece, passed),
           NEW rr \in SUBSET r, NEW c, c.kind = "close",
           NEW ww, ww = {j \in w : j.kind \notin {"read", "write"}} \cup {c}
    PROVE  Life("leaving", s, f, rr, ww, piece, passed)
<1>1. /\ s # "none" /\ f \in Consoles /\ ~Has(r \cup w, "spawn") /\ (Has(r \cup w, "read") => piece = <<>>)
      /\ passed \o piece = [i \in 1 .. Len(passed \o piece) |-> i]
  BY DEF Life
<1>2. ~Has(rr \cup ww, "spawn") /\ ~Has(ww, "read") /\ ~Has(ww, "write") /\ (Has(rr \cup ww, "read") => piece = <<>>)
  BY <1>1 DEF Has
<1> QED
  BY <1>1, <1>2 DEF Life

\* Its keys go on as they were.
LEMMA KeysLeft ==
    ASSUME NEW u, NEW r, NEW w, NEW ty, NEW ac, NEW rc, NEW l, Keys(u, "open", r, w, ty, ac, rc, l),
           NEW rr \in SUBSET r, NEW c, c.kind = "close",
           NEW ww, ww = {j \in w : j.kind \notin {"read", "write"}} \cup {c}
    PROVE  Keys(u, "leaving", rr, ww, ty, ac, rc, l)
BY DEF Keys

\* The handler ends, with some of the terminal's jobs ended as well.
LEMMA LeaveKeeps ==
    ASSUME TerminalInv, NEW t \in Consoles, conn[t] = "open",
           conn' = [conn EXCEPT ![t] = "leaving"],
           UNCHANGED <<shell, fd, files, printed, chunk, shown, typed, accepted, received, late>>,
           NEW p, PoolOK(p), p.running \subseteq pool.running, Queue(p) = Queue(pool),
           \A j \in pool.running \ p.running : j.kind # "repl" /\ j.of = t,
           pool' = LeavingJobs(p, t)
    PROVE  TerminalInv' /\ OnlyOf(t)
<1>0. TerminalTypes /\ NumbersOK /\ LifeOf(t) /\ KeysOf(t)
  BY DEF TerminalInv
<1> DEFINE r == Of(pool.running, t)
           w == Of(Queue(pool), t)
           rr == Of(p.running, t)
           c == Job("close", t, 0)
           ww == {j \in w : j.kind \notin {"read", "write"}} \cup {c}
<1>1. t \in Nat /\ c.kind = "close" /\ c.of = t
  BY TerminalConstants DEF Job
<1>2. ~Has(r \cup w, "close")
  BY <1>0 DEF LifeOf, Life
<1>3. Becomes(p, pool', p.running, {j \in Queue(p) : ~Withdrawn(j, t)} \cup {c})
  <2>1. \A k \in p.running \cup Queue(p) : ~(k.kind = "close" /\ k.of = t)
    BY <1>2 DEF Has, Of
  <2> QED
    BY <1>1, <2>1, LeavingIs
<1>4. PoolOK(pool') /\ pool'.running = p.running /\ Queue(pool') = {j \in Queue(pool) : ~Withdrawn(j, t)} \cup {c}
  BY <1>3 DEF Becomes
<1> HIDE DEF c
<1>5. Of(pool'.running, t) = rr /\ Of(Queue(pool'), t) = ww /\ rr \in SUBSET r
  BY <1>1, <1>4 DEF Of, Withdrawn
<1>6. OnlyOf(t)
  BY <1>1, <1>4 DEF OnlyOf, Withdrawn
<1>7. conn' \in [Consoles -> {"none", "spawning", "open", "leaving", "closed"}] /\ conn'[t] = "leaving"
      /\ \A u \in Consoles \ {t} : conn'[u] = conn[u]
  BY <1>0 DEF TerminalTypes
<1>8. TerminalTypes'
  <2>1. JobsAreOf(pool'.running \cup Queue(pool'))
    BY <1>0, <1>1, <1>4 DEF TerminalTypes, JobsAreOf
  <2> QED
    BY <1>0, <1>4, <1>7, <2>1 DEF TerminalTypes
<1>9. NumbersOK'
  BY <1>0, <1>7, NumbersStay DEF TerminalTypes
<1>10. LifeOf(t)'
  <2>1. Life("open", shell[t], fd[t], r, w, chunk[t], shown[t])
    BY <1>0 DEF LifeOf
  <2>2. ww = {j \in w : j.kind \notin {"read", "write"}} \cup {c}
    OBVIOUS
  <2> HIDE DEF r, w, rr, ww
  <2>3. Life("leaving", shell[t], fd[t], rr, ww, chunk[t], shown[t])
    BY <1>1, <1>5, <2>1, <2>2, LifeLeft
  <2> QED
    BY <1>5, <1>7, <2>3 DEF LifeOf
<1>11. KeysOf(t)'
  <2>1. Keys(t, "open", r, w, typed[t], accepted[t], received[t], late)
    BY <1>0 DEF KeysOf
  <2>2. ww = {j \in w : j.kind \notin {"read", "write"}} \cup {c}
    OBVIOUS
  <2> HIDE DEF r, w, rr, ww
  <2>3. Keys(t, "leaving", rr, ww, typed[t], accepted[t], received[t], late)
    BY <1>1, <1>5, <2>1, <2>2, KeysLeft
  <2> QED
    BY <1>5, <1>7, <2>3 DEF KeysOf
<1> QED
  BY <1>6, <1>7, <1>8, <1>9, <1>10, <1>11, OthersRest

\* The client goes.
LEMMA GoneKeeps ==
    ASSUME TerminalInv, NEW t \in Consoles, ClientLeaves(t)
    PROVE  TerminalInv' /\ OnlyOf(t)
<1>1. /\ conn[t] = "open" /\ conn' = [conn EXCEPT ![t] = "leaving"] /\ pool' = LeavingJobs(pool, t)
      /\ UNCHANGED <<shell, fd, files, printed, chunk, shown, typed, accepted, received, late>>
  BY DEF ClientLeaves, ReaderVars, WriterVars
<1>2. PoolOK(pool)
  BY DEF TerminalInv, TerminalTypes
<1>3. pool.running \subseteq pool.running /\ \A j \in pool.running \ pool.running : j.kind # "repl" /\ j.of = t
  OBVIOUS
<1> QED
  BY <1>1, <1>2, <1>3, LeaveKeeps

\* A read that finds the shell gone.
LEMMA ReadEndKeeps ==
    ASSUME TerminalInv, NEW t \in Consoles, ReadEnds(t)
    PROVE  TerminalInv' /\ OnlyOf(t)
<1>0. TerminalTypes /\ NumbersOK /\ LifeOf(t) /\ KeysOf(t) /\ PoolOK(pool)
  BY DEF TerminalInv, TerminalTypes
<1> DEFINE p == Ended(pool, "read", t)
<1>1. /\ shell[t] = "dead" /\ conn' = [conn EXCEPT ![t] = IF @ = "open" THEN "leaving" ELSE @]
      /\ pool' = IF conn[t] = "open" THEN LeavingJobs(p, t) ELSE p
      /\ UNCHANGED <<shell, fd, files, printed, chunk, shown, typed, accepted, received, late>>
  BY DEF ReadEnds, ReaderVars, WriterVars
<1>2. Becomes(pool, p, {k \in pool.running : ~(k.kind = "read" /\ k.of = t)}, Queue(pool))
  BY <1>0, EndedIs
<1> HIDE DEF p
<1>3. PoolOK(p) /\ p.running = {k \in pool.running : ~(k.kind = "read" /\ k.of = t)} /\ Queue(p) = Queue(pool)
  BY <1>2 DEF Becomes
<1>4. CASE conn[t] = "open"
  <2>1. p.running \subseteq pool.running /\ \A j \in pool.running \ p.running : j.kind # "repl" /\ j.of = t
    BY <1>3
  <2>2. conn' = [conn EXCEPT ![t] = "leaving"] /\ pool' = LeavingJobs(p, t)
    BY <1>1, <1>4
  <2> QED
    BY <1>1, <1>3, <1>4, <2>1, <2>2, LeaveKeeps
<1>5. CASE conn[t] # "open"
  <2> DEFINE r == Of(pool.running, t)
             w == Of(Queue(pool), t)
             rr == {j \in r : j.kind # "read"}
  <2>1. pool' = p /\ conn' = conn
    BY <1>0, <1>1, <1>5 DEF TerminalTypes
  <2>2. Of(pool'.running, t) = rr /\ Of(Queue(pool'), t) = w /\ OnlyOf(t)
    BY <1>3, <2>1 DEF Of, OnlyOf
  <2>3. TerminalTypes'
    <3>1. JobsAreOf(pool'.running \cup Queue(pool'))
      BY <1>0, <1>3, <2>1 DEF TerminalTypes, JobsAreOf
    <3> QED
      BY <1>0, <1>1, <1>3, <2>1, <3>1 DEF TerminalTypes
  <2>4. NumbersOK'
    BY <1>0, <1>1, <2>1 DEF NumbersOK
  <2>5. rr \subseteq r /\ \A j \in r : j.kind # "read" => j \in rr
    OBVIOUS
  <2>6. LifeOf(t)'
    <3> HIDE DEF r, w, rr
    <3>1. Life(conn[t], "dead", fd[t], r, w, chunk[t], shown[t])
      BY <1>0, <1>1 DEF LifeOf, r, w
    <3>2. Life(conn[t], "dead", fd[t], rr, w, chunk[t], shown[t])
      BY <2>5, <3>1 DEF Life, Has
    <3> QED
      BY <1>1, <2>1, <2>2, <3>2 DEF LifeOf
  <2>7. KeysOf(t)'
    <3> HIDE DEF r, w, rr
    <3>1. Keys(t, conn[t], r, w, typed[t], accepted[t], received[t], late)
      BY <1>0 DEF KeysOf, r, w
    <3>2. Keys(t, conn[t], rr, w, typed[t], accepted[t], received[t], late)
      BY <1>5, <2>5, <3>1 DEF Keys, Has
    <3> QED
      BY <1>1, <2>1, <2>2, <3>2 DEF KeysOf
  <2> QED
    BY <1>1, <2>1, <2>2, <2>3, <2>4, <2>6, <2>7, OthersRest
<1> QED
  BY <1>4, <1>5

\* A key that a thread has written into the shell of its own terminal.
LEMMA KeyRead ==
    ASSUME NEW u, NEW c \in {"open", "leaving"}, NEW r, NEW w, NEW ty \in Nat, NEW ac \in Nat,
           NEW P, NEW rc \in Seq(P), NEW x \in P,
           Keys(u, c, r, w, ty, ac, rc, {}), NEW j \in r, j.kind = "write", x = <<u, j.arg>>,
           \A k \in r \cup w : k.kind = "write" => k = j, j \notin w,
           NEW rr, rr = r \ {j}
    PROVE  Keys(u, c, rr, w, ty, ac, Append(rc, x), {})
<1> DEFINE n == Len(rc)
           v == Append(rc, x)
<1>1. rc = [i \in 1 .. n |-> <<u, i>>] /\ j.arg = ac /\ ac = n + 1 /\ ac <= ty /\ n \in Nat
  <2>1. rc = [i \in 1 .. n |-> <<u, i>>] /\ ac <= ty
    BY DEF Keys
  <2>2. \A k \in r \cup w : k.kind = "write" => k.arg = ac /\ ac = n + 1
    BY DEF Keys
  <2>3. n \in Nat
    OBVIOUS
  <2> HIDE DEF n
  <2> QED
    BY <2>1, <2>2, <2>3
<1>2. Len(v) = n + 1 /\ v[n + 1] = x /\ v \in Seq(P)
  BY AppendProperties
<1>3. \A i \in 1 .. n : v[i] = rc[i]
  BY AppendProperties
<1>4. \A i \in 1 .. n : rc[i] = <<u, i>>
  BY <1>1
<1> HIDE DEF n, v
<1>5. \A i \in 1 .. n + 1 : v[i] = <<u, i>>
  <2>1. \A i \in 1 .. n + 1 : i \in 1 .. n \/ i = n + 1
    BY <1>1
  <2> QED
    BY <1>1, <1>2, <1>3, <1>4, <2>1
<1>6. v = [i \in 1 .. Len(v) |-> <<u, i>>]
  BY <1>2, <1>5
<1>7. Len(v) = ac /\ Len(v) <= ac
  BY <1>1, <1>2
<1>8. \A k \in rr \cup w : k.kind # "write"
  OBVIOUS
<1> QED
  BY <1>1, <1>6, <1>7, <1>8 DEF Keys, v

\* A key is written: into its own terminal unless some terminal was closed while a thread was
\* about to write, and into an open one in any case.
LEMMA KeyWrittenKeeps ==
    ASSUME TerminalInv, NEW t \in Consoles, KeyWritten(t)
    PROVE  TerminalInv' /\ OnlyOf(t)
<1>0. TerminalTypes /\ NumbersOK /\ LifeOf(t) /\ KeysOf(t) /\ PoolOK(pool)
  BY DEF TerminalInv, TerminalTypes
<1> DEFINE to == files[fd[t]]
           gone == to = 0 \/ shell[to] = "dead"
           ends == gone /\ conn[t] = "open"
<1>1. PICK j \in pool.running :
        /\ j.kind = "write" /\ j.of = t
        /\ received' = IF gone THEN received ELSE [received EXCEPT ![to] = Append(@, <<t, j.arg>>)]
        /\ conn' = [conn EXCEPT ![t] = IF ends THEN "leaving" ELSE @]
        /\ pool' = IF ends THEN LeavingJobs([pool EXCEPT !.running = @ \ {j}], t) ELSE [pool EXCEPT !.running = @ \ {j}]
        /\ UNCHANGED <<shell, fd, files, printed, chunk, shown, typed, accepted, late>>
  BY DEF KeyWritten, ReaderVars
<1> DEFINE s == pool.running \ {j}
           p == [pool EXCEPT !.running = s]
<1>2. pool' = IF ends THEN LeavingJobs(p, t) ELSE p
  BY <1>1
<1>3. PoolOK(p) /\ p.running = s /\ Queue(p) = Queue(pool)
  <2>1. s \in SUBSET pool.running
    OBVIOUS
  <2> HIDE DEF s
  <2>2. Becomes(pool, [pool EXCEPT !.running = s], s, Queue(pool))
    BY <1>0, <2>1, FewerRun
  <2> QED
    BY <2>2 DEF Becomes
<1> HIDE DEF p
<1>4. CASE ends
  <2>1. received' = received /\ conn' = [conn EXCEPT ![t] = "leaving"] /\ pool' = LeavingJobs(p, t) /\ conn[t] = "open"
    BY <1>1, <1>2, <1>4
  <2>2. p.running \subseteq pool.running /\ \A k \in pool.running \ p.running : k.kind # "repl" /\ k.of = t
    BY <1>1, <1>3
  <2> HIDE DEF to
  <2> QED
    BY <1>1, <1>3, <2>1, <2>2, LeaveKeeps
<1>5. CASE ~ends
  <2> DEFINE r == Of(pool.running, t)
             w == Of(Queue(pool), t)
             rr == r \ {j}
  <2>1. pool' = p /\ conn' = conn
    BY <1>0, <1>1, <1>2, <1>5 DEF TerminalTypes
  <2>2. /\ Of(pool'.running, t) = rr /\ Of(Queue(pool'), t) = w /\ j \in r
        /\ \A u \in Consoles \ {t} : Of(pool'.running, u) = Of(pool.running, u) /\ Of(Queue(pool'), u) = Of(Queue(pool), u)
    BY <1>1, <1>3, <2>1 DEF Of
  <2>3. conn[t] \in {"open", "leaving", "closed"} /\ fd[t] \in Consoles
    BY <1>0, <1>1, <2>2 DEF LifeOf, Life, TerminalTypes
  <2>4. (\A k \in r \cup w : k.kind = "write" => k = j) /\ j \notin w
    <3>1. Single(pool.running \cup Queue(pool)) /\ pool.running \cap Queue(pool) = {}
      BY <1>0 DEF PoolOK
    <3> QED
      BY <1>1, <3>1 DEF Single, Of
  <2>5. to = 0 \/ (to \in Consoles /\ conn[to] \in {"open", "leaving"})
    BY <1>0, <2>3 DEF TerminalTypes, NumbersOK
  <2>6. late = {} => conn[t] \in {"open", "leaving"} /\ to = t
    <3>1. conn[t] = "closed" => t \in late
      BY <1>0, <1>1, <2>2 DEF KeysOf, Keys, Has
    <3> QED
      BY <1>0, <2>3, <3>1 DEF NumbersOK
  <2> DEFINE P == Consoles \X Nat
             x == <<t, j.arg>>
  <2>7. x \in P /\ received \in [Consoles -> Seq(P)]
    <3>1. j \in Jobs
      BY <1>0, PoolIs
    <3> QED
      BY <1>0, <3>1 DEF TerminalTypes, Jobs
  <2> HIDE DEF P, x, to
  <2>8. \/ gone /\ received' = received
        \/ ~gone /\ to \in Consoles /\ received' = [received EXCEPT ![to] = Append(received[to], x)]
    BY <1>1, <2>5 DEF x
  <2>9. received' \in [Consoles -> Seq(P)] /\ \A u \in Consoles : received'[u] # received[u] => u = to
        /\ received'[u] = Append(received[u], x)
    <3>1. CASE received' = received
      BY <2>7, <3>1
    <3>2. CASE to \in Consoles /\ received' = [received EXCEPT ![to] = Append(received[to], x)]
      <4> DEFINE v == Append(received[to], x)
      <4>1. v \in Seq(P)
        BY <2>7, <3>2
      <4>2. received' = [received EXCEPT ![to] = v]
        BY <3>2
      <4>3. \A u \in Consoles : u = to => v = Append(received[u], x)
        OBVIOUS
      <4> HIDE DEF v
      <4> QED
        BY <2>7, <3>2, <4>1, <4>2, <4>3
    <3> QED
      BY <2>8, <3>1, <3>2
  <2>10. TerminalTypes'
    <3>1. JobsAreOf(pool'.running \cup Queue(pool'))
      BY <1>0, <1>3, <2>1 DEF TerminalTypes, JobsAreOf
    <3> QED
      BY <1>0, <1>1, <1>3, <2>1, <2>9, <3>1 DEF TerminalTypes, P
  <2>11. NumbersOK'
    BY <1>0, <1>1, <2>1 DEF NumbersOK
  <2>12. ASSUME NEW u \in Consoles
         PROVE  LifeOf(u)' /\ KeysOf(u)'
    <3>1. LifeOf(u) /\ KeysOf(u)
      BY DEF TerminalInv
    <3> DEFINE ru == Of(pool.running, u)
               wu == Of(Queue(pool), u)
               rv == Of(pool'.running, u)
    <3>2. /\ Of(Queue(pool'), u) = wu /\ rv \subseteq ru
          /\ \A k \in ru : k.kind # "write" => k \in rv
      <4>1. CASE u = t
        BY <1>1, <2>2, <4>1
      <4>2. CASE u # t
        BY <2>2, <4>2
      <4> QED
        BY <4>1, <4>2
    <3>3. LifeOf(u)'
      <4> HIDE DEF ru, wu, rv
      <4>1. Life(conn[u], shell[u], fd[u], ru, wu, chunk[u], shown[u])
        BY <3>1 DEF LifeOf, ru, wu
      <4>2. Life(conn[u], shell[u], fd[u], rv, wu, chunk[u], shown[u])
        BY <3>2, <4>1 DEF Life, Has
      <4> QED
        BY <1>1, <2>1, <3>2, <4>2 DEF LifeOf, rv
    <3>4. Keys(u, conn[u], rv, wu, typed[u], accepted[u], received'[u], late)
      <4>1. Keys(u, conn[u], ru, wu, typed[u], accepted[u], received[u], late)
        BY <3>1 DEF KeysOf
      <4>2. CASE received'[u] = received[u] /\ (u # t \/ conn[t] # "open")
        <5> HIDE DEF ru, wu, rv
        <5>1. conn[u] # "open" \/ rv = ru
          BY <2>2, <4>2 DEF ru, rv
        <5> QED
          BY <3>2, <4>1, <4>2, <5>1 DEF Keys, Has
      <4>3. CASE late # {}
        <5>1. conn[u] \in {"none", "spawning"} => received'[u] = received[u]
          BY <2>5, <2>8, <2>9
        <5> HIDE DEF ru, wu, rv
        <5> QED
          BY <3>2, <4>1, <4>3, <5>1 DEF Keys, Has
      <4>4. CASE late = {} /\ received'[u] # received[u]
        <5>1. u = t /\ received'[u] = Append(received[u], x) /\ conn[u] \in {"open", "leaving"}
          BY <2>6, <2>9, <4>4
        <5>2. x = <<u, j.arg>> /\ typed[u] \in Nat /\ accepted[u] \in Nat /\ received[u] \in Seq(P)
          BY <1>0, <2>7, <5>1 DEF TerminalTypes, x
        <5>3. rv = ru \ {j} /\ j \in ru /\ j \notin wu /\ (\A k \in ru \cup wu : k.kind = "write" => k = j)
          BY <2>2, <2>4, <5>1
        <5> DEFINE c == conn[u]
                   ty == typed[u]
                   ac == accepted[u]
                   rc == received[u]
        <5>4. Keys(u, c, ru, wu, ty, ac, rc, {}) /\ c \in {"open", "leaving"} /\ ty \in Nat /\ ac \in Nat /\ rc \in Seq(P)
          BY <4>1, <4>4, <5>1, <5>2
        <5> HIDE DEF ru, wu, rv, c, ty, ac, rc
        <5>5. Keys(u, c, rv, wu, ty, ac, Append(rc, x), {})
          BY <1>1, <2>7, <5>2, <5>3, <5>4, KeyRead
        <5> QED
          BY <4>4, <5>1, <5>5 DEF c, ty, ac, rc
      <4>5. CASE late = {} /\ received'[u] = received[u] /\ u = t /\ conn[t] = "open"
        <5>1. ~gone /\ to = t /\ received' = [received EXCEPT ![to] = Append(received[to], x)]
          BY <1>5, <2>6, <2>8, <4>5
        <5>2. received'[t] = Append(received[t], x)
          BY <2>7, <5>1
        <5>3. Len(Append(received[t], x)) # Len(received[t])
          BY <2>7
        <5> QED
          BY <4>5, <5>2, <5>3
      <4> QED
        BY <4>2, <4>3, <4>4, <4>5
    <3> QED
      BY <1>1, <2>1, <3>2, <3>3, <3>4 DEF KeysOf
  <2>13. OnlyOf(t)
    BY <1>1, <1>3, <2>1 DEF OnlyOf
  <2> QED
    BY <2>10, <2>11, <2>12, <2>13 DEF TerminalInv
<1> QED
  BY <1>4, <1>5

\* A terminal whose session is closed.
LEMMA LifeClosed ==
    ASSUME NEW s, NEW f, NEW r, NEW w, NEW piece, NEW passed, Life("leaving", s, f, r, w, piece, passed),
           NEW rr \in SUBSET r, \A j \in r : j.kind # "close" => j \in rr, ~Has(rr \cup w, "close"),
           NEW z \in {s, "dead"}, z = "alive" => Has(r, "read")
    PROVE  Life("closed", z, f, rr, w, piece, passed)
<1>1. z = "alive" => Has(rr, "read")
  BY DEF Has
<1>2. /\ s # "none" /\ f \in Consoles /\ ~Has(rr \cup w, "spawn") /\ ~Has(w, "read") /\ ~Has(w, "write")
      /\ Has(rr \cup w, "read") => piece = <<>>
      /\ passed \o piece = [i \in 1 .. Len(passed \o piece) |-> i]
  BY DEF Life, Has
<1> QED
  BY <1>1, <1>2 DEF Life

\* A write that runs may still go astray.
LEMMA KeysClosed ==
    ASSUME NEW u, NEW r, NEW w, NEW ty, NEW ac, NEW rc, NEW l, Keys(u, "leaving", r, w, ty, ac, rc, l),
           NEW rr \in SUBSET r, NEW m, m = (IF Has(r, "write") THEN l \cup {u} ELSE l)
    PROVE  Keys(u, "closed", rr, w, ty, ac, rc, m)
<1>1. Has(rr, "write") => u \in m
  BY DEF Has
<1>2. m = {} => l = {}
  OBVIOUS
<1> QED
  BY <1>1, <1>2 DEF Keys

\* The session is closed.
LEMMA CloseKeeps ==
    ASSUME TerminalInv, NEW t \in Consoles, SessionClosed(t)
    PROVE  TerminalInv' /\ OnlyOf(t)
<1>0. TerminalTypes /\ NumbersOK /\ LifeOf(t) /\ KeysOf(t) /\ PoolOK(pool)
  BY DEF TerminalInv, TerminalTypes
<1> DEFINE r == Of(pool.running, t)
           w == Of(Queue(pool), t)
           rr == {j \in r : j.kind # "close"}
           n == fd[t]
<1>1. /\ Has(r, "close") /\ files' = [files EXCEPT ![n] = 0]
      /\ \E ignores \in BOOLEAN :
           shell' = [shell EXCEPT ![t] = IF ignores /\ (Has(r, "read") \/ files'[n] = t) THEN @ ELSE "dead"]
      /\ late' = IF Has(r, "write") THEN late \cup {t} ELSE late
      /\ conn' = [conn EXCEPT ![t] = "closed"] /\ pool' = Ended(pool, "close", t)
      /\ UNCHANGED <<fd, printed, chunk, shown, typed, accepted, received>>
  BY RunsIs DEF SessionClosed, ClosedFiles, ReaderVars, WriterVars
<1>2. conn[t] = "leaving" /\ n \in Consoles /\ files[n] = t /\ 0 # t
  <2>1. conn[t] = "leaving"
    BY <1>0, <1>1 DEF LifeOf, Life, Has, TerminalTypes
  <2> QED
    BY <1>0, <2>1, TerminalConstants DEF LifeOf, Life, NumbersOK
<1>3. Becomes(pool, pool', {k \in pool.running : ~(k.kind = "close" /\ k.of = t)}, Queue(pool))
  BY <1>0, <1>1, EndedIs
<1>4. /\ PoolOK(pool') /\ pool'.running = {k \in pool.running : ~(k.kind = "close" /\ k.of = t)}
      /\ Queue(pool') = Queue(pool)
  BY <1>3 DEF Becomes
<1>5. Of(pool'.running, t) = rr /\ Of(Queue(pool'), t) = w /\ OnlyOf(t)
  BY <1>4 DEF Of, OnlyOf
<1>6. ~Has(rr \cup w, "close")
  <2>1. Single(pool.running \cup Queue(pool)) /\ pool.running \cap Queue(pool) = {}
    BY <1>0 DEF PoolOK
  <2>2. PICK j \in r : j.kind = "close"
    BY <1>1 DEF Has
  <2>3. \A k \in w : k.kind # "close"
    BY <2>1, <2>2 DEF Single, Of
  <2> QED
    BY <2>3 DEF Has
<1> HIDE DEF n
<1>7. /\ files' \in [Consoles -> Consoles \cup {0}] /\ files'[n] = 0 /\ \A m \in Consoles \ {n} : files'[m] = files[m]
      /\ conn' \in [Consoles -> {"none", "spawning", "open", "leaving", "closed"}] /\ conn'[t] = "closed"
      /\ \A u \in Consoles \ {t} : conn'[u] = conn[u]
  BY <1>0, <1>1, <1>2 DEF TerminalTypes
<1>8. /\ shell' \in [Consoles -> {"none", "alive", "dead"}] /\ shell'[t] \in {shell[t], "dead"}
      /\ shell'[t] = "alive" => Has(r, "read")
      /\ \A u \in Consoles \ {t} : shell'[u] = shell[u]
  <2> DEFINE read == Has(r, "read")
  <2> HIDE DEF read, r
  <2>1. \/ shell' = [shell EXCEPT ![t] = "dead"]
        \/ read /\ shell' = [shell EXCEPT ![t] = shell[t]]
    BY <1>1, <1>2, <1>7 DEF read
  <2>2. shell \in [Consoles -> {"none", "alive", "dead"}]
    BY <1>0 DEF TerminalTypes
  <2> QED
    BY <2>1, <2>2 DEF read
<1>9. late \subseteq late' /\ late' \subseteq Consoles
  BY <1>0, <1>1 DEF TerminalTypes
<1>10. TerminalTypes'
  <2>1. JobsAreOf(pool'.running \cup Queue(pool'))
    BY <1>0, <1>4 DEF TerminalTypes, JobsAreOf
  <2> QED
    BY <1>0, <1>1, <1>4, <1>7, <1>8, <1>9, <2>1 DEF TerminalTypes
<1>11. NumbersOK'
  <2>1. \A u \in Consoles : conn'[u] \in {"open", "leaving"} => files'[fd[u]] = u
    <3> SUFFICES ASSUME NEW u \in Consoles, conn'[u] \in {"open", "leaving"} PROVE files'[fd[u]] = u
      OBVIOUS
    <3>1. u # t /\ conn[u] \in {"open", "leaving"} /\ files[fd[u]] = u
      BY <1>0, <1>7 DEF NumbersOK
    <3>2. fd[u] \in Consoles /\ fd[u] # n
      <4>1. LifeOf(u)
        BY DEF TerminalInv
      <4> QED
        BY <1>2, <3>1, <4>1 DEF LifeOf, Life
    <3> QED
      BY <1>7, <3>1, <3>2
  <2>2. \A m \in Consoles : files'[m] # 0 => conn'[files'[m]] \in {"open", "leaving"} /\ fd[files'[m]] = m
    <3> SUFFICES ASSUME NEW m \in Consoles, files'[m] # 0
                 PROVE  conn'[files'[m]] \in {"open", "leaving"} /\ fd[files'[m]] = m
      OBVIOUS
    <3>1. m # n /\ files'[m] = files[m] /\ files[m] \in Consoles
      BY <1>0, <1>7 DEF TerminalTypes
    <3>2. conn[files[m]] \in {"open", "leaving"} /\ fd[files[m]] = m
      BY <1>0, <3>1 DEF NumbersOK
    <3>3. files[m] # t
      BY <3>1, <3>2 DEF n
    <3> QED
      BY <1>7, <3>1, <3>2, <3>3
  <2> QED
    BY <1>1, <2>1, <2>2 DEF NumbersOK
<1>12. rr \subseteq r /\ \A j \in r : j.kind # "close" => j \in rr
  OBVIOUS
<1>13. LifeOf(t)'
  <2>1. Life("leaving", shell[t], fd[t], r, w, chunk[t], shown[t])
    BY <1>0, <1>2 DEF LifeOf
  <2> DEFINE z == shell'[t]
  <2>2. z \in {shell[t], "dead"} /\ (z = "alive" => Has(r, "read"))
    BY <1>8
  <2> HIDE DEF r, w, rr, z
  <2>3. Life("closed", z, fd[t], rr, w, chunk[t], shown[t])
    BY <1>6, <1>12, <2>1, <2>2, LifeClosed
  <2> QED
    BY <1>1, <1>5, <1>7, <2>3 DEF LifeOf, z
<1>14. KeysOf(t)'
  <2>1. Keys(t, "leaving", r, w, typed[t], accepted[t], received[t], late)
    BY <1>0, <1>2 DEF KeysOf
  <2> DEFINE m == late'
  <2>2. m = (IF Has(r, "write") THEN late \cup {t} ELSE late)
    BY <1>1
  <2> HIDE DEF r, w, rr, m
  <2>3. Keys(t, "closed", rr, w, typed[t], accepted[t], received[t], m)
    BY <1>12, <2>1, <2>2, KeysClosed
  <2> QED
    BY <1>1, <1>5, <1>7, <2>3 DEF KeysOf, m
<1> HIDE DEF r, w, rr
<1> QED
  BY <1>1, <1>5, <1>7, <1>8, <1>9, <1>10, <1>11, <1>13, <1>14, OthersRest

----------------------------------------------------------------------------
(* The REPL                                                                *)

ReplTypes ==
    /\ repl \in [Submissions -> [at : {"new", "asked", "running", "answered"}, found : Submissions \cup {0},
                                 said : Nat, answer : Seq(Submissions \X Nat), alone : BOOLEAN]]
    /\ text \in [Submissions -> Seq(Submissions \X Nat)]
    /\ stdout \in Submissions \cup {0}

\* What a submission has printed, when nobody else has.
Own(s, n) == [i \in 1 .. n |-> <<s, i>>]

\* One that has not begun: its buffer is empty, and nobody prints or will print into it.
NotBegun(s) ==
    repl[s].at \in {"new", "asked"} =>
      /\ text[s] = <<>> /\ stdout # s /\ repl[s].said = 0 /\ repl[s].alone
      /\ \A u \in Submissions : repl[u].found # s

\* One that nobody has asked for has no job.
NoJobYet(s) ==
    repl[s].at = "new" => \A j \in pool.running \cup Queue(pool) : ~(j.kind = "repl" /\ j.of = s)

\* One that shares its time with no other prints into its buffer, and nobody else does.
OnItsOwn(s) ==
    /\ repl[s].at = "running" /\ repl[s].alone =>
         Evaluating = {s} /\ stdout = s /\ text[s] = Own(s, repl[s].said)
    /\ repl[s].at = "answered" /\ repl[s].alone => repl[s].answer = Own(s, repl[s].said)

\* As long as no two have overlapped, sys.stdout is the process's own but for the one that runs.
StdoutIsBack ==
    (\A s \in Submissions : repl[s].alone) =>
      /\ Evaluating = {} => stdout = 0
      /\ \A s \in Evaluating : repl[s].found = 0

ReplInv ==
    /\ ReplTypes /\ StdoutIsBack
    /\ \A s \in Submissions : NotBegun(s) /\ NoJobYet(s) /\ OnItsOwn(s)

\* No job of a submission comes that was not there.
NoNewSubmission == \A j \in pool'.running \cup Queue(pool') : j.kind = "repl" => j \in pool.running \cup Queue(pool)

\* What the terminals do leaves the submissions as they are.
LEMMA ReplStays ==
    ASSUME ReplInv, UNCHANGED replVars, NoNewSubmission
    PROVE  ReplInv'
<1>1. \A s \in Submissions : NoJobYet(s)'
  BY DEF ReplInv, NoJobYet, replVars, NoNewSubmission
<1>2. ReplTypes' /\ StdoutIsBack' /\ \A s \in Submissions : NotBegun(s)' /\ OnItsOwn(s)'
  BY DEF ReplInv, ReplTypes, StdoutIsBack, NotBegun, OnItsOwn, Evaluating, replVars
<1> QED
  BY <1>1, <1>2 DEF ReplInv

\* A submission is asked for.
LEMMA AskedKeeps ==
    ASSUME ReplInv, TerminalTypes, NEW s \in Submissions, SourceSubmitted(s)
    PROVE  ReplInv' /\ TerminalTypes' /\ \A j : j.kind # "repl" =>
             (j \in pool'.running <=> j \in pool.running) /\ (j \in Queue(pool') <=> j \in Queue(pool))
<1> DEFINE j == Job("repl", s, 0)
           e == [repl[s] EXCEPT !.at = "asked"]
<1>1. repl[s].at = "new" /\ repl' = [repl EXCEPT ![s] = e] /\ pool' = Pooled(pool, j) /\ UNCHANGED <<stdout, text, ptyVars>>
  BY DEF SourceSubmitted
<1>2. ReplTypes /\ NoJobYet(s) /\ StdoutIsBack /\ PoolOK(pool) /\ JobsAreOf(pool.running \cup Queue(pool))
  BY DEF ReplInv, TerminalTypes
<1>3. j \in Jobs /\ j.kind = "repl" /\ j.of = s
  BY TerminalConstants DEF Job, Jobs
<1>4. /\ e \in [at : {"new", "asked", "running", "answered"}, found : Submissions \cup {0}, said : Nat,
                answer : Seq(Submissions \X Nat), alone : BOOLEAN]
      /\ e.at = "asked" /\ e.found = repl[s].found /\ e.said = repl[s].said /\ e.alone = repl[s].alone
  BY <1>2 DEF ReplTypes
<1> HIDE DEF j, e
<1>5. /\ ReplTypes' /\ repl'[s] = e /\ \A u \in Submissions \ {s} : repl'[u] = repl[u]
  BY <1>1, <1>2, <1>4 DEF ReplTypes
<1>6. Becomes(pool, pool', pool.running, Queue(pool) \cup {j})
  <2>1. \A k \in pool.running \cup Queue(pool) : ~(k.kind = j.kind /\ k.of = j.of)
    BY <1>1, <1>2, <1>3 DEF NoJobYet
  <2> QED
    BY <1>1, <1>2, <1>3, <2>1, PooledIs
<1>7. PoolOK(pool') /\ pool'.running = pool.running /\ Queue(pool') = Queue(pool) \cup {j}
  BY <1>6 DEF Becomes
<1>8. \A u \in Submissions : /\ repl'[u].found = repl[u].found /\ repl'[u].said = repl[u].said
                             /\ repl'[u].alone = repl[u].alone
                             /\ (repl'[u].at = "running" <=> repl[u].at = "running")
  BY <1>1, <1>4, <1>5
<1>9. Evaluating' = Evaluating
  BY <1>8 DEF Evaluating
<1>10. StdoutIsBack'
  <2>1. Evaluating \subseteq Submissions
    BY DEF Evaluating
  <2> QED
    BY <1>1, <1>2, <1>8, <1>9, <2>1 DEF StdoutIsBack
<1>11. ASSUME NEW u \in Submissions
       PROVE  NotBegun(u)' /\ NoJobYet(u)' /\ OnItsOwn(u)'
  <2>1. NotBegun(u) /\ NoJobYet(u) /\ OnItsOwn(u)
    BY DEF ReplInv
  <2>2. CASE u = s
    <3>1. repl'[u].at = "asked" /\ repl[u].at = "new"
      BY <1>1, <1>4, <1>5, <2>2
    <3> QED
      BY <1>1, <1>8, <2>1, <3>1 DEF NotBegun, NoJobYet, OnItsOwn
  <2>3. CASE u # s
    <3>1. repl'[u] = repl[u]
      BY <1>5, <2>3
    <3>2. NotBegun(u)'
      BY <1>1, <1>8, <2>1, <3>1 DEF NotBegun
    <3>3. NoJobYet(u)'
      BY <1>3, <1>7, <2>1, <2>3, <3>1 DEF NoJobYet
    <3>4. OnItsOwn(u)'
      BY <1>1, <1>9, <2>1, <3>1 DEF OnItsOwn
    <3> QED
      BY <3>2, <3>3, <3>4
  <2> QED
    BY <2>2, <2>3
<1>12. ReplInv'
  BY <1>5, <1>10, <1>11 DEF ReplInv
<1>13. TerminalTypes'
  <2>1. JobsAreOf(pool'.running \cup Queue(pool'))
    BY <1>2, <1>3, <1>7 DEF JobsAreOf
  <2> QED
    BY <1>1, <1>7, <2>1 DEF TerminalTypes, ptyVars
<1> QED
  BY <1>3, <1>7, <1>12, <1>13

\* A submission begins to print into its buffer; those that run do not have their time for themselves.
LEMMA EnteredKeeps ==
    ASSUME ReplInv, NEW s \in Submissions, RedirectEntered(s)
    PROVE  ReplInv' /\ UNCHANGED <<pool, ptyVars>>
<1> DEFINE R == [at : {"new", "asked", "running", "answered"}, found : Submissions \cup {0}, said : Nat,
                 answer : Seq(Submissions \X Nat), alone : BOOLEAN]
           e == [repl[s] EXCEPT !.at = "running", !.found = stdout, !.alone = Evaluating = {}]
<1>1. /\ repl[s].at = "asked" /\ stdout' = s /\ UNCHANGED <<pool, text, ptyVars>>
      /\ repl' = [u \in Submissions |-> IF u = s THEN e
                    ELSE IF u \in Evaluating THEN [repl[u] EXCEPT !.alone = FALSE] ELSE repl[u]]
  BY DEF RedirectEntered, BufferOf
<1>2. ReplTypes /\ StdoutIsBack /\ NotBegun(s)
  BY DEF ReplInv
<1>3. repl \in [Submissions -> R] /\ stdout \in Submissions \cup {0}
  BY <1>2 DEF ReplTypes
<1>4. e \in R /\ e.at = "running" /\ e.found = stdout /\ e.said = repl[s].said /\ e.alone = (Evaluating = {})
  <2>1. repl[s] \in R /\ (Evaluating = {}) \in BOOLEAN
    BY <1>3
  <2> QED
    BY <1>3, <2>1
<1>5. ASSUME NEW u \in Submissions
      PROVE  LET d == [repl[u] EXCEPT !.alone = FALSE] IN
             d \in R /\ d.at = repl[u].at /\ d.found = repl[u].found /\ d.said = repl[u].said /\ ~d.alone
  BY <1>3
<1> HIDE DEF R, e
<1>6. /\ repl'[s] = e
      /\ \A u \in Submissions \ {s} :
           /\ repl'[u] \in R /\ repl'[u].at = repl[u].at /\ repl'[u].found = repl[u].found /\ repl'[u].said = repl[u].said
           /\ u \in Evaluating => ~repl'[u].alone
           /\ u \notin Evaluating => repl'[u] = repl[u]
  BY <1>1, <1>3, <1>5
<1>7. ReplTypes'
  <2>1. repl' \in [Submissions -> R]
    <3>1. \A u \in Submissions : repl'[u] \in R
      BY <1>4, <1>6
    <3> QED
      BY <1>1, <3>1
  <2> QED
    BY <1>1, <1>2, <2>1 DEF ReplTypes, R
<1>8. Evaluating' = Evaluating \cup {s} /\ s \notin Evaluating
  BY <1>1, <1>4, <1>6 DEF Evaluating
<1>9. StdoutIsBack'
  <2> SUFFICES ASSUME \A u \in Submissions : repl'[u].alone
               PROVE  \A u \in Evaluating' : repl'[u].found = 0
    BY <1>8 DEF StdoutIsBack
  <2>1. Evaluating = {}
    BY <1>4, <1>6
  <2>2. \A u \in Submissions : repl[u].alone
    <3>1. repl[s].alone
      BY <1>1, <1>2 DEF NotBegun
    <3> QED
      BY <1>6, <2>1, <3>1
  <2>3. stdout = 0
    BY <1>2, <2>1, <2>2 DEF StdoutIsBack
  <2> QED
    BY <1>4, <1>6, <1>8, <2>1, <2>3
<1>10. ASSUME NEW u \in Submissions
       PROVE  NotBegun(u)' /\ NoJobYet(u)' /\ OnItsOwn(u)'
  <2>1. NotBegun(u) /\ NoJobYet(u) /\ OnItsOwn(u)
    BY DEF ReplInv
  <2>2. CASE u = s
    <3>1. repl'[u].at = "running" /\ repl'[u].said = 0 /\ (repl'[u].alone => Evaluating = {}) /\ text'[u] = <<>>
      BY <1>1, <1>2, <1>4, <1>6, <2>2 DEF NotBegun
    <3>2. Own(u, 0) = <<>>
      BY DEF Own
    <3>3. repl'[u].alone => Evaluating' = {u}
      BY <1>8, <2>2, <3>1
    <3> QED
      BY <1>1, <2>2, <3>1, <3>2, <3>3 DEF NotBegun, NoJobYet, OnItsOwn
  <2>3. CASE u # s
    <3>1. repl'[u].at = repl[u].at
      BY <1>6, <2>3
    <3>2. NoJobYet(u)'
      BY <1>1, <2>1, <3>1 DEF NoJobYet
    <3>3. NotBegun(u)'
      <4> SUFFICES ASSUME repl[u].at \in {"new", "asked"}
                   PROVE  /\ text'[u] = <<>> /\ stdout' # u /\ repl'[u].said = 0 /\ repl'[u].alone
                          /\ \A v \in Submissions : repl'[v].found # u
        BY <3>1 DEF NotBegun
      <4>1. u \notin Evaluating
        BY DEF Evaluating
      <4>2. repl'[u] = repl[u]
        BY <1>6, <2>3, <4>1
      <4>3. \A v \in Submissions : repl'[v].found = repl[v].found \/ repl'[v].found = stdout
        BY <1>4, <1>6
      <4> QED
        BY <1>1, <2>1, <2>3, <4>2, <4>3 DEF NotBegun
    <3>4. OnItsOwn(u)'
      <4>1. CASE u \in Evaluating
        <5>1. repl'[u].at = "running" /\ ~repl'[u].alone
          BY <1>6, <2>3, <3>1, <4>1 DEF Evaluating
        <5> QED
          BY <5>1 DEF OnItsOwn
      <4>2. CASE u \notin Evaluating
        <5>1. repl'[u] = repl[u] /\ repl[u].at # "running"
          BY <1>6, <2>3, <4>2 DEF Evaluating
        <5> QED
          BY <2>1, <5>1 DEF OnItsOwn
      <4> QED
        BY <4>1, <4>2
    <3> QED
      BY <3>2, <3>3, <3>4
  <2> QED
    BY <2>2, <2>3
<1> QED
  BY <1>1, <1>7, <1>9, <1>10 DEF ReplInv

\* One more line of its own.
LEMMA OwnGrows ==
    ASSUME NEW s \in Submissions, NEW n \in Nat
    PROVE  Append(Own(s, n), <<s, n + 1>>) = Own(s, n + 1)
<1> DEFINE P == Submissions \X Nat
           o == Own(s, n)
           x == <<s, n + 1>>
           v == Append(o, x)
<1>1. o \in Seq(P) /\ Len(o) = n /\ (\A i \in 1 .. n : o[i] = <<s, i>>) /\ x \in P
  BY DEF Own
<1>2. Own(s, n + 1) = [i \in 1 .. n + 1 |-> <<s, i>>]
  BY DEF Own
<1>3. x = <<s, n + 1>>
  OBVIOUS
<1> HIDE DEF o, P, x
<1>4. v \in Seq(P) /\ Len(v) = n + 1 /\ v[n + 1] = x /\ \A i \in 1 .. n : v[i] = o[i]
  BY <1>1, AppendProperties
<1>5. \A i \in 1 .. n + 1 : v[i] = <<s, i>>
  <2>1. \A i \in 1 .. n + 1 : i \in 1 .. n \/ i = n + 1
    OBVIOUS
  <2> HIDE DEF v
  <2> QED
    BY <1>1, <1>3, <1>4, <2>1
<1>6. v = [i \in 1 .. n + 1 |-> <<s, i>>]
  <2> HIDE DEF v
  <2>1. v = [i \in 1 .. Len(v) |-> v[i]]
    BY <1>4
  <2> QED
    BY <1>4, <1>5, <2>1
<1> QED
  BY <1>2, <1>6 DEF v, o, x

\* A line goes to whatever sys.stdout is.
LEMMA LineKeeps ==
    ASSUME ReplInv, NEW s \in Submissions, LinePrinted(s)
    PROVE  ReplInv' /\ UNCHANGED <<pool, ptyVars>>
<1> DEFINE R == [at : {"new", "asked", "running", "answered"}, found : Submissions \cup {0}, said : Nat,
                 answer : Seq(Submissions \X Nat), alone : BOOLEAN]
           n == repl[s].said
           e == [repl[s] EXCEPT !.said = @ + 1]
           x == <<s, n + 1>>
<1>1. /\ repl[s].at = "running" /\ repl' = [repl EXCEPT ![s] = e] /\ UNCHANGED <<pool, stdout, ptyVars>>
      /\ text' = IF stdout = 0 THEN text ELSE [text EXCEPT ![stdout] = Append(@, x)]
  BY DEF LinePrinted
<1>2. ReplTypes /\ StdoutIsBack /\ OnItsOwn(s)
  BY DEF ReplInv
<1>3. repl \in [Submissions -> R] /\ n \in Nat /\ text \in [Submissions -> Seq(Submissions \X Nat)]
      /\ stdout \in Submissions \cup {0}
  BY <1>2 DEF ReplTypes
<1>4. e \in R /\ e.at = "running" /\ e.found = repl[s].found /\ e.said = n + 1 /\ e.alone = repl[s].alone
  <2>1. repl[s] \in R /\ n + 1 \in Nat
    BY <1>3
  <2>2. e = [repl[s] EXCEPT !.said = n + 1]
    OBVIOUS
  <2> HIDE DEF e
  <2> QED
    BY <1>1, <2>1, <2>2
<1> HIDE DEF R, e, n
<1>5. /\ repl' \in [Submissions -> R] /\ repl'[s] = e /\ \A u \in Submissions \ {s} : repl'[u] = repl[u]
  BY <1>1, <1>3, <1>4
<1>6. /\ text' \in [Submissions -> Seq(Submissions \X Nat)]
      /\ \A u \in Submissions : text'[u] = IF u = stdout THEN Append(text[u], x) ELSE text[u]
  <2>1. CASE stdout = 0
    BY <1>1, <1>3, <2>1, TerminalConstants
  <2>2. CASE stdout # 0
    <3> DEFINE v == Append(text[stdout], x)
    <3>1. v \in Seq(Submissions \X Nat) /\ stdout \in Submissions
      BY <1>3, <2>2
    <3>2. text' = [text EXCEPT ![stdout] = v]
      BY <1>1, <2>2
    <3>3. \A u \in Submissions : u = stdout => v = Append(text[u], x)
      OBVIOUS
    <3> HIDE DEF v
    <3> QED
      BY <1>3, <3>1, <3>2, <3>3
  <2> QED
    BY <2>1, <2>2
<1>7. \A u \in Submissions : repl'[u].at = repl[u].at /\ repl'[u].found = repl[u].found /\ repl'[u].alone = repl[u].alone
  BY <1>1, <1>4, <1>5
<1>8. Evaluating' = Evaluating
  BY <1>7 DEF Evaluating
<1>9. ReplTypes' /\ StdoutIsBack'
  <2>1. Evaluating \subseteq Submissions
    BY DEF Evaluating
  <2>2. StdoutIsBack'
    BY <1>1, <1>2, <1>7, <1>8, <2>1 DEF StdoutIsBack
  <2> QED
    BY <1>1, <1>2, <1>5, <1>6, <2>2 DEF ReplTypes, R
<1>10. ASSUME NEW u \in Submissions
       PROVE  NotBegun(u)' /\ NoJobYet(u)' /\ OnItsOwn(u)'
  <2>1. NotBegun(u) /\ NoJobYet(u) /\ OnItsOwn(u)
    BY DEF ReplInv
  <2>2. NoJobYet(u)'
    BY <1>1, <1>7, <2>1 DEF NoJobYet
  <2>3. NotBegun(u)'
    <3> SUFFICES ASSUME repl[u].at \in {"new", "asked"}
                 PROVE  /\ text'[u] = <<>> /\ stdout' # u /\ repl'[u].said = 0 /\ repl'[u].alone
                        /\ \A v \in Submissions : repl'[v].found # u
      BY <1>7 DEF NotBegun
    <3>1. u # s /\ u # stdout
      BY <1>1, <2>1 DEF NotBegun
    <3> QED
      BY <1>1, <1>5, <1>6, <1>7, <2>1, <3>1 DEF NotBegun
  <2>4. CASE u = s
    <3> SUFFICES ASSUME repl[s].alone PROVE Evaluating = {s} /\ stdout = s /\ text'[s] = Own(s, n + 1)
      BY <1>1, <1>4, <1>5, <1>8, <2>2, <2>3, <2>4 DEF OnItsOwn
    <3>1. Evaluating = {s} /\ stdout = s /\ text[s] = Own(s, n)
      BY <1>1, <1>2 DEF OnItsOwn, n
    <3> QED
      BY <1>3, <1>6, <3>1, OwnGrows
  <2>5. CASE u # s
    <3>1. repl'[u] = repl[u]
      BY <1>5, <2>5
    <3>2. repl[u].at = "running" => Evaluating # {u}
      BY <1>1, <2>5 DEF Evaluating
    <3>3. OnItsOwn(u)'
      BY <1>1, <1>8, <2>1, <3>1, <3>2 DEF OnItsOwn
    <3> QED
      BY <2>2, <2>3, <3>3
  <2> QED
    BY <2>4, <2>5
<1> QED
  BY <1>1, <1>9, <1>10 DEF ReplInv

\* A submission gives back what it found.
LEMMA LeftKeeps ==
    ASSUME ReplInv, TerminalTypes, NEW s \in Submissions, RedirectLeft(s)
    PROVE  ReplInv' /\ TerminalTypes' /\ \A j : j.kind # "repl" =>
             (j \in pool'.running <=> j \in pool.running) /\ (j \in Queue(pool') <=> j \in Queue(pool))
<1> DEFINE R == [at : {"new", "asked", "running", "answered"}, found : Submissions \cup {0}, said : Nat,
                 answer : Seq(Submissions \X Nat), alone : BOOLEAN]
           e == [repl[s] EXCEPT !.at = "answered", !.answer = text[s]]
<1>1. /\ repl[s].at = "running" /\ stdout' = repl[s].found /\ repl' = [repl EXCEPT ![s] = e]
      /\ pool' = Ended(pool, "repl", s) /\ UNCHANGED <<text, ptyVars>>
  BY DEF RedirectLeft, Restored, BufferOf
<1>2. ReplTypes /\ StdoutIsBack /\ OnItsOwn(s) /\ PoolOK(pool) /\ JobsAreOf(pool.running \cup Queue(pool))
  BY DEF ReplInv, TerminalTypes
<1>3. repl \in [Submissions -> R] /\ text \in [Submissions -> Seq(Submissions \X Nat)]
  BY <1>2 DEF ReplTypes
<1>4. /\ e \in R /\ e.at = "answered" /\ e.found = repl[s].found /\ e.said = repl[s].said
      /\ e.alone = repl[s].alone /\ e.answer = text[s] /\ repl[s].found \in Submissions \cup {0}
  BY <1>3
<1> HIDE DEF R, e
<1>5. repl' \in [Submissions -> R] /\ repl'[s] = e /\ \A u \in Submissions \ {s} : repl'[u] = repl[u]
  BY <1>1, <1>3, <1>4
<1>6. Becomes(pool, pool', {k \in pool.running : ~(k.kind = "repl" /\ k.of = s)}, Queue(pool))
  BY <1>1, <1>2, EndedIs
<1>7. /\ PoolOK(pool') /\ pool'.running = {k \in pool.running : ~(k.kind = "repl" /\ k.of = s)}
      /\ Queue(pool') = Queue(pool)
  BY <1>6 DEF Becomes
<1>8. TerminalTypes'
  <2>1. JobsAreOf(pool'.running \cup Queue(pool'))
    BY <1>2, <1>7 DEF JobsAreOf
  <2> QED
    BY <1>1, <1>7, <2>1 DEF TerminalTypes, ptyVars
<1>9. Evaluating' = Evaluating \ {s}
  BY <1>4, <1>5 DEF Evaluating
<1>10. \A u \in Submissions : repl'[u].found = repl[u].found /\ repl'[u].said = repl[u].said /\ repl'[u].alone = repl[u].alone
  BY <1>4, <1>5
<1>11. ReplTypes'
  BY <1>1, <1>2, <1>4, <1>5 DEF ReplTypes, R
<1>12. StdoutIsBack'
  <2> SUFFICES ASSUME \A u \in Submissions : repl[u].alone
               PROVE  stdout' = 0 /\ \A u \in Evaluating' : repl'[u].found = 0
    BY <1>10 DEF StdoutIsBack
  <2>1. \A u \in Evaluating : repl[u].found = 0
    BY <1>2 DEF StdoutIsBack
  <2>2. s \in Evaluating /\ Evaluating \subseteq Submissions
    BY <1>1 DEF Evaluating
  <2> QED
    BY <1>1, <1>9, <1>10, <2>1, <2>2
<1>13. ASSUME NEW u \in Submissions
       PROVE  NotBegun(u)' /\ NoJobYet(u)' /\ OnItsOwn(u)'
  <2>1. NotBegun(u) /\ NoJobYet(u) /\ OnItsOwn(u)
    BY DEF ReplInv
  <2>2. CASE u = s
    <3>1. repl'[u].at = "answered"
      BY <1>4, <1>5, <2>2
    <3>2. repl'[u].alone => repl'[u].answer = Own(u, repl'[u].said)
      BY <1>1, <1>2, <1>4, <1>5, <2>2 DEF OnItsOwn
    <3> QED
      BY <3>1, <3>2 DEF NotBegun, NoJobYet, OnItsOwn
  <2>3. CASE u # s
    <3>1. repl'[u] = repl[u]
      BY <1>5, <2>3
    <3>2. NotBegun(u)'
      BY <1>1, <1>10, <2>1, <3>1 DEF NotBegun
    <3>3. NoJobYet(u)'
      BY <1>7, <2>1, <3>1 DEF NoJobYet
    <3>4. repl[u].at = "running" => Evaluating # {u}
      BY <1>1, <2>3 DEF Evaluating
    <3>5. OnItsOwn(u)'
      BY <2>1, <3>1, <3>4 DEF OnItsOwn
    <3> QED
      BY <3>2, <3>3, <3>5
  <2> QED
    BY <2>2, <2>3
<1>14. ReplInv'
  BY <1>11, <1>12, <1>13 DEF ReplInv
<1>15. \A j : j.kind # "repl" => (j \in pool'.running <=> j \in pool.running) /\ (j \in Queue(pool') <=> j \in Queue(pool))
  BY <1>7
<1> QED
  BY <1>8, <1>14, <1>15

\* What the submissions do leaves the terminals as they are.
LEMMA TerminalsStay ==
    ASSUME TerminalInv, TerminalTypes', UNCHANGED ptyVars,
           \A j : j.kind # "repl" => (j \in pool'.running <=> j \in pool.running) /\ (j \in Queue(pool') <=> j \in Queue(pool))
    PROVE  TerminalInv'
<1>1. NumbersOK'
  BY DEF TerminalInv, NumbersOK, ptyVars
<1>2. ASSUME NEW u \in Consoles
      PROVE  LifeOf(u)' /\ KeysOf(u)'
  <2>1. Of(pool'.running, u) = Of(pool.running, u) /\ Of(Queue(pool'), u) = Of(Queue(pool), u)
    BY DEF Of
  <2> QED
    BY <2>1 DEF TerminalInv, LifeOf, KeysOf, ptyVars
<1> QED
  BY <1>1, <1>2 DEF TerminalInv

\* Nothing runs, nothing is asked for.
LEMMA TerminalsStart ==
    ASSUME TerminalsInit
    PROVE  TerminalInv /\ ReplInv
<1>1. PICK n \in PoolSizes : pool = [size |-> n, running |-> {}, waiting |-> <<>>]
  BY DEF TerminalsInit
<1>2. n \in Nat /\ 0 \in Nat /\ <<>> \in Seq(Nat)
  BY TerminalsAssumption
<1>3. PoolOK(pool) /\ pool.running = {} /\ Queue(pool) = {}
  <2>1. pool.waiting = <<>> /\ pool.running = {} /\ pool.size = n
    BY <1>1
  <2>2. DOMAIN <<>> = {} /\ <<>> \in Seq(Jobs)
    OBVIOUS
  <2>3. Queue(pool) = {} /\ Once(pool.waiting)
    BY <2>1, <2>2 DEF Queue, Elements, Once
  <2>4. pool \in Pools
    BY <1>1, <1>2, <2>2 DEF Pools
  <2> QED
    BY <2>1, <2>3, <2>4 DEF PoolOK, Single
<1>4. /\ conn = [t \in Consoles |-> "none"] /\ shell = [t \in Consoles |-> "none"]
      /\ fd = [t \in Consoles |-> 0] /\ files = [m \in Consoles |-> 0]
      /\ typed = [t \in Consoles |-> 0] /\ accepted = [t \in Consoles |-> 0] /\ printed = [t \in Consoles |-> 0]
      /\ received = [t \in Consoles |-> <<>>] /\ chunk = [t \in Consoles |-> <<>>] /\ shown = [t \in Consoles |-> <<>>]
      /\ late = {} /\ stdout = 0 /\ text = [s \in Submissions |-> <<>>]
      /\ repl = [s \in Submissions |-> [at |-> "new", found |-> 0, said |-> 0, answer |-> <<>>, alone |-> TRUE]]
  BY DEF TerminalsInit
<1>5. TerminalTypes
  <2>1. <<>> \in Seq(Consoles \X Nat) /\ JobsAreOf(pool.running \cup Queue(pool))
    BY <1>3 DEF JobsAreOf
  <2> QED
    BY <1>2, <1>3, <1>4, <2>1 DEF TerminalTypes
<1>6. NumbersOK
  BY <1>4 DEF NumbersOK
<1>7. ASSUME NEW u \in Consoles
      PROVE  LifeOf(u) /\ KeysOf(u)
  <2>1. Of(pool.running, u) = {} /\ Of(Queue(pool), u) = {}
    BY <1>3 DEF Of
  <2>2. <<>> \o <<>> = <<>> /\ <<>> = [i \in 1 .. Len(<<>>) |-> i] /\ <<>> = [i \in 1 .. Len(<<>>) |-> <<u, i>>] /\ Len(<<>>) = 0
    OBVIOUS
  <2>3. Life("none", "none", fd[u], {}, {}, <<>>, <<>>)
    BY <2>2 DEF Life, Has
  <2>4. Keys(u, "none", {}, {}, 0, 0, <<>>, {})
    BY <2>2 DEF Keys, Has
  <2> QED
    BY <1>4, <2>1, <2>3, <2>4 DEF LifeOf, KeysOf
<1>8. ReplTypes
  <2>1. <<>> \in Seq(Submissions \X Nat)
    OBVIOUS
  <2> QED
    BY <1>2, <1>4, <2>1 DEF ReplTypes
<1>9. /\ \A s \in Submissions : repl[s].at = "new" /\ repl[s].found = 0 /\ repl[s].said = 0 /\ repl[s].alone
      /\ \A s \in Submissions : text[s] = <<>>
  BY <1>4
<1>10. StdoutIsBack
  BY <1>4, <1>9 DEF StdoutIsBack, Evaluating
<1>11. \A s \in Submissions : NotBegun(s) /\ NoJobYet(s) /\ OnItsOwn(s)
  BY <1>3, <1>4, <1>9, TerminalConstants DEF NotBegun, NoJobYet, OnItsOwn
<1> QED
  BY <1>5, <1>6, <1>7, <1>8, <1>10, <1>11 DEF TerminalInv, ReplInv

\* Every step of terminals and submissions keeps both invariants.
LEMMA TerminalsStep ==
    ASSUME TerminalInv, ReplInv, [TerminalsNext]_terminalVars
    PROVE  TerminalInv' /\ ReplInv'
<1>0. TerminalTypes
  BY DEF TerminalInv
<1>1. ASSUME NEW t \in Consoles,
             \/ ClientConnects(t) \/ ClientTypes(t) \/ ClientLeaves(t)
             \/ ShellSpawned(t) \/ ShellPrints(t) \/ ShellExits(t)
             \/ ReadReturns(t) \/ PieceSent(t) \/ ReadEnds(t)
             \/ PumpTakesKey(t) \/ KeyWritten(t) \/ SessionClosed(t)
      PROVE  TerminalInv' /\ ReplInv'
  <2>1. TerminalInv' /\ OnlyOf(t)
    BY <1>1, ConnectKeeps, TrafficKeeps, GoneKeeps, SpawnKeeps, ReadKeeps, PieceKeeps, ReadEndKeeps,
       KeyTakenKeeps, KeyWrittenKeeps, CloseKeeps
  <2>2. UNCHANGED replVars
    <3>1. CASE ClientConnects(t) \/ ClientTypes(t) \/ ClientLeaves(t)
      BY <3>1 DEF ClientConnects, ClientTypes, ClientLeaves
    <3>2. CASE ShellSpawned(t) \/ ShellPrints(t) \/ ShellExits(t)
      BY <3>2 DEF ShellSpawned, ShellPrints, ShellExits
    <3>3. CASE ReadReturns(t) \/ PieceSent(t) \/ ReadEnds(t)
      BY <3>3 DEF ReadReturns, PieceSent, ReadEnds
    <3>4. CASE PumpTakesKey(t) \/ KeyWritten(t) \/ SessionClosed(t)
      BY <3>4 DEF PumpTakesKey, KeyWritten, SessionClosed
    <3> QED
      BY <1>1, <3>1, <3>2, <3>3, <3>4
  <2>3. NoNewSubmission
    BY <2>1 DEF NoNewSubmission, OnlyOf
  <2> QED
    BY <2>1, <2>2, <2>3, ReplStays
<1>2. CASE ThreadTakesJob
  <2>1. TerminalInv' /\ pool'.running \cup Queue(pool') = pool.running \cup Queue(pool)
    BY <1>2, JobTakenKeeps
  <2>2. UNCHANGED replVars
    BY <1>2 DEF ThreadTakesJob
  <2>3. NoNewSubmission
    BY <2>1 DEF NoNewSubmission
  <2> QED
    BY <2>1, <2>2, <2>3, ReplStays
<1>3. ASSUME NEW s \in Submissions, SourceSubmitted(s) \/ RedirectLeft(s)
      PROVE  TerminalInv' /\ ReplInv'
  <2>1. /\ ReplInv' /\ TerminalTypes'
        /\ \A j : j.kind # "repl" => (j \in pool'.running <=> j \in pool.running) /\ (j \in Queue(pool') <=> j \in Queue(pool))
    BY <1>0, <1>3, AskedKeeps, LeftKeeps
  <2>2. UNCHANGED ptyVars
    BY <1>3 DEF SourceSubmitted, RedirectLeft
  <2> QED
    BY <2>1, <2>2, TerminalsStay
<1>4. ASSUME NEW s \in Submissions, RedirectEntered(s) \/ LinePrinted(s)
      PROVE  TerminalInv' /\ ReplInv'
  <2>1. ReplInv' /\ UNCHANGED <<pool, ptyVars>>
    BY <1>4, EnteredKeeps, LineKeeps
  <2>2. TerminalTypes'
    BY <1>0, <2>1 DEF TerminalTypes, ptyVars
  <2> QED
    BY <2>1, <2>2, TerminalsStay
<1>5. CASE UNCHANGED terminalVars
  <2>1. UNCHANGED <<pool, ptyVars, replVars>>
    BY <1>5 DEF terminalVars
  <2>2. NoNewSubmission
    BY <2>1 DEF NoNewSubmission
  <2>3. TerminalTypes'
    BY <1>0, <2>1 DEF TerminalTypes, ptyVars
  <2> QED
    BY <2>1, <2>2, <2>3, ReplStays, TerminalsStay
<1> QED
  BY <1>1, <1>2, <1>3, <1>4, <1>5 DEF TerminalsNext

\* A command is answered when its process is over.
CommandInv ==
    /\ command \in [at : {"none", "running", "answered"}, alive : BOOLEAN, count : Nat, code : Nat]
    /\ AnsweredCommandsAreOver

\* No command has been asked for.
LEMMA CommandStarts ==
    ASSUME CoachInit
    PROVE  CommandInv
BY DEF CoachInit, CommandInv, AnsweredCommandsAreOver

\* Every step of a command keeps it.
LEMMA CommandStep ==
    ASSUME CommandInv, [CoachNext]_commandVars
    PROVE  CommandInv'
<1> USE DEF CommandInv, AnsweredCommandsAreOver
<1>1. CASE CommandAsked
  BY <1>1 DEF CommandAsked
<1>2. CASE CommandEnds
  <2>1. PICK code \in {0, 1} : command' = [command EXCEPT !.alive = FALSE, !.code = code]
    BY <1>2 DEF CommandEnds
  <2>2. code \in Nat
    OBVIOUS
  <2> QED
    BY <2>1, <2>2
<1>3. CASE OutputComplete
  BY <1>3 DEF OutputComplete
<1>4. CASE LimitPasses
  BY <1>4 DEF LimitPasses, AfterLimit
<1>5. CASE UNCHANGED commandVars
  BY <1>5 DEF commandVars
<1> QED
  BY <1>1, <1>2, <1>3, <1>4, <1>5 DEF CoachNext

\* Each thread that reads is some terminal's, and of each terminal one reads at most.
LEMMA ThreadsLeft ==
    ASSUME TerminalInv
    PROVE  TerminalsLeaveAThread
<1> DEFINE there == {t \in Consoles : conn[t] # "none"}
           reading == {j \in pool.running : j.kind = "read"}
           owner == [j \in reading |-> j.of]
<1>0. TerminalTypes /\ PoolOK(pool) /\ JobsAreOf(pool.running \cup Queue(pool))
  BY DEF TerminalInv, TerminalTypes
<1>1. IsFiniteSet(there)
  BY TerminalConstants, FS_Subset
<1>2. \A j \in reading : j.of \in there
  <2> SUFFICES ASSUME NEW j \in reading PROVE j.of \in there
    OBVIOUS
  <2>1. j.of \in Consoles /\ j \in Of(pool.running, j.of)
    BY <1>0 DEF JobsAreOf, Of
  <2>2. LifeOf(j.of)
    BY <2>1 DEF TerminalInv
  <2> QED
    BY <2>1, <2>2 DEF LifeOf, Life
<1>3. \A j, k \in reading : j.of = k.of => j = k
  <2>1. Single(pool.running \cup Queue(pool))
    BY <1>0 DEF PoolOK
  <2> QED
    BY <2>1 DEF Single
<1>4. owner \in Injection(reading, there)
  BY <1>2, <1>3 DEF Injection, IsInjective
<1> HIDE DEF there, reading, owner
<1>5. IsFiniteSet(reading) /\ Cardinality(reading) <= Cardinality(there)
  BY <1>1, <1>4, FS_Injection
<1>6. Cardinality(reading) \in Nat /\ Cardinality(there) \in Nat
  BY <1>1, <1>5, FS_CardinalityType
<1>7. pool.size \in Nat
  BY <1>0 DEF PoolOK, Pools
<1>8. Cardinality(there) < pool.size => Cardinality(reading) < pool.size
  BY <1>5, <1>6, <1>7
<1> QED
  BY <1>8 DEF TerminalsLeaveAThread, there, reading

\* What the invariants say of terminals, submissions and commands.
LEMMA TerminalsAreSound ==
    ASSUME TerminalInv, ReplInv, CommandInv
    PROVE  TerminalsSound
<1>1. OutputInOrder
  BY DEF TerminalInv, LifeOf, Life, OutputInOrder
<1>2. KeysInOrder
  BY DEF TerminalInv, KeysOf, Keys, KeysInOrder
<1>3. OutlivingShellsAreRead
  <2> SUFFICES ASSUME NEW t \in Consoles, conn[t] = "closed", shell[t] = "alive" PROVE Runs("read", t)
    BY DEF OutlivingShellsAreRead
  <2>1. LifeOf(t)
    BY DEF TerminalInv
  <2>2. Has(Of(pool.running, t), "read")
    BY <2>1 DEF LifeOf, Life
  <2> QED
    BY <2>2, RunsIs
<1>4. OwnOutputWhenAlone
  BY DEF ReplInv, OnItsOwn, Own, OwnOutputWhenAlone
<1>5. StdoutGivenBack
  BY DEF ReplInv, StdoutIsBack, StdoutGivenBack
<1> QED
  BY <1>1, <1>2, <1>3, <1>4, <1>5, ThreadsLeft DEF CommandInv, TerminalsSound

\* For any number of terminals, submissions and threads (pty_bridge.py, repl_bridge.py, coach.py):
\* bytes arrive in order, a thread is left, submissions that do not overlap do not mix, and
\* an answered command is over.
THEOREM TerminalsSoundHolds == Spec => []TerminalsSound
<1>1. Init => TerminalInv /\ ReplInv /\ CommandInv
  BY TerminalsStart, CommandStarts DEF Init
<1>2. TerminalInv /\ ReplInv /\ CommandInv /\ [Next]_vars => (TerminalInv /\ ReplInv /\ CommandInv)'
  BY Parts, TerminalsStep, CommandStep
<1>3. TerminalInv /\ ReplInv /\ CommandInv => TerminalsSound
  BY TerminalsAreSound
<1> QED
  BY <1>1, <1>2, <1>3, PTL DEF Spec
=============================================================================
