------------------------------ MODULE AgentBlocks ------------------------------
(***************************************************************************)
(* Agents whose moves fail verification are blocked for a while: the       *)
(* keystore counts rejections (transport/agent_signing.py), the            *)
(* orchestrator carries a block to the market and to the federated trainer *)
(* and lifts it at its date (transport/orchestrator.py), and               *)
(* POST /control/inject can raise the same event (transport/api.py).       *)
(* A session that is resumed sets the tick back.                           *)
(***************************************************************************)
EXTENDS Maps

CONSTANTS
  Agents,
  Threshold, Window, Cooloff, HistoryCap,   \* of the keystore
  InjectDates,                              \* the dates that are injected
  MaxNow, MaxNotices                        \* bounds: ticks, blocks raised

ASSUME AgentBlocksAssumption ==
  /\ {Threshold, HistoryCap, Cooloff} \subseteq Nat \ {0}
  /\ {Window, MaxNow, MaxNotices} \subseteq Nat
  /\ Threshold <= HistoryCap /\ InjectDates \subseteq Nat

VARIABLES
  now,            \* the tick counter of the simulation
  rejections,     \* AgentKeystore._recent_rejections
  blockedUntil,   \* AgentKeystore._blocked_until
  notices,        \* the blocks raised: by whom, of whom, at and until which tick
  pendingUnblocks,
  marketBlocked, trainerBlocked,
  slashedIds      \* history: validators that were slashed

blockVars == <<now, rejections, blockedUntil, notices, pendingUnblocks, marketBlocked,
               trainerBlocked, slashedIds>>

BlocksInit ==
  /\ now = 0 /\ rejections = [a \in Agents |-> <<>>] /\ blockedUntil = <<>> /\ notices = <<>>
  /\ pendingUnblocks = <<>> /\ marketBlocked = {} /\ trainerBlocked = {} /\ slashedIds = {}

\* Fault: the second block of an agent leaves the first date alone.
DatedOnce(a, until) == IF a \in DOMAIN pendingUnblocks THEN pendingUnblocks ELSE Bind(pendingUnblocks, a, until)

Dated(a, until) == Bind(pendingUnblocks, a, until)

\* Fault: the trainer is not told.
OnAgentBlockedMarketOnly(by, a, until) ==
  /\ Len(notices) < MaxNotices
  /\ notices' = Append(notices, [by |-> by, agent |-> a, at |-> now, until |-> until])
  /\ marketBlocked' = marketBlocked \cup {a}
  /\ pendingUnblocks' = Dated(a, until)
  /\ trainerBlocked' = trainerBlocked

\* The handler of agent.blocked.
OnAgentBlocked(by, a, until) ==
  /\ Len(notices) < MaxNotices
  /\ notices' = Append(notices, [by |-> by, agent |-> a, at |-> now, until |-> until])
  /\ marketBlocked' = marketBlocked \cup {a}
  /\ pendingUnblocks' = Dated(a, until)
  /\ trainerBlocked' = trainerBlocked \cup {a}

\* Fault: rejections are counted whenever they happened.
RecentRejectionsEver(history) == Len(history)

RecentRejections(history) == Cardinality({i \in DOMAIN history : history[i] >= now - Window})

\* Fault: a block that runs is not looked at.
BlockRunsIgnored(a) == FALSE

BlockRuns(a) == Get(blockedUntil, a, -1) > now

\* verify_move of a wrong signature, and _record_rejection.
RejectMove(a) ==
  LET history == AppendBounded(rejections[a], now, HistoryCap) IN
  /\ rejections' = [rejections EXCEPT ![a] = history]
  /\ IF RecentRejections(history) < Threshold \/ BlockRuns(a)
     THEN UNCHANGED <<blockedUntil, notices, pendingUnblocks, marketBlocked, trainerBlocked>>
     ELSE /\ blockedUntil' = Bind(blockedUntil, a, now + Cooloff)
          /\ OnAgentBlocked("keystore", a, now + Cooloff)
  /\ UNCHANGED <<now, slashedIds>>

\* control_inject of agent.blocked: any date.
InjectBlock(a, until) ==
  /\ OnAgentBlocked("inject", a, until)
  /\ UNCHANGED <<now, rejections, blockedUntil, slashedIds>>

\* on_validator_slashed: the trainer's set holds validators and agents alike.
BarValidator(v) ==
  /\ trainerBlocked' = trainerBlocked \cup {v}
  /\ slashedIds' = slashedIds \cup {v}
  /\ UNCHANGED <<now, rejections, blockedUntil, notices, pendingUnblocks, marketBlocked>>

\* Fault: a block is lifted one tick late.
ExpiredLate == {a \in DOMAIN pendingUnblocks : now + 1 > pendingUnblocks[a] + 1}

Expired == {a \in DOMAIN pendingUnblocks : now + 1 >= pendingUnblocks[a]}

\* A tick, with _drain_pending_unblocks of its logistics step.
BlocksTick ==
  /\ now < MaxNow
  /\ now' = now + 1
  /\ pendingUnblocks' = [a \in DOMAIN pendingUnblocks \ Expired |-> pendingUnblocks[a]]
  /\ marketBlocked' = marketBlocked \ Expired
  /\ trainerBlocked' = trainerBlocked \ Expired
  /\ UNCHANGED <<rejections, blockedUntil, notices, slashedIds>>

\* Resuming a session: the world of the save has an earlier tick.
Rewind ==
  /\ \E t \in 0..now - 1 : now' = t
  /\ UNCHANGED <<rejections, blockedUntil, notices, pendingUnblocks, marketBlocked,
                 trainerBlocked, slashedIds>>

BlocksNext ==
  \/ BlocksTick \/ Rewind
  \/ \E a \in Agents : \/ RejectMove(a) \/ BarValidator(a)
                       \/ \E until \in InjectDates : InjectBlock(a, until)

------------------------------------------------------------------------------
\* Market and trainer agree with the dates: no agent is blocked without a date that will lift
\* the block, and none has a date while it still trades or trains.
BlocksHaveDates ==
  /\ marketBlocked = DOMAIN pendingUnblocks
  /\ trainerBlocked \subseteq marketBlocked \cup slashedIds
  /\ marketBlocked \subseteq trainerBlocked

\* A block that a tick lifts was raised last with a date that has come, and one that stays was
\* not: no agent sits out longer, or shorter, than the last block asked for.
LiftedAtTheLastDate ==
  [][now' = now + 1 =>
       \A a \in marketBlocked :
         \E i \in DOMAIN notices :
           /\ notices[i].agent = a /\ \A j \in DOMAIN notices : notices[j].agent = a => j <= i
           /\ (a \notin marketBlocked') <=> (now' >= notices[i].until)]_blockVars

\* The keystore raises one block for a burst of rejections: an agent's next one comes when the
\* cool-off of each earlier one is over, even if the tick was set back in between.
OneBlockPerCooloff ==
  \A i, j \in DOMAIN notices :
    i < j /\ notices[i].by = "keystore" /\ notices[j].by = "keystore" /\ notices[i].agent = notices[j].agent
      => notices[j].at >= notices[i].until

\* Each block of the keystore has its cause: enough rejections of that agent in the window
\* before it, and those are not older than the window.
BlocksHaveACause ==
  [][\A i \in DOMAIN notices' \ DOMAIN notices :
       notices'[i].by = "keystore" =>
         \E burst \in SUBSET DOMAIN rejections'[notices'[i].agent] :
           /\ Cardinality(burst) = Threshold
           /\ \A k \in burst : rejections'[notices'[i].agent][k] >= now - Window]_blockVars
\* Whoever raises blocks, and however the tick is set back: a block is raised once per cool-off
\* and with a cause, market and trainer know of it and of its date, and the last date lifts it.
BlocksSound ==
  [](BlocksHaveDates /\ OneBlockPerCooloff) /\ LiftedAtTheLastDate /\ BlocksHaveACause

------------------------------------------------------------------------------
(***************************************************************************)
(* The other user of the keystore: sign_and_verify_moves, on the thread of *)
(* the analytics loop, while the tick loop moves the agents and a resumed  *)
(* session may bring another world.                                        *)
(***************************************************************************)
CONSTANTS
  Movers, Spots,      \* agents that sign, numbered from 1, and where they can be
  RestoredTicks,      \* ticks of a world that a session brings back
  MaxMoves, MaxPasses \* bounds: ticks, calls of sign_and_verify_moves

ASSUME SigningAssumption ==
  /\ Movers \in Nat \ {0} /\ {MaxMoves, MaxPasses} \subseteq Nat
  /\ RestoredTicks \subseteq Nat

VARIABLES
  moveWorlds,         \* the simulation that is ticked (1) and the restored one (2)
  shownWorld,     \* Orchestrator.simulation
  signer,         \* the call: its phase, world, tick, snapshot, row and signature
  lastSigned,     \* Orchestrator._last_signed_tick
  verdicts        \* history: what was signed, and what verify_move said of it

signingVars == <<moveWorlds, shownWorld, signer, lastSigned, verdicts>>

Resting == [phase |-> "rest", world |-> 1, tick |-> 0, snapshot |-> <<>>, row |-> 0, signature |-> <<>>]

SigningInit ==
  /\ moveWorlds \in [1..2 -> [tick : {0}, at : [1..Movers -> Spots]]]
  /\ shownWorld = 1 /\ signer = Resting /\ lastSigned = -1 /\ verdicts = <<>>

\* A tick of the loop, which goes on with the simulation it was built with: the agents move,
\* and then the tick is counted.
MoveAgents ==
  /\ moveWorlds[1].tick < MaxMoves
  /\ \E at \in [1..Movers -> Spots] : moveWorlds' = [moveWorlds EXCEPT ![1].at = at]
  /\ UNCHANGED <<shownWorld, signer, lastSigned, verdicts>>

CountTick ==
  /\ moveWorlds[1].tick < MaxMoves
  /\ moveWorlds' = [moveWorlds EXCEPT ![1].tick = @ + 1]
  /\ UNCHANGED <<shownWorld, signer, lastSigned, verdicts>>

ShowRestored ==
  /\ shownWorld = 1 /\ shownWorld' = 2
  /\ \E t \in RestoredTicks : moveWorlds' = [moveWorlds EXCEPT ![2].tick = t]
  /\ UNCHANGED <<signer, lastSigned, verdicts>>

\* Fault: a tick is signed as long as no later one was.
NotYetSignedLoose(tick) == tick >= lastSigned

NotYetSigned(tick) == tick > lastSigned

BeginSigning ==
  LET tick == moveWorlds[shownWorld].tick IN
  /\ signer.phase = "rest" /\ Len(verdicts) < MaxPasses * Movers
  /\ NotYetSigned(tick)
  /\ lastSigned' = tick
  /\ signer' = [Resting EXCEPT !.phase = "read", !.world = shownWorld, !.tick = tick]
  /\ UNCHANGED <<moveWorlds, shownWorld, verdicts>>

\* One turn of the comprehension; the loop may tick between two of them.
ReadPosition ==
  /\ signer.phase = "read"
  /\ signer' = IF Len(signer.snapshot) = Movers
               THEN [signer EXCEPT !.phase = "sign", !.row = 1]
               ELSE [signer EXCEPT !.snapshot =
                       Append(@, moveWorlds[signer.world].at[Len(@) + 1])]
  /\ UNCHANGED <<moveWorlds, shownWorld, lastSigned, verdicts>>

SignRow ==
  /\ signer.phase = "sign"
  /\ signer' = [signer EXCEPT !.phase = "verify",
                             !.signature = <<signer.tick, signer.row, signer.snapshot[signer.row]>>]
  /\ UNCHANGED <<moveWorlds, shownWorld, lastSigned, verdicts>>

\* Fault: the position is read again for the verification.
VerifiedNodeNow == moveWorlds[signer.world].at[signer.row]

VerifiedNode == signer.snapshot[signer.row]

VerifyRow ==
  LET row == signer.row IN
  /\ signer.phase = "verify"
  /\ verdicts' = Append(verdicts, [agent |-> row, tick |-> signer.tick, world |-> signer.world,
                       ok |-> signer.signature = <<signer.tick, row, VerifiedNode>>])
  /\ signer' = IF row = Movers THEN Resting ELSE [signer EXCEPT !.phase = "sign", !.row = row + 1]
  /\ UNCHANGED <<moveWorlds, shownWorld, lastSigned>>

SigningNext ==
  MoveAgents \/ CountTick \/ ShowRestored \/ BeginSigning \/ ReadPosition \/ SignRow \/ VerifyRow

\* No move of the program itself is refused, wherever its agent goes between the signature
\* and the verification: nobody is blocked for having moved on.
OwnMovesVerify == \A i \in DOMAIN verdicts : verdicts[i].ok

\* No key signs two moves of one tick, not even of two moveWorlds that count the same ticks.
OneMovePerTick ==
  \A i, j \in DOMAIN verdicts :
    verdicts[i].agent = verdicts[j].agent /\ verdicts[i].tick = verdicts[j].tick => i = j

\* The signing pass harms nobody and equivocates never, although agents move while it runs and
\* a resume changes the world under it.
SigningSound == OwnMovesVerify /\ OneMovePerTick
=============================================================================
