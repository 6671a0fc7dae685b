---------------------------- MODULE MCAlgorithms ----------------------------
(***************************************************************************)
(* Every pure function that is modelled, called once with every input of   *)
(* its bounded set.  The families do not interact; they share a run because*)
(* they ask one question: does each function do what it is for?            *)
(***************************************************************************)
EXTENDS
  SecretSharing,
  GroupProtocols,
  Pairings,
  HashTrees,
  Garbling,
  MixNet,
  Defences,
  Routing,
  Aggregation,
  Charts,
  OperatorRules,
  Statistics,
  Learning

Trade(product, tick, price, quantity) == [product |-> product, tick |-> tick, price |-> price, quantity |-> quantity]
SomeTrades ==
  {Trade(1, 0, 5, 2), Trade(1, 1, 7, 1), Trade(1, 2, 6, 1), Trade(2, 0, 3, 4), Trade(2, 3, 4, 1), Trade(3, 1, 9, 1)}

Purchase(agent, tick, product, quantity) ==
  [agent |-> agent, tick |-> tick, product |-> product, quantity |-> quantity, price |-> 2 * quantity]
SomePurchases ==
  {Purchase(1, 0, 1, 1), Purchase(1, 0, 2, 2), Purchase(1, 1, 1, 1), Purchase(2, 0, 1, 3), Purchase(2, 1, 9, 1)}

SignedRewards == {-1, 0, 2}
SignedAdvantages == -2..2
SignedMeans == {-2, 0, 1, 2, 4}

Functions ==
  {"shamir", "beaver", "frost", "frostDemo", "ecdsa", "pedersen", "schnorr",
   "vrf", "vdf", "primality", "psi", "bbs", "bbsDemo", "kzg", "proofSize",
   "merkle", "fri", "millionaires", "gate", "lwe", "route", "suppression",
   "padding", "sizes", "fakes", "decoys", "routes", "twoopt", "or_tools",
   "robust", "compress", "ckks_sum", "clip", "export", "series", "numbered",
   "matrix", "leaders", "degrees", "names", "score", "diff", "status",
   "scenario_file", "candles", "economy", "wealth", "change_points",
   "cliff_delta", "risk", "bars", "gae", "surrogate", "train", "label",
   "reports"}

Init == CallsInit(Functions)

Next ==
  \/ CallShamir
  \/ CallBeaver
  \/ CallFrost
  \/ CallFrostDemo
  \/ CallEcdsa
  \/ CallPedersen
  \/ CallSchnorr
  \/ CallVrf
  \/ CallVdf
  \/ CallPrimality
  \/ CallPsi
  \/ CallBbs
  \/ CallBbsDemo
  \/ CallKzg
  \/ CallProofSize
  \/ CallMerkle
  \/ CallFri
  \/ CallMillionaires
  \/ CallGate
  \/ CallLwe
  \/ CallRoute
  \/ CallSuppression
  \/ CallPadding
  \/ CallSizes
  \/ CallFakes
  \/ CallDecoys
  \/ CallRoutes
  \/ CallTwoOpt
  \/ CallOrTools
  \/ CallRobust
  \/ CallCompress
  \/ CallCkksSum
  \/ CallClip
  \/ CallExport
  \/ CallSeries
  \/ CallNumbered
  \/ CallMatrix
  \/ CallLeaders
  \/ CallDegrees
  \/ CallNames
  \/ CallScore
  \/ CallDiff
  \/ CallStatus
  \/ CallScenarioFile
  \/ CallCandles
  \/ CallEconomy
  \/ CallWealth
  \/ CallChangePoints
  \/ CallCliffDelta
  \/ CallRisk
  \/ CallBars
  \/ CallGae
  \/ CallSurrogate
  \/ CallTrain
  \/ CallLabel
  \/ CallReports

Spec == Init /\ [][Next]_call

-----------------------------------------------------------------------------
\* For every secret, set of parties and input of a circuit: enough shares give the secret and fewer
\* fit every secret, a product and a signature of shares is that of the secrets, and a garbled or
\* encrypted gate gives the right bit through the one row that opens.
SecretsSound ==
  /\ ShamirThreshold /\ BeaverProduct /\ FrostThreshold /\ FrostDemoSound
  /\ EcdsaSignatureVerifies /\ ComparisonRight /\ OneRowOpens /\ HomomorphicGatesRight

\* For every witness, nonce and answer of the oracle: honest proofs are accepted, and no forger has an
\* answer to two challenges; a delay is exact, an intersection is the intersection, a disclosure and
\* an opening bind what they show.  For every list up to a length: a root stands for one list, a path
\* is accepted at its place only, a folded code accepts what is a polynomial and refuses it altered.
ProtocolsSound ==
  /\ PedersenHidesAndBinds /\ SchnorrProvesKnowledge /\ VrfUnique /\ VdfProofExact
  /\ PrimalityExact /\ IntersectionExact /\ BbsDisclosureBinds /\ BbsDemoOutcome
  /\ KzgOpeningExact /\ ProofSizeExact /\ RootBindsList /\ MembershipExact
  /\ FriFoldsThePolynomial /\ FriRefusesAltered

\* For every route, table and message: an onion goes the way it was wrapped for, exactly the rows that
\* hide in a crowd are released, padding comes off again, and decoys are as many as promised.
PrivacySound ==
  /\ OnionFollowsRoute /\ ReleasesAllThatIsAnonymous /\ ReleasesAllThatIsDiverse
  /\ PaddingReversible /\ SizesNotUnderstated /\ FakesCarryRealValues /\ DecoyRateMet

\* For every rollout: advantages are discounted, a policy gains nothing outside of its range, and
\* labels, checkpoints and news are those of what happened.
LearningSound ==
  /\ AdvantagesAreDiscounted /\ NoGainOutsideTheRange /\ EachStepOncePerEpoch
  /\ LastCheckpointIsFinal /\ LabelsAreShown /\ ImprovementsBeatSomeEarlier

\* For every snapshot and series of trades, balances and samples: tables keep rows and columns together,
\* names are distinct, totals add up, and a figure moves the way its definition asks for.
FiguresSound ==
  /\ OfferedChartsAreDrawn /\ SeriesStayAligned /\ AgentsKeepTheirNumbers
  /\ CellsAndLinesComplete /\ WinsAddUp /\ DegreesShakeHands /\ NamesDistinct
  /\ CandlesAddUp /\ BasketsHoldTheUnits /\ TransfersRaiseGini /\ SegmentsLongEnough
  /\ DeltaAntisymmetric /\ TailCostsMore /\ BarsDrawnToTheEdge

\* For every small map, order book and scenario: routes are cheapest and carry what fits, scores grow with
\* what they score, and a clause nobody can read decides nothing.
RulingsSound ==
  /\ DistancesShortest /\ GreedyServesWhatFits /\ TwoOptImproves /\ DropsOnlyWhatDoesNotFit
  /\ ScoreMonotone /\ DiffNoticesCounts /\ UnreadableDecidesNothing /\ SchemaGuardsTheLoader
=============================================================================
