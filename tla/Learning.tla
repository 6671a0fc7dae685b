------------------------------- MODULE Learning -------------------------------
(***************************************************************************)
(* What the trainers compute besides the networks: advantages, the clipped *)
(* objective, the use of a rollout and the checkpoints (learning/mappo.py, *)
(* training.py), the labels the federated actors imitate and the news of an*)
(* improved policy (transport/orchestrator.py).                            *)
(* The discount is one half, and lambda is given in halves.                *)
(***************************************************************************)
EXTENDS Calls

CONSTANTS
  StepRewards, StateValues, MaxRollout,   \* of a rollout
  RatioTenths, Advantages, ClipTenths,    \* the surrogate objective (0.2)
  Epochs, Batches, Iterations, SavePeriods,   \* how a rollout is used, and when it is saved
  Crossings, HopCosts, SlotsShown,        \* nodes, costs and NEIGHBOURS_K of an observation
  MeanRewards, MaxReports                 \* what the trainer reports

ASSUME LearningAssumption ==
  /\ {MaxRollout, MaxReports, ClipTenths, SlotsShown} \subseteq Nat
  /\ RatioTenths \cup Crossings \cup HopCosts \cup Iterations \subseteq Nat
  /\ Epochs \cup Batches \cup SavePeriods \subseteq Nat \ {0}
  /\ StepRewards \cup StateValues \cup Advantages \cup MeanRewards \subseteq Int

------------------------------------------------------------------------------
\* MAPPO.compute_gae.  Figures are multiples of 1/Unit, so that halves are exact.

Unit == 4 ^ MaxRollout

\* Fault: the value of the state itself stands for the next one's.
GaeStepStale(s, r, v, lambda) ==
  LET delta == r + v \div 2 - v  gae == delta + (lambda * s.gae) \div 4
  IN  [gae |-> gae, next |-> v, found |-> <<gae>> \o s.found]

GaeStep(s, r, v, lambda) ==
  LET delta == r + s.next \div 2 - v  gae == delta + (lambda * s.gae) \div 4
  IN  [gae |-> gae, next |-> v, found |-> <<gae>> \o s.found]

\* From the last step to the first.
Gae(rewards, values, last, lambda) ==
  FoldRight(LAMBDA t, s : GaeStep(s, Unit * rewards[t], Unit * values[t], lambda), [t \in DOMAIN rewards |-> t],
            [gae |-> 0, next |-> Unit * last, found |-> <<>>]).found

CallGae ==
  /\ Calling("gae")
  /\ \E n \in 0..MaxRollout, lambda \in 0..2, last \in StateValues :
     \E rewards \in [1..n -> StepRewards], values \in [1..n -> StateValues] :
       Answer("gae", [rewards |-> rewards, values |-> values, last |-> last, lambda |-> lambda],
              Gae(rewards, values, last, lambda))

\* MAPPO.update: the objective of a sample, in tenths.

\* Fault: the larger of the two.
SurrogateBold(ratio, advantage) ==
  Larger(ratio * advantage, Clamp(ratio, 10 - ClipTenths, 10 + ClipTenths) * advantage)

Surrogate(ratio, advantage) ==
  Smaller(ratio * advantage, Clamp(ratio, 10 - ClipTenths, 10 + ClipTenths) * advantage)

CallSurrogate ==
  /\ Calling("surrogate")
  /\ \E ratio \in RatioTenths, advantage \in Advantages :
       Answer("surrogate", [ratio |-> ratio, advantage |-> advantage], Surrogate(ratio, advantage))

------------------------------------------------------------------------------
\* train and MAPPO.update: which steps of the environment the minibatches hold.

\* Fault: only full minibatches are used.
MinibatchesFull(order, size) ==
  [k \in 1..(Len(order) \div size) |-> SubSeq(order, (k - 1) * size + 1, k * size)]

Minibatches(order, size) ==
  [k \in 1..((Len(order) + size - 1) \div size) |->
     SubSeq(order, (k - 1) * size + 1, Smaller(k * size, Len(order)))]

\* An update: each epoch shuffles the rollout.
Update(first, orders, size) ==
  FlattenSeq([e \in DOMAIN orders |->
    MapSeq(LAMBDA batch : MapSeq(LAMBDA i : first + i, batch), Minibatches(orders[e], size))])

\* Fault: the policy after the last iteration is not saved.
SavesPeriodic(n, every) == SelectSeq([i \in 1..n |-> i], LAMBDA i : i % every = 0)
Saves(n, every) == Append(SavesPeriodic(n, every), n)

\* A rollout goes on where the one before it stopped.
CallTrain ==
  /\ Calling("train")
  /\ \E n \in Iterations, length \in 0..MaxRollout, size \in Batches, epochs \in Epochs, every \in SavePeriods :
     \E orders \in [1..epochs -> {p \in [1..length -> 1..length] : IsInjective(p)}] :
       Answer("train", [n |-> n, length |-> length, epochs |-> epochs],
              [batches |-> [i \in 1..n |-> Update((i - 1) * length, orders, size)], saves |-> Saves(n, every)])

------------------------------------------------------------------------------
\* Orchestrator._maybe_ingest_federated.  costs: of the edges to the neighbours; slots are
\* numbered from 0, and the number SlotsShown means to stay.

ByNumber(S) == SetToSortSeq(S, LAMBDA a, b : a < b)
FirstCheapest(S, cost) == CHOOSE i \in S : \A j \in S : cost[i] < cost[j] \/ (cost[i] = cost[j] /\ i <= j)

\* Fault: the cheapest of all neighbours, shown or not.
FallbackSlotsAll(near) == DOMAIN near
FallbackSlots(near) == DOMAIN near \cap 1..SlotsShown

Label(costs, goals) ==
  LET near == ByNumber(DOMAIN costs)
      cost == [i \in DOMAIN near |-> costs[near[i]]]
      inSight == {i \in DOMAIN near \cap 1..SlotsShown : near[i] \in goals}
  IN  IF near = <<>> THEN SlotsShown
      ELSE FirstCheapest(IF inSight # {} THEN inSight ELSE FallbackSlots(near), cost) - 1

CallLabel ==
  /\ Calling("label")
  /\ \E near \in SUBSET Crossings, goals \in SUBSET Crossings : \E costs \in [near -> HopCosts] :
       Answer("label", [costs |-> costs, goals |-> goals], Label(costs, goals))

------------------------------------------------------------------------------
\* Orchestrator.on_policy_updated.  A report is a number, not finite, or no number at all; the
\* baseline, a multiple of 1/Fifths, is unknown at first and after what is not finite.

Fifths == 5 ^ MaxReports

\* Fault: what was known is forgotten at every report.
AveragedAnew(reward, baseline) == reward \div 5
Averaged(reward, baseline) == (reward + 4 * baseline) \div 5

\* The comparison comes first, with one and a half times the baseline.
Reported(s, report) ==
  LET reward == Fifths * report.value
      news == s.known /\ s.baseline # 0 /\ 2 * reward > 3 * s.baseline
  IN  CASE report.kind = "text" -> [s EXCEPT !.told = Append(@, FALSE)]
        [] report.kind = "nan" -> [s EXCEPT !.told = Append(@, FALSE), !.known = FALSE]
        [] OTHER -> [known |-> TRUE, told |-> Append(s.told, news),
                     baseline |-> IF s.known THEN Averaged(reward, s.baseline) ELSE reward]

Reports == [kind : {"number"}, value : MeanRewards] \cup [kind : {"nan", "text"}, value : {0}]

CallReports ==
  /\ Calling("reports")
  /\ \E reports \in SeqsUpTo(Reports, MaxReports) :
       Answer("reports", reports,
              FoldLeft(Reported, [known |-> FALSE, baseline |-> 0, told |-> <<>>], reports).told)

------------------------------------------------------------------------------
\* An advantage is the sum of the temporal differences from its step on, discounted by gamma
\* and lambda; with lambda one, advantage and value together are the discounted rewards.
AdvantagesAreDiscounted ==
  Answered("gae") =>
    LET in == call.in  n == Len(in.rewards)
        Value(t) == IF t > n THEN in.last ELSE in.values[t]
        Weight(e) == IF e = 0 THEN 1 ELSE in.lambda ^ e
        \* twice the temporal difference
        Delta(t) == 2 * in.rewards[t] + Value(t + 1) - 2 * Value(t)
    IN  \A t \in 1..n :
          /\ 2 * call.out[t] * 4 ^ n
               = Unit * SumSeq([k \in 1..n |-> IF k < t THEN 0 ELSE Delta(k) * Weight(k - t) * 4 ^ (n - (k - t))])
          /\ in.lambda = 2 =>
               (call.out[t] + Unit * in.values[t]) * 2 ^ n
                 = Unit * SumSeq([k \in 1..(n + 1) |->
                     IF k < t THEN 0 ELSE 2 ^ (n - (k - t)) * (IF k > n THEN in.last ELSE in.rewards[k])])

\* Moving a probability beyond the clipping range in the favoured direction gains nothing, and
\* moving it the wrong way is never hidden by the clipping.
NoGainOutsideTheRange ==
  Answered("surrogate") =>
    LET in == call.in  low == 10 - ClipTenths  high == 10 + ClipTenths IN
    call.out = IF in.advantage > 0 /\ in.ratio > high THEN high * in.advantage
               ELSE IF in.advantage < 0 /\ in.ratio < low THEN low * in.advantage
               ELSE in.ratio * in.advantage

\* Over a training, every step of the environment is learnt from exactly once in each epoch of
\* its own iteration, and in no other.
EachStepOncePerEpoch ==
  Answered("train") =>
    \A i \in 1..call.in.n :
      LET used == FlattenSeq(call.out.batches[i]) IN
      /\ Len(used) = call.in.epochs * call.in.length
      /\ \A step \in 1..(call.in.n * call.in.length) :
           Cardinality({k \in DOMAIN used : used[k] = step})
             = (IF (i - 1) * call.in.length < step /\ step <= i * call.in.length THEN call.in.epochs ELSE 0)

\* Whatever the period, the checkpoint that is left is that of the last iteration.
LastCheckpointIsFinal ==
  Answered("train") => call.out.saves # <<>> /\ Last(call.out.saves) = call.in.n

\* A label is a neighbour that the observation shows, or to stay where there is none; it is the
\* cheapest goal that is shown, if any.
LabelsAreShown ==
  Answered("label") =>
    LET near == ByNumber(DOMAIN call.in.costs)
        shown == {i \in DOMAIN near : i <= SlotsShown}
        goals == {i \in shown : near[i] \in call.in.goals}
    IN  IF near = <<>> THEN call.out = SlotsShown
        ELSE /\ call.out + 1 \in shown /\ (goals # {} => call.out + 1 \in goals)
             /\ \A i \in IF goals # {} THEN goals ELSE shown :
                  call.in.costs[near[call.out + 1]] <= call.in.costs[near[i]]

\* Of rewards that are not negative, one is announced as an improvement only if it is more than
\* one and a half times some reward before it.  (A steady negative reward is announced again
\* and again: half as much again of it is less.)
ImprovementsBeatSomeEarlier ==
  Answered("reports") =>
    LET Number(i) == call.in[i].kind = "number" IN
    (\A i \in DOMAIN call.in : call.in[i].value >= 0) =>
      \A i \in DOMAIN call.in :
        call.out[i] => \E j \in 1..i - 1 : Number(j) /\ 2 * call.in[i].value > 3 * call.in[j].value
=============================================================================
