------------------------------ MODULE LiveTraining ------------------------------
(***************************************************************************)
(* The background trainer (learning/live_trainer.py): a task on the event  *)
(* loop that runs one iteration after the other in a worker thread.  In an *)
(* iteration the environment's shaper (learning/logistics_shaper.py) pays  *)
(* the carriers of the live mempool, which the loop fills meanwhile        *)
(* (core/logistics.py).  The application's lifespan cancels the task       *)
(* (transport/api.py).  Deliveries are numbered.                           *)
(***************************************************************************)
EXTENDS Maps

CONSTANTS
  RewardCap, HistoryMax,            \* maxlen of recent_carrier_rewards and of history
  MaxDeliveries, MaxIterations      \* bounds

ASSUME LiveTrainingAssumption ==
  /\ {RewardCap, HistoryMax} \subseteq Nat \ {0}
  /\ {MaxDeliveries, MaxIterations} \subseteq Nat

VARIABLES
  app,         \* the lifespan: "up", or "down" with the parts it has stopped
  task,        \* the trainer's task: "none", "paused", "waiting" for its thread, "cancelled"
  enabled, iteration, history,      \* LiveTrainer
  thread,      \* the worker thread: where it is, and what the shaper has read
  mempool,     \* the deliveries: the total and the latest
  delivering,  \* the loop is between appending a delivery and counting it
  consumed, credited,   \* LogisticsRewardShaper: the count paid for, and the deliveries paid
  raced        \* history: a delivery fell into a step of the shaper

trainingVars == <<app, task, enabled, iteration, history, thread, mempool, delivering, consumed, credited, raced>>

Out == [at |-> "out", take |-> 0]

TrainingInit ==
  /\ app = [up |-> TRUE, orchestratorStopped |-> FALSE, loopStopped |-> FALSE]
  /\ task = "none" /\ enabled = FALSE /\ iteration = 0 /\ history = <<>> /\ thread = Out
  /\ mempool = [total |-> 0, recent |-> <<>>] /\ delivering = FALSE
  /\ consumed = 0 /\ credited = <<>> /\ raced = FALSE

\* The loop runs a handler: it is not inside another one.
LoopRuns == app.up /\ ~delivering

TrainerVars == <<iteration, history, thread, consumed, credited>>

\* Fault: starting again makes another task.
StartAgain ==
  /\ LoopRuns
  /\ enabled' = TRUE /\ task' = "paused"
  /\ UNCHANGED <<app, TrainerVars, mempool, delivering, raced>>

StartTraining ==
  /\ LoopRuns
  /\ enabled' = TRUE /\ task' = IF task = "none" THEN "paused" ELSE task
  /\ UNCHANGED <<app, TrainerVars, mempool, delivering, raced>>

StopTraining ==
  /\ LoopRuns
  /\ enabled' = FALSE
  /\ UNCHANGED <<app, task, TrainerVars, mempool, delivering, raced>>

BeginIteration ==
  /\ LoopRuns /\ task = "paused" /\ enabled
  /\ iteration < MaxIterations
  /\ task' = "waiting" /\ thread' = IF thread.at = "out" THEN [thread EXCEPT !.at = "rollout"] ELSE thread
  /\ UNCHANGED <<app, enabled, iteration, history, mempool, delivering, consumed, credited, raced>>

\* Fault: every delivery in the deque is paid.
NewRewardsAll == Len(mempool.recent)

\* The deliveries since the last step, of those that are still in the deque.
NewRewards ==
  LET new == IF mempool.total > consumed THEN mempool.total - consumed ELSE 0 IN
  IF new < Len(mempool.recent) THEN new ELSE Len(mempool.recent)

\* _apply_dispatch_bonus reads the count, and advances its own,
ShaperCounts ==
  /\ thread.at = "rollout"
  /\ thread' = [at |-> IF NewRewards = 0 THEN "rollout" ELSE "tail", take |-> NewRewards]
  /\ consumed' = mempool.total
  /\ raced' = (raced \/ delivering)
  /\ UNCHANGED <<app, task, enabled, iteration, history, mempool, delivering, credited>>

\* Fault: the oldest entries of the deque are paid.
TailOldest(recent, n) == SubSeq(recent, 1, n)

Tail_n(recent, n) == SubSeq(recent, Len(recent) - n + 1, Len(recent))

\* and then pays the latest entries.
ShaperPays ==
  /\ thread.at = "tail"
  /\ credited' = credited \o Tail_n(mempool.recent, thread.take)
  /\ thread' = [thread EXCEPT !.at = "rollout"]
  /\ UNCHANGED <<app, task, enabled, iteration, history, mempool, delivering, consumed, raced>>

\* Fault: the number is read after the history is written.
SampleEarly == iteration

Sample == iteration + 1

\* The end of _one_iteration in the thread.
FinishIteration ==
  /\ thread.at = "rollout"
  /\ thread' = [thread EXCEPT !.at = "done"]
  /\ iteration' = iteration + 1
  /\ history' = AppendBounded(history, Sample, HistoryMax)
  /\ UNCHANGED <<app, task, enabled, mempool, delivering, consumed, credited, raced>>

\* The iteration raises.
FailIteration ==
  /\ thread.at = "rollout"
  /\ thread' = [thread EXCEPT !.at = "failed"]
  /\ UNCHANGED <<app, task, enabled, iteration, history, mempool, delivering, consumed, credited, raced>>

\* The task learns of the end of its thread.
ThreadJoined ==
  /\ LoopRuns /\ task = "waiting" /\ thread.at \in {"done", "failed"}
  /\ task' = "paused" /\ thread' = Out
  /\ enabled' = (enabled /\ thread.at = "done")
  /\ UNCHANGED <<app, iteration, history, mempool, delivering, consumed, credited, raced>>

\* LogisticsMempool.fulfil of a carrier: append, then count.
AppendReward ==
  /\ LoopRuns /\ mempool.total < MaxDeliveries
  /\ mempool' = [mempool EXCEPT !.recent = AppendBounded(@, mempool.total + 1, RewardCap)]
  /\ delivering' = TRUE
  /\ raced' = (raced \/ thread.at = "tail")
  /\ UNCHANGED <<app, task, enabled, TrainerVars>>

CountReward ==
  /\ delivering
  /\ mempool' = [mempool EXCEPT !.total = @ + 1]
  /\ delivering' = FALSE
  /\ UNCHANGED <<app, task, enabled, TrainerVars, raced>>

\* Fault: the cancelled trainer keeps nothing from being stopped, and an idle one does.
StoppedPartsSwapped(awaited) == [up |-> FALSE, orchestratorStopped |-> awaited, loopStopped |-> awaited]

\* Awaiting the cancelled task raises CancelledError, which suppress(Exception) lets through:
\* the orchestrator and the loop are then not stopped.
StoppedParts(awaited) == [up |-> FALSE, orchestratorStopped |-> ~awaited, loopStopped |-> ~awaited]

\* The end of the lifespan.  A thread cannot be cancelled.
Shutdown ==
  /\ LoopRuns
  /\ app' = StoppedParts(task # "none")
  /\ enabled' = FALSE
  /\ task' = IF task = "none" THEN "none" ELSE "cancelled"
  /\ UNCHANGED <<TrainerVars, mempool, delivering, raced>>

TrainingNext ==
  \/ StartTraining \/ StopTraining \/ BeginIteration \/ ThreadJoined \/ Shutdown
  \/ ShaperCounts \/ ShaperPays \/ FinishIteration \/ FailIteration
  \/ AppendReward \/ CountReward

------------------------------------------------------------------------------
\* One iteration at a time: the task waits for exactly the thread that runs, so two iterations
\* never share the environment; only a cancelled task leaves its thread behind.
OneIterationAtATime ==
  /\ app.up => (task = "waiting" <=> thread.at # "out")
  /\ thread.at # "out" => task \in {"waiting", "cancelled"}

\* The curve has no gap and no repetition, and ends with the iteration that ended last.
CurveIsConsecutive ==
  \A i \in DOMAIN history : history[i] = iteration - Len(history) + i

\* The shaper never pays more often than there were deliveries, even if deliveries fall
\* between its reading the count and its reading the deque.
NoMoreCreditsThanDeliveries ==
  Len(credited) + (IF thread.at = "tail" THEN thread.take ELSE 0) <= mempool.total

\* If none does, every delivery is paid at most once and in order, and all that fitted the
\* deque are paid.
EachDeliveryPaidOnce ==
  ~raced =>
    /\ \A i, j \in DOMAIN credited : i < j => credited[i] < credited[j]
    /\ consumed <= RewardCap /\ thread.at # "tail" => Len(credited) = consumed

\* The lifespan stops the orchestrator and the loop, unless training was ever started.
IdleTrainerStopsCleanly ==
  ~app.up => (app.orchestratorStopped /\ app.loopStopped <=> task = "none")

\* However training is started, stopped, cancelled and raises: iterations do not overlap, their
\* curve has no gap, the shaper pays for no delivery twice, and shutting down an idle trainer
\* shuts down everything.
TrainingSound ==
  /\ OneIterationAtATime /\ CurveIsConsecutive
  /\ NoMoreCreditsThanDeliveries /\ EachDeliveryPaidOnce /\ IdleTrainerStopsCleanly
=============================================================================
