------------------------------ MODULE Federated ------------------------------
(***************************************************************************)
(* Federated rounds of learning/federated.py as the program runs them: by  *)
(* the analytics loop on the event loop, and by POST /federated/round on a *)
(* worker thread, with the endpoints that start, stop and configure the    *)
(* trainer and the two events that are meant to restrain it.               *)
(*                                                                         *)
(* POST /federated/start builds a trainer object; trainers are numbered.   *)
(* A round keeps the object it was called on.  Calls are numbered too, and *)
(* the weights of a baseline are abstracted to the set of calls whose      *)
(* aggregate they contain.  Tensor operations release the interpreter      *)
(* lock, so other threads run between the reading of the baseline and the  *)
(* storing of the sum.  krum and trimmed_mean collect deltas as fedavg     *)
(* does; compression and FedProx change numbers only.                      *)
(***************************************************************************)
EXTENDS Naturals, Sequences, FiniteSets

CONSTANTS
    Agent,          \* keys of local_actors
    Barrable,       \* indices of agents and validators that block_agent is given
    Worker,         \* worker threads that run manual rounds
    MaxStarts,      \* bound: trainers built
    MaxRounds       \* bound: calls of step

ASSUME FederatedAssumption ==
    /\ Agent \subseteq Nat /\ IsFiniteSet(Agent) /\ MaxStarts \in Nat /\ MaxRounds \in Nat \ {0}
    /\ "loop" \notin Worker

VARIABLES
    current,        \* Orchestrator.federated_trainer: its number, 0 for None
    trainer,        \* the trainer objects built so far
    round,          \* per thread, the call of step it is in
    calls           \* history: calls of step

vars == <<current, trainer, round, calls>>

Thread == Worker \cup {"loop"}
Method == {"fedavg", "ckks_sum"}
Call == 1 .. MaxRounds

\* FederatedRound, with what was aggregated and who has been barred since the
\* gate.
Record == [round_id : Nat, aggregation_method : Method, call : Call,
           used : SUBSET Agent, barred : SUBSET Barrable]

Trainer ==
    [enabled : BOOLEAN, aggregation_method : Method, dp_noise : BOOLEAN,
     dp_blocked : BOOLEAN, blocked_agents : SUBSET Barrable, next_round_id : Nat,
     baseline : SUBSET Call, history : Seq(Record)]

\* A call of step: where it is, its trainer, the actors it has still to train
\* or to collect from, what it read and what it will record.
Round ==
    [at : {"idle", "gate", "train", "method", "collect", "add", "store", "number", "record"},
     trainer : 0 .. MaxStarts, todo : SUBSET Agent, read : SUBSET Call,
     record : Record]

NoRecord == [round_id |-> 0, aggregation_method |-> "fedavg", call |-> 1,
             used |-> {}, barred |-> {}]
Idle == [at |-> "idle", trainer |-> 0, todo |-> {}, read |-> {},
         record |-> NoRecord]

----------------------------------------------------------------------------
Init ==
    /\ current = 0 /\ trainer = <<>>
    /\ round = [t \in Thread |-> Idle] /\ calls = 0

\* The event loop serves requests while it is not in a round of its own.
LoopFree == round["loop"].at = "idle"

\* POST /federated/start: a new trainer replaces whatever there was.
federated_start(method) ==
    /\ LoopFree
    /\ Len(trainer) < MaxStarts
    /\ trainer' = Append(trainer,
            [enabled |-> TRUE, aggregation_method |-> method, dp_noise |-> FALSE,
             dp_blocked |-> FALSE, blocked_agents |-> {}, next_round_id |-> 0,
             baseline |-> {}, history |-> <<>>])
    /\ current' = Len(trainer) + 1
    /\ UNCHANGED <<round, calls>>

Configure(field, value) ==
    /\ LoopFree
    /\ current # 0
    /\ trainer' = [trainer EXCEPT ![current][field] = value]
    /\ UNCHANGED <<current, round, calls>>

\* POST /federated/stop, /federated/method and /federated/dp.
federated_stop == Configure("enabled", FALSE)
federated_set_method(method) == Configure("aggregation_method", method)
federated_dp(noise) == Configure("dp_noise", noise)

\* on_validator_slashed and on_agent_blocked, on the thread that drains the
\* bus: the trainer of the day bars the index that the event names.
BlockAgent(v) ==
    /\ trainer' = IF current = 0 THEN trainer
                  ELSE [trainer EXCEPT ![current].blocked_agents = @ \cup {v}]
    /\ UNCHANGED <<current, round, calls>>

\* _drain_pending_unblocks, on the event loop: the block of an agent has run
\* out.  Blocks and slashings share one set, and an agent that was slashed
\* can be blocked as well: whoever is barred may be released.
UnblockAgent(v) ==
    /\ LoopFree
    /\ current # 0
    /\ trainer' = [trainer EXCEPT ![current].blocked_agents = @ \ {v}]
    /\ round' = [t \in Thread |->
            IF round[t].trainer = current
            THEN [round[t] EXCEPT !.record.barred = @ \ {v}] ELSE round[t]]
    /\ UNCHANGED <<current, calls>>

\* on_dp_budget_exhausted: the trainer of the day is blocked.
BudgetExhausted ==
    /\ trainer' = IF current = 0 THEN trainer
                  ELSE [trainer EXCEPT ![current].dp_blocked = TRUE]
    /\ UNCHANGED <<current, round, calls>>

\* step is called, on the trainer of the day.
Call_step(t) ==
    /\ round[t].at = "idle"
    /\ current # 0
    /\ calls < MaxRounds
    /\ calls' = calls + 1
    /\ round' = [round EXCEPT ![t] = [Idle EXCEPT !.at = "gate", !.trainer = current,
                                                  !.record.call = calls + 1]]
    /\ UNCHANGED <<current, trainer>>

\* POST /federated/round hands the call to a worker thread.
ManualRound(t) == t \in Worker /\ LoopFree /\ Call_step(t)

\* _maybe_step_federated, on the event loop, at a tick divisible by 30.
MaybeStepFederated == current # 0 /\ trainer[current].enabled /\ Call_step("loop")

Of(t) == trainer[round[t].trainer]

\* step raises when the trainer is blocked and would train with noise.
Gate(t) ==
    /\ round[t].at = "gate"
    /\ round' = [round EXCEPT ![t] =
            IF Of(t).dp_blocked /\ Of(t).dp_noise THEN Idle
            ELSE [@ EXCEPT !.at = "train", !.todo = Agent,
                           !.record.barred = Of(t).blocked_agents]]
    /\ UNCHANGED <<current, trainer, calls>>

\* local_actors is iterated in the order of the agents.
First(todo) == {a \in todo : \A b \in todo : a <= b}

\* _train_local_actor for the next actor; what it does to the actor's weights
\* is seen in its delta only.
TrainLocalActor(t) ==
    /\ round[t].at = "train"
    /\ \E a \in First(round[t].todo) :
        round' = [round EXCEPT
            ![t].todo = @ \ {a},
            ![t].at = IF round[t].todo = {a} THEN "method" ELSE @]
    /\ UNCHANGED <<current, trainer, calls>>

\* The method is read when the local phase is over.
ChooseMethod(t) ==
    /\ round[t].at = "method"
    /\ round' = [round EXCEPT ![t].at = "collect", ![t].todo = Agent,
                    ![t].record.aggregation_method = Of(t).aggregation_method]
    /\ UNCHANGED <<current, trainer, calls>>

\* Fault: only those barred since the call count.
Barred_late(t, a) == a \in Of(t).blocked_agents \ round[t].record.barred

\* _collect_deltas puts zero for a blocked agent; _aggregate_ckks_sum takes
\* every actor's delta.
Barred(t, a) ==
    /\ round[t].record.aggregation_method # "ckks_sum"
    /\ a \in Of(t).blocked_agents

\* The delta of the next actor is collected.
CollectDelta(t) ==
    /\ round[t].at = "collect"
    /\ \E a \in First(round[t].todo) :
        round' = [round EXCEPT
            ![t].todo = @ \ {a},
            ![t].record.used = IF Barred(t, a) THEN @ ELSE @ \cup {a},
            ![t].at = IF round[t].todo = {a} THEN "add" ELSE @]
    /\ UNCHANGED <<current, trainer, calls>>

\* The baseline is read to add the aggregate to it ...
AddAggregate(t) ==
    /\ round[t].at = "add"
    /\ round' = [round EXCEPT ![t].at = "store", ![t].read = Of(t).baseline]
    /\ UNCHANGED <<current, trainer, calls>>

\* ... and the sum is stored and loaded into every local actor.
StoreBaseline(t) ==
    /\ round[t].at = "store"
    /\ trainer' = [trainer EXCEPT ![round[t].trainer].baseline =
                        round[t].read \cup {round[t].record.call}]
    /\ round' = [round EXCEPT ![t].at = "number", ![t].read = {}]
    /\ UNCHANGED <<current, calls>>

\* Fault: the round takes its number from the length of the history.
Number_by_history(t) ==
    /\ round[t].at = "number"
    /\ trainer' = [trainer EXCEPT ![round[t].trainer].next_round_id = @ + 1]
    /\ round' = [round EXCEPT ![t].at = "record", ![t].record.round_id = Len(Of(t).history)]
    /\ UNCHANGED <<current, calls>>

\* The round takes its number ...
Number(t) ==
    /\ round[t].at = "number"
    /\ trainer' = [trainer EXCEPT ![round[t].trainer].next_round_id = @ + 1]
    /\ round' = [round EXCEPT ![t].at = "record", ![t].record.round_id = Of(t).next_round_id]
    /\ UNCHANGED <<current, calls>>

\* ... and its record enters the history.
AppendRecord(t) ==
    /\ round[t].at = "record"
    /\ trainer' = [trainer EXCEPT ![round[t].trainer].history = Append(@, round[t].record)]
    /\ round' = [round EXCEPT ![t] = Idle]
    /\ UNCHANGED <<current, calls>>

Step(t) ==
    \/ Gate(t) \/ TrainLocalActor(t) \/ ChooseMethod(t) \/ CollectDelta(t)
    \/ AddAggregate(t) \/ StoreBaseline(t) \/ Number(t) \/ AppendRecord(t)

Next ==
    \/ \E method \in Method : federated_start(method) \/ federated_set_method(method)
    \/ federated_stop
    \/ \E noise \in BOOLEAN : federated_dp(noise)
    \/ \E v \in Barrable : BlockAgent(v) \/ UnblockAgent(v)
    \/ BudgetExhausted
    \/ \E t \in Worker : ManualRound(t)
    \/ MaybeStepFederated
    \/ \E t \in Thread : Step(t)

Spec == Init /\ [][Next]_vars

----------------------------------------------------------------------------
(* What the trainer promises.                                              *)

\* Every variable holds the kind of value the code keeps in it.
TypeOK ==
    /\ current \in 0 .. Len(trainer)
    /\ trainer \in Seq(Trainer) /\ Len(trainer) <= MaxStarts
    /\ round \in [Thread -> Round]
    /\ calls \in 0 .. MaxRounds

Ids(h) == {h[i].round_id : i \in DOMAIN h}
In(k) == {t \in Thread : round[t].at # "idle" /\ round[t].trainer = k}

\* The rounds in a trainer's history bear different numbers, and when none is
\* under way they are 0, 1, 2, ...: however the loop's rounds and the manual
\* ones overlap, none is recorded twice, under another's number or with
\* another trainer.
RoundsNumbered ==
    \A k \in DOMAIN trainer :
        LET h == trainer[k].history
        IN  /\ Cardinality(Ids(h)) = Len(h)
            /\ In(k) = {} => Ids(h) = 0 .. Len(h) - 1 /\ trainer[k].next_round_id = Len(h)

\* An aggregate of _collect_deltas contains no delta of an agent that its
\* trainer had barred when the round passed the gate and has not released
\* since, whatever is configured, barred or replaced while it runs.
BarredStayOut ==
    \A k \in DOMAIN trainer : \A i \in DOMAIN trainer[k].history :
        LET r == trainer[k].history[i]
        IN  r.aggregation_method = "fedavg" => r.used \cap r.barred = {}
==============================================================================
