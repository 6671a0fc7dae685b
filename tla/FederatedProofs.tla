--------------------------- MODULE FederatedProofs ----------------------------
(***************************************************************************)
(* Theorems about Federated, for every set of agents and worker threads    *)
(* and every number of trainers and rounds.                                *)
(*                                                                         *)
(* Neither property is inductive.  BarredStayOut speaks of the history,    *)
(* and holds because a round under way already has what it needs: nothing  *)
(* is used before the method is chosen, and whom it found barred its       *)
(* trainer still bars (Restrained).  RoundsNumbered needs the numbers that *)
(* were taken and not yet recorded: with those in the history they are an  *)
(* initial stretch of the naturals, each given once (Numbered).            *)
(*                                                                         *)
(* From Ascending on, theorems about Aggregation, for every number of      *)
(* agents, of deviating ones and of slots in a ciphertext: the arithmetic  *)
(* a round applies to the updates.  A sort is a numbering of the entries   *)
(* by rank and a total is a fold, so the lemmas before each theorem say    *)
(* what ranks, totals, distances, sizes and chunks are; AggregationSound   *)
(* then follows call by call.                                              *)
(***************************************************************************)
EXTENDS Federated, Aggregation, SetSums, SequenceTheorems, FiniteSetTheorems, TLAPS

\* A round under way belongs to a trainer that was built.
Placed == \A t \in Thread : round[t].at # "idle" => round[t].trainer \in DOMAIN trainer

\* What a round has used so far, and whom it may not use.
RestrainedAt(t) ==
    /\ round[t].at \in {"idle", "gate", "train", "method"} => round[t].record.used = {}
    /\ round[t].at \in {"idle", "gate"} => round[t].record.barred = {}
    /\ round[t].at # "idle" => round[t].record.barred \subseteq Of(t).blocked_agents
    /\ round[t].record.aggregation_method = "fedavg" =>
            round[t].record.used \cap round[t].record.barred = {}
Restrained == \A t \in Thread : RestrainedAt(t)

\* The rounds of a trainer that have a number and are not recorded.
Recording(k) == {t \in Thread : round[t].at = "record" /\ round[t].trainer = k}
Taken(k) == {round[t].record.round_id : t \in Recording(k)}

\* Recorded and taken numbers are all different and have no gap.
NumberedFor(k) ==
    LET h == trainer[k].history
    IN  /\ \A i, j \in DOMAIN h : i # j => h[i].round_id # h[j].round_id
        /\ \A s, t \in Recording(k) : s # t => round[s].record.round_id # round[t].record.round_id
        /\ \A t \in Recording(k) : \A i \in DOMAIN h : round[t].record.round_id # h[i].round_id
        /\ Ids(h) \cup Taken(k) = 0 .. trainer[k].next_round_id - 1
Numbered == \A k \in DOMAIN trainer : NumberedFor(k)

IInv == TypeOK /\ Placed /\ Restrained /\ BarredStayOut /\ Numbered

----------------------------------------------------------------------------
(* Types.                                                                  *)

\* What the fields of a record are.
LEMMA RecordType ==
    ASSUME NEW r \in Record
    PROVE  /\ r.round_id \in Nat /\ r.aggregation_method \in Method /\ r.call \in Call
           /\ r.used \subseteq Agent /\ r.barred \subseteq Barrable
           /\ \A n \in Nat : [r EXCEPT !.round_id = n] \in Record
           /\ \A m \in Method : [r EXCEPT !.aggregation_method = m] \in Record
           /\ \A U \in SUBSET Agent : [r EXCEPT !.used = U] \in Record
           /\ \A B \in SUBSET Barrable : [r EXCEPT !.barred = B] \in Record
  BY DEF Record

\* What the fields of a round are.
LEMMA RoundType ==
    ASSUME TypeOK, NEW t \in Thread
    PROVE  /\ round[t] \in Round /\ round[t].trainer \in 0 .. MaxStarts
           /\ round[t].todo \subseteq Agent /\ round[t].read \subseteq Call
           /\ round[t].record \in Record
  BY DEF TypeOK, Round

\* What the fields of a trainer are.
LEMMA TrainerType ==
    ASSUME TypeOK, NEW k \in DOMAIN trainer
    PROVE  /\ trainer[k] \in Trainer
           /\ trainer[k].blocked_agents \subseteq Barrable /\ trainer[k].next_round_id \in Nat
           /\ trainer[k].baseline \subseteq Call /\ trainer[k].history \in Seq(Record)
           /\ trainer[k].aggregation_method \in Method
<1>1. trainer \in Seq(Trainer)
  BY DEF TypeOK
<1>2. trainer[k] \in Trainer
  <2> HIDE DEF Trainer
  <2> QED BY <1>1
<1> QED BY <1>2 DEF Trainer

\* A round that is not under way is a round.
LEMMA IdleType == NoRecord \in Record /\ Idle \in Round
<1>1. NoRecord \in Record
  BY FederatedAssumption DEF NoRecord, Record, Method, Call
<1> QED BY <1>1, FederatedAssumption DEF Idle, Round

----------------------------------------------------------------------------
(* What a step leaves alone.                                               *)

\* A thread's round changes.
LEMMA RoundChanged ==
    ASSUME TypeOK, NEW t \in Thread, NEW r \in Round, round' = [round EXCEPT ![t] = r]
    PROVE  /\ round' \in [Thread -> Round] /\ round'[t] = r
           /\ \A s \in Thread \ {t} : round'[s] = round[s]
<1>1. round \in [Thread -> Round]
  BY DEF TypeOK
<1> HIDE DEF Round
<1> QED BY <1>1

\* A trainer changes.
LEMMA TrainerChanged ==
    ASSUME TypeOK, NEW k \in DOMAIN trainer, NEW u \in Trainer,
           trainer' = [trainer EXCEPT ![k] = u]
    PROVE  /\ trainer' \in Seq(Trainer) /\ Len(trainer') = Len(trainer)
           /\ DOMAIN trainer' = DOMAIN trainer /\ trainer'[k] = u
           /\ \A j \in DOMAIN trainer \ {k} : trainer'[j] = trainer[j]
<1>1. trainer \in Seq(Trainer)
  BY DEF TypeOK
<1> HIDE DEF Trainer
<1> QED BY <1>1

\* The histories stay as they are.
LEMMA HistoryKept ==
    ASSUME BarredStayOut, DOMAIN trainer' = DOMAIN trainer,
           \A k \in DOMAIN trainer : trainer'[k].history = trainer[k].history
    PROVE  BarredStayOut'
  BY DEF BarredStayOut

\* No number is taken or recorded.
LEMMA NumbersKept ==
    ASSUME Numbered, DOMAIN trainer' = DOMAIN trainer,
           \A k \in DOMAIN trainer : /\ trainer'[k].history = trainer[k].history
                                     /\ trainer'[k].next_round_id = trainer[k].next_round_id,
           \A t \in Thread :
                /\ round'[t].at = "record" <=> round[t].at = "record"
                /\ round[t].at = "record" => /\ round'[t].trainer = round[t].trainer
                                             /\ round'[t].record.round_id = round[t].record.round_id
    PROVE  Numbered'
<1> SUFFICES ASSUME NEW k \in DOMAIN trainer PROVE NumberedFor(k)'
  BY DEF Numbered
<1>1. NumberedFor(k)
  BY DEF Numbered
<1>2. Recording(k)' = Recording(k)
  BY DEF Recording
<1>3. \A t \in Recording(k) : round'[t].record.round_id = round[t].record.round_id
  BY DEF Recording
<1>4. Taken(k)' = Taken(k)
  BY <1>2, <1>3 DEF Taken
<1>5. trainer'[k].history = trainer[k].history /\ trainer'[k].next_round_id = trainer[k].next_round_id
  OBVIOUS
<1> QED BY <1>1, <1>2, <1>3, <1>4, <1>5 DEF NumberedFor, Ids

\* A thread whose round stays as it is stays restrained, as long as its trainer releases nobody.
LEMMA RestrainedKept ==
    ASSUME Placed, NEW t \in Thread, RestrainedAt(t), round'[t] = round[t],
           \A k \in DOMAIN trainer : trainer[k].blocked_agents \subseteq trainer'[k].blocked_agents
    PROVE  RestrainedAt(t)'
  BY DEF Placed, RestrainedAt, Of

\* A step of one round before it has a number.
LEMMA RoundStep ==
    ASSUME IInv, NEW t \in Thread, NEW r \in Round, round' = [round EXCEPT ![t] = r],
           trainer' = trainer, current' = current, calls' \in 0 .. MaxRounds,
           r.at # "record", round[t].at # "record",
           r.at # "idle" => r.trainer \in DOMAIN trainer,
           RestrainedAt(t)'
    PROVE  IInv'
<1>1. /\ round' \in [Thread -> Round] /\ round'[t] = r
      /\ \A s \in Thread \ {t} : round'[s] = round[s]
  BY RoundChanged DEF IInv
<1>2. TypeOK'
  BY <1>1 DEF IInv, TypeOK
<1>3. Placed'
  BY <1>1 DEF IInv, Placed
<1>4. Restrained'
  <2>1. \A s \in Thread \ {t} : RestrainedAt(s)'
    BY <1>1, RestrainedKept DEF IInv, Restrained
  <2> QED BY <2>1 DEF Restrained
<1>5. BarredStayOut'
  BY HistoryKept DEF IInv
<1>6. Numbered'
  BY <1>1, NumbersKept DEF IInv
<1> QED BY <1>2, <1>3, <1>4, <1>5, <1>6 DEF IInv

----------------------------------------------------------------------------
(* The steps of a round up to its number.                                  *)

\* A call of run_round takes the trainer that is current.
LEMMA CallStep ==
    ASSUME IInv, NEW t \in Thread, Call_step(t)
    PROVE  IInv'
<1> DEFINE r == [Idle EXCEPT !.at = "gate", !.trainer = current, !.record.call = calls + 1]
<1>1. current \in DOMAIN trainer /\ current \in 0 .. MaxStarts /\ calls + 1 \in Call
  BY FederatedAssumption DEF IInv, TypeOK, Call_step, Call
<1>2. /\ r \in Round /\ r.at = "gate" /\ r.trainer = current
      /\ r.record.used = {} /\ r.record.barred = {}
  BY <1>1, IdleType DEF Idle, NoRecord, Round, Record
<1>3. round' = [round EXCEPT ![t] = r] /\ round'[t] = r
  BY <1>2, RoundChanged DEF Call_step, IInv
<1>4. RestrainedAt(t)'
  BY <1>2, <1>3 DEF RestrainedAt
<1>5. calls' \in 0 .. MaxRounds /\ round[t].at = "idle" /\ UNCHANGED <<current, trainer>>
  BY FederatedAssumption DEF IInv, TypeOK, Call_step
<1> HIDE DEF r
<1> QED BY <1>1, <1>2, <1>3, <1>4, <1>5, RoundStep

\* The gate reads who is barred.
LEMMA GateStep ==
    ASSUME IInv, NEW t \in Thread, Gate(t)
    PROVE  IInv'
<1>1. TypeOK /\ RestrainedAt(t) /\ round[t].at = "gate" /\ Of(t) = trainer[round[t].trainer]
  BY DEF IInv, Restrained, Gate, Of
<1>2. round[t].trainer \in DOMAIN trainer /\ Of(t).blocked_agents \subseteq Barrable
  BY <1>1, TrainerType DEF IInv, Placed
<1>3. UNCHANGED <<current, trainer, calls>> /\ calls' \in 0 .. MaxRounds
  BY <1>1 DEF Gate, TypeOK
<1>4. CASE Of(t).dp_blocked /\ Of(t).dp_noise
  <2>1. round' = [round EXCEPT ![t] = Idle]
    BY <1>4 DEF Gate
  <2>2. round'[t] = Idle
    BY <1>1, <2>1, IdleType, RoundChanged
  <2>3. RestrainedAt(t)'
    BY <2>2 DEF RestrainedAt, Idle, NoRecord
  <2>4. Idle.at = "idle"
    BY DEF Idle
  <2> QED BY <1>1, <1>3, <2>1, <2>3, <2>4, IdleType, RoundStep
<1>5. CASE ~(Of(t).dp_blocked /\ Of(t).dp_noise)
  <2> DEFINE r == [round[t] EXCEPT !.at = "train", !.todo = Agent,
                                   !.record.barred = Of(t).blocked_agents]
  <2>1. round' = [round EXCEPT ![t] = r]
    BY <1>5 DEF Gate
  <2>2. /\ r \in Round /\ r.at = "train" /\ r.trainer = round[t].trainer
        /\ r.record.barred = Of(t).blocked_agents /\ r.record.used = round[t].record.used
    <3> DEFINE barred == Of(t).blocked_agents
               record == [round[t].record EXCEPT !.barred = barred]
    <3>1. round[t] \in Round /\ round[t].record \in Record /\ barred \in SUBSET Barrable
      BY <1>1, <1>2, RoundType
    <3> HIDE DEF barred
    <3>2. record \in Record /\ record.barred = barred /\ record.used = round[t].record.used
      BY <3>1 DEF Record
    <3>3. r = [round[t] EXCEPT !.at = "train", !.todo = Agent, !.record = record]
      BY <3>1 DEF Round, barred
    <3> HIDE DEF record, r
    <3>4. r \in Round /\ r.at = "train" /\ r.trainer = round[t].trainer /\ r.record = record
      BY <3>1, <3>2, <3>3 DEF Round
    <3> QED
      BY <3>2, <3>4 DEF barred
  <2>3. round'[t] = r
    BY <1>1, <2>1, <2>2, RoundChanged
  <2>4. RestrainedAt(t)'
    BY <1>1, <1>3, <2>2, <2>3 DEF RestrainedAt, Of
  <2> HIDE DEF r
  <2> QED BY <1>1, <1>2, <1>3, <2>1, <2>2, <2>4, RoundStep
<1> QED BY <1>4, <1>5

\* A step of a round that changes neither its record nor its trainer.
LEMMA OwnStep ==
    ASSUME IInv, NEW t \in Thread, NEW r \in Round, round' = [round EXCEPT ![t] = r],
           UNCHANGED <<current, trainer, calls>>,
           round[t].at \in {"train", "collect", "add"},
           r.at \in {"train", "method", "collect", "add", "store"},
           round[t].at = "train" <=> r.at \in {"train", "method"},
           r.trainer = round[t].trainer, r.record = round[t].record
    PROVE  IInv'
<1>1. TypeOK /\ RestrainedAt(t) /\ round[t].trainer \in DOMAIN trainer
  BY DEF IInv, Restrained, Placed
<1>2. round'[t] = r
  BY <1>1, RoundChanged
<1>3. RestrainedAt(t)'
  BY <1>1, <1>2 DEF RestrainedAt, Of
<1>4. calls' \in 0 .. MaxRounds
  BY <1>1 DEF TypeOK
<1> QED BY <1>1, <1>3, <1>4, RoundStep

\* Local training takes one agent after the other.
LEMMA TrainStep ==
    ASSUME IInv, NEW t \in Thread, TrainLocalActor(t)
    PROVE  IInv'
<1>1. PICK a \in First(round[t].todo) :
        round' = [round EXCEPT
            ![t].todo = @ \ {a},
            ![t].at = IF round[t].todo = {a} THEN "method" ELSE @]
  BY DEF TrainLocalActor
<1> DEFINE pc == IF round[t].todo = {a} THEN "method" ELSE round[t].at
           r == [round[t] EXCEPT !.todo = @ \ {a}, !.at = pc]
<1>2. round' = [round EXCEPT ![t] = r]
  BY <1>1 DEF IInv, TypeOK
<1>3. round[t].at = "train" /\ UNCHANGED <<current, trainer, calls>>
  BY DEF TrainLocalActor
<1>4. pc \in {"train", "method"}
  BY <1>3
<1>5. r \in Round /\ r.at = pc /\ r.trainer = round[t].trainer /\ r.record = round[t].record
  <2> HIDE DEF pc
  <2> QED BY <1>4, RoundType DEF IInv, Round
<1> HIDE DEF r
<1> QED BY <1>2, <1>3, <1>4, <1>5, OwnStep

\* The round reads the baseline that its aggregate is added to.
LEMMA AddStep ==
    ASSUME IInv, NEW t \in Thread, AddAggregate(t)
    PROVE  IInv'
<1> DEFINE r == [round[t] EXCEPT !.at = "store", !.read = Of(t).baseline]
<1>1. round' = [round EXCEPT ![t] = r]
  BY DEF AddAggregate, IInv, TypeOK
<1>2. round[t].at = "add" /\ UNCHANGED <<current, trainer, calls>>
  BY DEF AddAggregate
<1>3. Of(t).baseline \subseteq Call
  BY <1>2, TrainerType DEF IInv, Placed, Of
<1>4. r \in Round /\ r.at = "store" /\ r.trainer = round[t].trainer /\ r.record = round[t].record
  BY <1>3, RoundType DEF IInv, Round
<1> HIDE DEF r
<1> QED BY <1>1, <1>2, <1>4, OwnStep

\* The method of aggregation is chosen, and the agents are to be asked.
LEMMA ChooseStep ==
    ASSUME IInv, NEW t \in Thread, ChooseMethod(t)
    PROVE  IInv'
<1> DEFINE r == [round[t] EXCEPT !.at = "collect", !.todo = Agent,
                                 !.record.aggregation_method = Of(t).aggregation_method]
<1>1. TypeOK /\ RestrainedAt(t) /\ round[t].trainer \in DOMAIN trainer
  BY DEF IInv, Restrained, Placed, ChooseMethod
<1>2. round' = [round EXCEPT ![t] = r]
  BY <1>1 DEF ChooseMethod, TypeOK
<1>3. /\ round[t].at = "method" /\ UNCHANGED <<current, trainer, calls>>
      /\ calls' \in 0 .. MaxRounds
  BY <1>1 DEF ChooseMethod, TypeOK
<1>4. Of(t).aggregation_method \in Method
  BY <1>1, TrainerType DEF Of
<1>5. /\ r \in Round /\ r.at = "collect" /\ r.trainer = round[t].trainer
      /\ r.record.used = round[t].record.used /\ r.record.barred = round[t].record.barred
  BY <1>1, <1>4, RoundType DEF Round, Record
<1>6. round'[t] = r
  BY <1>1, <1>2, <1>5, RoundChanged
<1>7. RestrainedAt(t)'
  BY <1>1, <1>3, <1>5, <1>6 DEF RestrainedAt, Of
<1> HIDE DEF r
<1> QED BY <1>1, <1>2, <1>3, <1>5, <1>7, RoundStep

\* Whom the round found barred, its trainer still bars, and the delta is not taken.
LEMMA CollectStep ==
    ASSUME IInv, NEW t \in Thread, CollectDelta(t)
    PROVE  IInv'
<1>1. TypeOK /\ RestrainedAt(t) /\ round[t].trainer \in DOMAIN trainer
  BY DEF IInv, Restrained, Placed, CollectDelta
<1>2. /\ round[t].at = "collect" /\ UNCHANGED <<current, trainer, calls>>
      /\ calls' \in 0 .. MaxRounds
  BY <1>1 DEF CollectDelta, TypeOK
<1>3. PICK a \in First(round[t].todo) :
        round' = [round EXCEPT
            ![t].todo = @ \ {a},
            ![t].record.used = IF Barred(t, a) THEN @ ELSE @ \cup {a},
            ![t].at = IF round[t].todo = {a} THEN "add" ELSE @]
  BY DEF CollectDelta
<1> DEFINE pc == IF round[t].todo = {a} THEN "add" ELSE round[t].at
           used == IF Barred(t, a) THEN round[t].record.used ELSE round[t].record.used \cup {a}
           r == [round[t] EXCEPT !.todo = @ \ {a}, !.record.used = used, !.at = pc]
<1>4. round' = [round EXCEPT ![t] = r]
  BY <1>1, <1>3 DEF TypeOK
<1>5. pc \in {"collect", "add"}
  BY <1>2
<1>6. used \subseteq Agent
  <2>1. a \in Agent
    BY <1>1, RoundType DEF First
  <2>2. round[t].record.used \subseteq Agent
    BY <1>1, RoundType, RecordType
  <2> QED BY <2>1, <2>2
<1>7. /\ r \in Round /\ r.at = pc /\ r.trainer = round[t].trainer
      /\ r.record.used = used /\ r.record.barred = round[t].record.barred
      /\ r.record.aggregation_method = round[t].record.aggregation_method
  <2> HIDE DEF pc, used
  <2> QED BY <1>1, <1>5, <1>6, RoundType DEF Round, Record
<1>8. round[t].record.aggregation_method = "fedavg" => used \cap round[t].record.barred = {}
  <2> SUFFICES ASSUME round[t].record.aggregation_method = "fedavg"
               PROVE  used \cap round[t].record.barred = {}
    OBVIOUS
  <2>1. round[t].record.used \cap round[t].record.barred = {}
    BY <1>1 DEF RestrainedAt
  <2>2. a \in round[t].record.barred => Barred(t, a)
    BY <1>1, <1>2 DEF RestrainedAt, Barred
  <2> QED BY <2>1, <2>2
<1>9. round'[t] = r
  BY <1>1, <1>4, <1>7, RoundChanged
<1>10. RestrainedAt(t)'
  <2> HIDE DEF r, pc, used
  <2> QED BY <1>1, <1>2, <1>5, <1>7, <1>8, <1>9 DEF RestrainedAt, Of
<1> HIDE DEF r, pc
<1> QED BY <1>1, <1>2, <1>4, <1>5, <1>7, <1>10, RoundStep

----------------------------------------------------------------------------
(* The steps that change a trainer.                                        *)

\* The round stores its baseline with its trainer.
LEMMA StoreStep ==
    ASSUME IInv, NEW t \in Thread, StoreBaseline(t)
    PROVE  IInv'
<1> DEFINE k == round[t].trainer
           u == [trainer[k] EXCEPT !.baseline = round[t].read \cup {round[t].record.call}]
           r == [round[t] EXCEPT !.at = "number", !.read = {}]
<1>1. TypeOK /\ RestrainedAt(t) /\ k \in DOMAIN trainer /\ round[t].at = "store"
  BY DEF IInv, Restrained, Placed, StoreBaseline
<1>2. trainer' = [trainer EXCEPT ![k] = u] /\ round' = [round EXCEPT ![t] = r]
  BY <1>1 DEF StoreBaseline, TypeOK
<1>3. /\ u \in Trainer /\ u.history = trainer[k].history
      /\ u.next_round_id = trainer[k].next_round_id
      /\ u.blocked_agents = trainer[k].blocked_agents
  <2>1. round[t].read \cup {round[t].record.call} \subseteq Call
    BY <1>1, RoundType, RecordType
  <2> HIDE DEF k
  <2> QED BY <1>1, <2>1, TrainerType DEF Trainer
<1>4. r \in Round /\ r.at = "number" /\ r.trainer = k /\ r.record = round[t].record
  BY <1>1, RoundType DEF Round
<1> HIDE DEF r, u
<1>5. /\ round' \in [Thread -> Round] /\ round'[t] = r
      /\ \A s \in Thread \ {t} : round'[s] = round[s]
  BY <1>1, <1>2, <1>4, RoundChanged
<1>6. /\ trainer' \in Seq(Trainer) /\ Len(trainer') = Len(trainer) /\ DOMAIN trainer' = DOMAIN trainer
      /\ trainer'[k] = u /\ \A j \in DOMAIN trainer \ {k} : trainer'[j] = trainer[j]
  BY <1>1, <1>2, <1>3, TrainerChanged
<1>7. \A j \in DOMAIN trainer : /\ trainer'[j].history = trainer[j].history
                                /\ trainer'[j].next_round_id = trainer[j].next_round_id
                                /\ trainer'[j].blocked_agents = trainer[j].blocked_agents
  BY <1>3, <1>6
<1>8. TypeOK'
  BY <1>1, <1>5, <1>6 DEF TypeOK, StoreBaseline
<1>9. Placed'
  BY <1>1, <1>4, <1>5, <1>6 DEF IInv, Placed
<1>10. Restrained'
  <2>1. \A s \in Thread \ {t} : RestrainedAt(s)'
    BY <1>5, <1>7, RestrainedKept DEF IInv, Restrained
  <2>2. RestrainedAt(t)'
    BY <1>1, <1>4, <1>5, <1>7 DEF RestrainedAt, Of
  <2> QED BY <2>1, <2>2 DEF Restrained
<1>11. BarredStayOut'
  BY <1>6, <1>7, HistoryKept DEF IInv
<1>12. Numbered'
  BY <1>1, <1>4, <1>5, <1>6, <1>7, NumbersKept DEF IInv
<1> QED BY <1>8, <1>9, <1>10, <1>11, <1>12 DEF IInv

\* The number that is taken is the next one: the numbers given so far grow by it.
LEMMA NumberStep ==
    ASSUME IInv, NEW t \in Thread, Number(t)
    PROVE  IInv'
<1> DEFINE k == round[t].trainer
           n == trainer[k].next_round_id
           u == [trainer[k] EXCEPT !.next_round_id = @ + 1]
           r == [round[t] EXCEPT !.at = "record", !.record.round_id = n]
<1>1. /\ TypeOK /\ RestrainedAt(t) /\ k \in DOMAIN trainer /\ round[t].at = "number"
      /\ NumberedFor(k) /\ n \in Nat
  BY TrainerType DEF IInv, Restrained, Placed, Number, Numbered
<1>2. trainer' = [trainer EXCEPT ![k] = u] /\ round' = [round EXCEPT ![t] = r]
  BY <1>1 DEF Number, TypeOK, Of
<1>3. /\ u \in Trainer /\ u.history = trainer[k].history /\ u.next_round_id = n + 1
      /\ u.blocked_agents = trainer[k].blocked_agents
  <2> HIDE DEF k
  <2> QED BY SMTT(30), <1>1, TrainerType DEF Trainer
<1>4. /\ r \in Round /\ r.at = "record" /\ r.trainer = k /\ r.record.round_id = n
      /\ r.record.used = round[t].record.used /\ r.record.barred = round[t].record.barred
      /\ r.record.aggregation_method = round[t].record.aggregation_method
  <2> HIDE DEF n
  <2> QED BY <1>1, RoundType DEF Round, Record
<1> HIDE DEF r, u
<1>5. /\ round' \in [Thread -> Round] /\ round'[t] = r
      /\ \A s \in Thread \ {t} : round'[s] = round[s]
  BY <1>1, <1>2, <1>4, RoundChanged
<1>6. /\ trainer' \in Seq(Trainer) /\ Len(trainer') = Len(trainer) /\ DOMAIN trainer' = DOMAIN trainer
      /\ trainer'[k] = u /\ \A j \in DOMAIN trainer \ {k} : trainer'[j] = trainer[j]
  BY <1>1, <1>2, <1>3, TrainerChanged
<1>7. \A j \in DOMAIN trainer : /\ trainer'[j].history = trainer[j].history
                                /\ trainer'[j].blocked_agents = trainer[j].blocked_agents
  BY <1>3, <1>6
<1>8. TypeOK'
  BY <1>1, <1>5, <1>6 DEF TypeOK, Number
<1>9. Placed'
  BY <1>1, <1>4, <1>5, <1>6 DEF IInv, Placed
<1>10. Restrained'
  <2>1. \A s \in Thread \ {t} : RestrainedAt(s)'
    BY <1>5, <1>7, RestrainedKept DEF IInv, Restrained
  <2>2. RestrainedAt(t)'
    BY <1>1, <1>4, <1>5, <1>7 DEF RestrainedAt, Of
  <2> QED BY <2>1, <2>2 DEF Restrained
<1>11. BarredStayOut'
  BY <1>6, <1>7, HistoryKept DEF IInv
<1>12. Numbered'
  <2> SUFFICES ASSUME NEW j \in DOMAIN trainer PROVE NumberedFor(j)'
    BY <1>6 DEF Numbered
  <2>1. NumberedFor(j)
    BY DEF IInv, Numbered
  <2>2. trainer'[j].history = trainer[j].history
    BY <1>7
  <2>3. \A s \in Recording(j) : s # t /\ round'[s] = round[s]
    BY <1>1, <1>5 DEF Recording
  <2>4. CASE j # k
    <3>1. Recording(j)' = Recording(j)
      BY <1>4, <1>5, <2>3, <2>4 DEF Recording
    <3>2. Taken(j)' = Taken(j)
      BY <2>3, <3>1 DEF Taken
    <3>3. trainer'[j] = trainer[j]
      BY <1>6, <2>4
    <3> QED BY <2>1, <2>3, <3>1, <3>2, <3>3 DEF NumberedFor, Ids
  <2>5. CASE j = k
    <3> DEFINE h == trainer[j].history
    <3>0. trainer'[j].history = h /\ trainer'[j].next_round_id = n + 1
      BY <1>3, <1>6, <2>2, <2>5
    <3>1. Recording(j)' = Recording(j) \cup {t} /\ t \notin Recording(j)
      BY <1>1, <1>4, <1>5, <2>3, <2>5 DEF Recording
    <3>2. Taken(j)' = Taken(j) \cup {n}
      BY <1>4, <1>5, <2>3, <2>5, <3>1 DEF Taken
    <3>3. Ids(h) \cup Taken(j) = 0 .. n - 1
      BY <2>1, <2>5 DEF NumberedFor
    <3>4. 0 .. (n + 1) - 1 = (0 .. n - 1) \cup {n} /\ n \notin 0 .. n - 1
      BY <1>1
    <3>5. Ids(h) \cup Taken(j)' = 0 .. trainer'[j].next_round_id - 1
      BY <3>0, <3>2, <3>3, <3>4
    <3>6. \A s \in Recording(j) : round'[s].record.round_id # n
      BY <2>3, <2>5, <3>3, <3>4 DEF Taken
    <3>7. \A i \in DOMAIN h : h[i].round_id # n
      BY <3>3, <3>4 DEF Ids
    <3>8. round'[t].record.round_id = n
      BY <1>4, <1>5
    <3>9. \A i, l \in DOMAIN h : i # l => h[i].round_id # h[l].round_id
      BY <2>1, <2>5 DEF NumberedFor
    <3>10. \A s, v \in Recording(j)' : s # v => round'[s].record.round_id # round'[v].record.round_id
      BY <2>1, <2>3, <2>5, <3>1, <3>6, <3>8 DEF NumberedFor
    <3>11. \A s \in Recording(j)' : \A i \in DOMAIN h : round'[s].record.round_id # h[i].round_id
      BY <2>1, <2>3, <2>5, <3>1, <3>7, <3>8 DEF NumberedFor
    <3> QED BY <3>0, <3>5, <3>9, <3>10, <3>11 DEF NumberedFor, Ids
  <2> QED BY <2>4, <2>5
<1> QED BY <1>8, <1>9, <1>10, <1>11, <1>12 DEF IInv

\* A number that was taken moves into the history, and with it a record that used nobody barred.
LEMMA AppendStep ==
    ASSUME IInv, NEW t \in Thread, AppendRecord(t)
    PROVE  IInv'
<1> DEFINE k == round[t].trainer
           rec == round[t].record
           h == trainer[k].history
           u == [trainer[k] EXCEPT !.history = Append(@, rec)]
<1>1. /\ TypeOK /\ RestrainedAt(t) /\ k \in DOMAIN trainer /\ round[t].at = "record"
      /\ NumberedFor(k) /\ h \in Seq(Record) /\ rec \in Record
  BY TrainerType, RoundType DEF IInv, Restrained, Placed, AppendRecord, Numbered
<1>2. trainer' = [trainer EXCEPT ![k] = u] /\ round' = [round EXCEPT ![t] = Idle]
  BY <1>1 DEF AppendRecord, TypeOK
<1>3. /\ u \in Trainer /\ u.history = Append(h, rec) /\ u.next_round_id = trainer[k].next_round_id
      /\ u.blocked_agents = trainer[k].blocked_agents
  <2>1. Append(h, rec) \in Seq(Record)
    <3> HIDE DEF h, rec
    <3> QED BY <1>1
  <2> HIDE DEF k, rec
  <2> QED BY <1>1, <2>1, TrainerType DEF Trainer
<1> HIDE DEF u
<1>4. /\ round' \in [Thread -> Round] /\ round'[t] = Idle
      /\ \A s \in Thread \ {t} : round'[s] = round[s]
  BY <1>1, <1>2, IdleType, RoundChanged
<1>5. /\ trainer' \in Seq(Trainer) /\ Len(trainer') = Len(trainer) /\ DOMAIN trainer' = DOMAIN trainer
      /\ trainer'[k] = u /\ \A j \in DOMAIN trainer \ {k} : trainer'[j] = trainer[j]
  BY <1>1, <1>2, <1>3, TrainerChanged
<1>6. /\ DOMAIN Append(h, rec) = DOMAIN h \cup {Len(h) + 1} /\ Len(h) + 1 \notin DOMAIN h
      /\ Append(h, rec)[Len(h) + 1] = rec /\ \A i \in DOMAIN h : Append(h, rec)[i] = h[i]
  <2> HIDE DEF h, rec
  <2> QED BY <1>1
<1>7. TypeOK'
  BY <1>1, <1>4, <1>5 DEF TypeOK, AppendRecord
<1>8. Placed'
  BY <1>1, <1>4, <1>5 DEF IInv, Placed, Idle
<1>9. Restrained'
  <2>1. \A j \in DOMAIN trainer : trainer'[j].blocked_agents = trainer[j].blocked_agents
    BY <1>3, <1>5
  <2>2. \A s \in Thread \ {t} : RestrainedAt(s)'
    BY <1>4, <2>1, RestrainedKept DEF IInv, Restrained
  <2>3. RestrainedAt(t)'
    BY <1>4 DEF RestrainedAt, Idle, NoRecord
  <2> QED BY <2>2, <2>3 DEF Restrained
<1>10. BarredStayOut'
  <2> SUFFICES ASSUME NEW j \in DOMAIN trainer, NEW i \in DOMAIN trainer'[j].history,
                      trainer'[j].history[i].aggregation_method = "fedavg"
               PROVE  trainer'[j].history[i].used \cap trainer'[j].history[i].barred = {}
    BY <1>5 DEF BarredStayOut
  <2>1. CASE j # k \/ i # Len(h) + 1
    <3>1. i \in DOMAIN trainer[j].history /\ trainer'[j].history[i] = trainer[j].history[i]
      <4> HIDE DEF h, rec
      <4>1. CASE j # k
        BY <1>5, <4>1
      <4>2. CASE j = k
        <5>1. trainer'[j].history = Append(h, rec) /\ trainer[j].history = h
          BY <1>3, <1>5, <4>2 DEF h
        <5> QED BY <1>6, <2>1, <4>2, <5>1
      <4> QED BY <4>1, <4>2
    <3> QED BY <3>1 DEF IInv, BarredStayOut
  <2>2. CASE j = k /\ i = Len(h) + 1
    <3>1. trainer'[j].history[i] = rec
      <4> HIDE DEF h, rec
      <4>1. trainer'[j].history = Append(h, rec)
        BY <1>3, <1>5, <2>2
      <4> QED BY <1>6, <2>2, <4>1
    <3> QED BY <1>1, <3>1 DEF RestrainedAt
  <2> QED BY <2>1, <2>2
<1>11. Numbered'
  <2> SUFFICES ASSUME NEW j \in DOMAIN trainer PROVE NumberedFor(j)'
    BY <1>5 DEF Numbered
  <2>1. NumberedFor(j)
    BY DEF IInv, Numbered
  <2>2. Recording(j)' = Recording(j) \ {t} /\ \A s \in Recording(j)' : round'[s] = round[s]
    BY <1>1, <1>4 DEF Recording, Idle
  <2>3. CASE j # k
    <3>1. t \notin Recording(j)
      BY <2>3 DEF Recording
    <3>2. Taken(j)' = Taken(j) /\ trainer'[j] = trainer[j]
      BY <1>5, <2>2, <2>3, <3>1 DEF Taken
    <3> QED BY <2>1, <2>2, <3>1, <3>2 DEF NumberedFor, Ids
  <2>4. CASE j = k
    <3> DEFINE g == trainer[j].history
               new == trainer'[j].history
    <3>1. /\ new = Append(g, rec) /\ trainer'[j].next_round_id = trainer[j].next_round_id
          /\ DOMAIN new = DOMAIN g \cup {Len(g) + 1} /\ Len(g) + 1 \notin DOMAIN g
          /\ new[Len(g) + 1] = rec /\ \A i \in DOMAIN g : new[i] = g[i]
      BY <1>3, <1>5, <1>6, <2>4
    <3>2. t \in Recording(j)
      BY <1>1, <2>4 DEF Recording
    <3>3. Taken(j) = Taken(j)' \cup {rec.round_id}
      BY <2>2, <3>2 DEF Taken
    <3>4. Ids(new) = Ids(g) \cup {rec.round_id}
      <4> HIDE DEF new, g, rec
      <4> QED BY <3>1 DEF Ids
    <3> HIDE DEF new
    <3>5. Ids(new) \cup Taken(j)' = 0 .. trainer'[j].next_round_id - 1
      BY <2>1, <3>1, <3>3, <3>4 DEF NumberedFor
    <3>6. \A i \in DOMAIN g : rec.round_id # g[i].round_id
      BY <2>1, <3>2 DEF NumberedFor
    <3>7. \A i, l \in DOMAIN new : i # l => new[i].round_id # new[l].round_id
      BY <2>1, <3>1, <3>6 DEF NumberedFor
    <3>8. \A s \in Recording(j)' : s \in Recording(j) /\ s # t /\ round'[s] = round[s]
      BY <2>2
    <3>9. \A s, v \in Recording(j)' : s # v => round'[s].record.round_id # round'[v].record.round_id
      BY <2>1, <3>8 DEF NumberedFor
    <3>10. \A s \in Recording(j)' : \A i \in DOMAIN new : round'[s].record.round_id # new[i].round_id
      BY <2>1, <3>1, <3>2, <3>8 DEF NumberedFor
    <3> QED BY <3>5, <3>7, <3>9, <3>10 DEF NumberedFor, Ids, new
  <2> QED BY <2>3, <2>4
<1> QED BY <1>7, <1>8, <1>9, <1>10, <1>11 DEF IInv

\* A trainer is configured, or bars one more.
LEMMA TrainerStep ==
    ASSUME IInv, NEW k \in DOMAIN trainer, NEW u \in Trainer,
           trainer' = [trainer EXCEPT ![k] = u], UNCHANGED <<current, round, calls>>,
           u.history = trainer[k].history, u.next_round_id = trainer[k].next_round_id,
           trainer[k].blocked_agents \subseteq u.blocked_agents
    PROVE  IInv'
<1>1. /\ trainer' \in Seq(Trainer) /\ Len(trainer') = Len(trainer) /\ DOMAIN trainer' = DOMAIN trainer
      /\ trainer'[k] = u /\ \A j \in DOMAIN trainer \ {k} : trainer'[j] = trainer[j]
  BY TrainerChanged DEF IInv
<1>2. \A j \in DOMAIN trainer : /\ trainer'[j].history = trainer[j].history
                                /\ trainer'[j].next_round_id = trainer[j].next_round_id
                                /\ trainer[j].blocked_agents \subseteq trainer'[j].blocked_agents
  BY <1>1
<1>3. TypeOK'
  BY <1>1 DEF IInv, TypeOK
<1>4. Placed'
  BY <1>1 DEF IInv, Placed
<1>5. Restrained'
  BY <1>2, RestrainedKept DEF IInv, Restrained
<1>6. BarredStayOut'
  BY <1>1, <1>2, HistoryKept DEF IInv
<1>7. Numbered'
  BY <1>1, <1>2, NumbersKept DEF IInv
<1> QED BY <1>3, <1>4, <1>5, <1>6, <1>7 DEF IInv

\* A new trainer has no rounds yet; those under way keep the trainer they were called on.
LEMMA StartStep ==
    ASSUME IInv, NEW method \in Method, federated_start(method)
    PROVE  IInv'
<1> DEFINE new == [enabled |-> TRUE, aggregation_method |-> method, dp_noise |-> FALSE,
                   dp_blocked |-> FALSE, blocked_agents |-> {}, next_round_id |-> 0,
                   baseline |-> {}, history |-> <<>>]
           n == Len(trainer) + 1
<1>1. TypeOK /\ Len(trainer) < MaxStarts /\ trainer \in Seq(Trainer)
  BY DEF IInv, TypeOK, federated_start
<1>2. new \in Trainer /\ new.history = <<>> /\ new.next_round_id = 0
  BY DEF Trainer
<1>3. trainer' = Append(trainer, new) /\ current' = n /\ UNCHANGED <<round, calls>>
  BY DEF federated_start
<1> HIDE DEF new
<1>4. /\ trainer' \in Seq(Trainer) /\ Len(trainer') = n /\ DOMAIN trainer' = DOMAIN trainer \cup {n}
      /\ n \notin DOMAIN trainer /\ trainer'[n] = new
      /\ \A k \in DOMAIN trainer : trainer'[k] = trainer[k]
  <2> HIDE DEF Trainer
  <2> QED BY <1>1, <1>2, <1>3
<1>5. TypeOK'
  BY <1>1, <1>3, <1>4, FederatedAssumption DEF TypeOK
<1>6. Placed'
  BY <1>3, <1>4 DEF IInv, Placed
<1>7. Restrained'
  BY <1>3, <1>4, RestrainedKept DEF IInv, Restrained
<1>8. BarredStayOut'
  BY <1>2, <1>4 DEF IInv, BarredStayOut
<1>9. Numbered'
  <2> SUFFICES ASSUME NEW k \in DOMAIN trainer' PROVE NumberedFor(k)'
    BY DEF Numbered
  <2>1. CASE k \in DOMAIN trainer
    <3>1. NumberedFor(k) /\ Recording(k)' = Recording(k) /\ Taken(k)' = Taken(k)
      BY <1>3, <2>1 DEF IInv, Numbered, Recording, Taken
    <3> QED BY <1>3, <1>4, <2>1, <3>1 DEF NumberedFor, Ids
  <2>2. CASE k = n
    <3>1. Recording(k)' = {}
      BY <1>3, <1>4, <2>2 DEF Recording, IInv, Placed
    <3>2. trainer'[k].history = <<>> /\ trainer'[k].next_round_id = 0
      BY <1>2, <1>4, <2>2
    <3>3. Ids(<<>>) \cup Taken(k)' = 0 .. 0 - 1
      BY <3>1 DEF Ids, Taken
    <3> QED BY <3>1, <3>2, <3>3 DEF NumberedFor
  <2> QED BY <1>4, <2>1, <2>2
<1> QED BY <1>5, <1>6, <1>7, <1>8, <1>9 DEF IInv

\* The endpoints that set a field, and the handlers that restrain the trainer of the day.
LEMMA ConfigureStep ==
    ASSUME IInv, \/ \E method \in Method : federated_set_method(method)
                 \/ federated_stop
                 \/ \E noise \in BOOLEAN : federated_dp(noise)
    PROVE  IInv'
<1>1. TypeOK /\ current # 0
  BY DEF IInv, federated_set_method, federated_stop, federated_dp, Configure
<1>2. current \in DOMAIN trainer /\ trainer[current] \in Trainer
  BY <1>1, TrainerType DEF TypeOK
<1>3. UNCHANGED <<current, round, calls>>
  BY DEF federated_set_method, federated_stop, federated_dp, Configure
<1>4. CASE \E method \in Method : federated_set_method(method)
  <2>1. PICK method \in Method : federated_set_method(method)
    BY <1>4
  <2> DEFINE u == [trainer[current] EXCEPT !.aggregation_method = method]
  <2>2. trainer' = [trainer EXCEPT ![current] = u]
    BY <1>1, <2>1 DEF federated_set_method, Configure, TypeOK
  <2>3. /\ u \in Trainer /\ u.history = trainer[current].history
        /\ u.next_round_id = trainer[current].next_round_id
        /\ u.blocked_agents = trainer[current].blocked_agents
    BY <1>2 DEF Trainer
  <2> HIDE DEF u
  <2> QED BY <1>2, <1>3, <2>2, <2>3, TrainerStep
<1>5. CASE federated_stop
  <2> DEFINE u == [trainer[current] EXCEPT !.enabled = FALSE]
  <2>1. trainer' = [trainer EXCEPT ![current] = u]
    BY <1>1, <1>5 DEF federated_stop, Configure, TypeOK
  <2>2. /\ u \in Trainer /\ u.history = trainer[current].history
        /\ u.next_round_id = trainer[current].next_round_id
        /\ u.blocked_agents = trainer[current].blocked_agents
    BY <1>2 DEF Trainer
  <2> HIDE DEF u
  <2> QED BY <1>2, <1>3, <2>1, <2>2, TrainerStep
<1>6. CASE \E noise \in BOOLEAN : federated_dp(noise)
  <2>1. PICK noise \in BOOLEAN : federated_dp(noise)
    BY <1>6
  <2> DEFINE u == [trainer[current] EXCEPT !.dp_noise = noise]
  <2>2. trainer' = [trainer EXCEPT ![current] = u]
    BY <1>1, <2>1 DEF federated_dp, Configure, TypeOK
  <2>3. /\ u \in Trainer /\ u.history = trainer[current].history
        /\ u.next_round_id = trainer[current].next_round_id
        /\ u.blocked_agents = trainer[current].blocked_agents
    BY <1>2 DEF Trainer
  <2> HIDE DEF u
  <2> QED BY <1>2, <1>3, <2>2, <2>3, TrainerStep
<1> QED BY <1>4, <1>5, <1>6

\* A step that changes nothing.
LEMMA StutterStep == ASSUME IInv, UNCHANGED vars PROVE IInv'
<1>1. TypeOK' /\ Placed'
  BY DEF IInv, TypeOK, Placed, vars
<1>2. Restrained'
  BY RestrainedKept DEF IInv, Restrained, vars
<1>3. BarredStayOut'
  BY HistoryKept DEF IInv, vars
<1>4. Numbered'
  BY NumbersKept DEF IInv, vars
<1> QED BY <1>1, <1>2, <1>3, <1>4 DEF IInv

\* A block or an exhausted budget restrains more agents.
LEMMA RestrainStep ==
    ASSUME IInv, (\E v \in Barrable : BlockAgent(v)) \/ BudgetExhausted
    PROVE  IInv'
<1>1. UNCHANGED <<current, round, calls>>
  BY DEF BlockAgent, BudgetExhausted
<1>2. CASE current = 0
  <2>1. trainer' = trainer
    BY <1>2 DEF BlockAgent, BudgetExhausted
  <2> QED BY <1>1, <2>1, StutterStep DEF vars
<1>3. CASE current # 0
  <2>1. current \in DOMAIN trainer /\ trainer[current] \in Trainer
    BY <1>3, TrainerType DEF IInv, TypeOK
  <2>2. CASE BudgetExhausted
    <3> DEFINE u == [trainer[current] EXCEPT !.dp_blocked = TRUE]
    <3>1. trainer' = [trainer EXCEPT ![current] = u]
      BY <1>3, <2>2 DEF BudgetExhausted, IInv, TypeOK
    <3>2. /\ u \in Trainer /\ u.history = trainer[current].history
          /\ u.next_round_id = trainer[current].next_round_id
          /\ u.blocked_agents = trainer[current].blocked_agents
      BY <2>1 DEF Trainer
    <3> HIDE DEF u
    <3> QED BY <1>1, <2>1, <3>1, <3>2, TrainerStep
  <2>3. CASE \E v \in Barrable : BlockAgent(v)
    <3>1. PICK v \in Barrable : BlockAgent(v)
      BY <2>3
    <3> DEFINE u == [trainer[current] EXCEPT !.blocked_agents = @ \cup {v}]
    <3>2. trainer' = [trainer EXCEPT ![current] = u]
      BY <1>3, <3>1 DEF BlockAgent, IInv, TypeOK
    <3>3. /\ u \in Trainer /\ u.history = trainer[current].history
          /\ u.next_round_id = trainer[current].next_round_id
          /\ trainer[current].blocked_agents \subseteq u.blocked_agents
      BY <2>1 DEF Trainer
    <3> HIDE DEF u
    <3> QED BY <1>1, <2>1, <3>2, <3>3, TrainerStep
  <2> QED BY <2>2, <2>3
<1> QED BY <1>2, <1>3

\* Who is released is no longer counted as barred, by the trainer and by its rounds alike.
LEMMA UnblockStep ==
    ASSUME IInv, NEW v \in Barrable, UnblockAgent(v)
    PROVE  IInv'
<1> DEFINE k == current
           u == [trainer[k] EXCEPT !.blocked_agents = @ \ {v}]
           r(t) == [round[t] EXCEPT !.record.barred = @ \ {v}]
<1>1. TypeOK /\ k \in DOMAIN trainer /\ UNCHANGED <<current, calls>>
  BY DEF IInv, TypeOK, UnblockAgent
<1>2. trainer' = [trainer EXCEPT ![k] = u]
  BY <1>1 DEF UnblockAgent, TypeOK
<1>3. /\ u \in Trainer /\ u.history = trainer[k].history
      /\ u.next_round_id = trainer[k].next_round_id
      /\ u.blocked_agents = trainer[k].blocked_agents \ {v}
  <2> HIDE DEF k
  <2> QED BY <1>1, TrainerType DEF Trainer
<1>4. /\ trainer' \in Seq(Trainer) /\ Len(trainer') = Len(trainer) /\ DOMAIN trainer' = DOMAIN trainer
      /\ trainer'[k] = u /\ \A j \in DOMAIN trainer \ {k} : trainer'[j] = trainer[j]
  <2> HIDE DEF u, k
  <2> QED BY <1>1, <1>2, <1>3, TrainerChanged
<1>5. \A t \in Thread : /\ r(t) \in Round /\ r(t).at = round[t].at /\ r(t).trainer = round[t].trainer
                        /\ r(t).record.round_id = round[t].record.round_id
                        /\ r(t).record.used = round[t].record.used
                        /\ r(t).record.aggregation_method = round[t].record.aggregation_method
                        /\ r(t).record.barred = round[t].record.barred \ {v}
  <2> SUFFICES ASSUME NEW t \in Thread
               PROVE  /\ r(t) \in Round /\ r(t).at = round[t].at /\ r(t).trainer = round[t].trainer
                      /\ r(t).record.round_id = round[t].record.round_id
                      /\ r(t).record.used = round[t].record.used
                      /\ r(t).record.aggregation_method = round[t].record.aggregation_method
                      /\ r(t).record.barred = round[t].record.barred \ {v}
    OBVIOUS
  <2> QED BY <1>1, RoundType DEF Round, Record
<1>6. /\ round' = [t \in Thread |-> IF round[t].trainer = k THEN r(t) ELSE round[t]]
      /\ \A t \in Thread : round[t] \in Round
  BY <1>1, RoundType DEF UnblockAgent
<1> HIDE DEF r, u
<1>7. /\ round' \in [Thread -> Round]
      /\ \A t \in Thread : round'[t] = IF round[t].trainer = k THEN r(t) ELSE round[t]
  <2> HIDE DEF Round
  <2> QED BY <1>5, <1>6
<1>8. \A t \in Thread : /\ round'[t].at = round[t].at /\ round'[t].trainer = round[t].trainer
                        /\ round'[t].record.round_id = round[t].record.round_id
  BY <1>5, <1>7
<1>9. TypeOK'
  BY <1>1, <1>4, <1>7 DEF TypeOK
<1>10. Placed'
  BY <1>4, <1>8 DEF IInv, Placed
<1>11. Restrained'
  <2> SUFFICES ASSUME NEW t \in Thread PROVE RestrainedAt(t)'
    BY DEF Restrained
  <2>1. RestrainedAt(t) /\ (round[t].at # "idle" => round[t].trainer \in DOMAIN trainer)
    BY DEF IInv, Restrained, Placed
  <2>2. CASE round[t].trainer = k
    <3>1. round'[t] = r(t)
      BY <1>7, <2>2
    <3>2. trainer'[round'[t].trainer].blocked_agents = trainer[round[t].trainer].blocked_agents \ {v}
      BY <1>3, <1>4, <1>8, <2>2
    <3> HIDE DEF k
    <3> QED BY <1>5, <2>1, <3>1, <3>2 DEF RestrainedAt, Of
  <2>3. CASE round[t].trainer # k
    <3>1. round'[t] = round[t]
      BY <1>7, <2>3
    <3>2. round[t].at # "idle" => trainer'[round'[t].trainer] = trainer[round[t].trainer]
      BY <1>4, <2>1, <2>3, <3>1
    <3> QED BY <2>1, <3>1, <3>2 DEF RestrainedAt, Of
  <2> QED BY <2>2, <2>3
<1>12. \A j \in DOMAIN trainer : /\ trainer'[j].history = trainer[j].history
                                 /\ trainer'[j].next_round_id = trainer[j].next_round_id
  BY <1>3, <1>4
<1>13. BarredStayOut'
  BY <1>4, <1>12, HistoryKept DEF IInv
<1>14. Numbered'
  BY <1>4, <1>8, <1>12, NumbersKept DEF IInv
<1> QED BY <1>9, <1>10, <1>11, <1>13, <1>14 DEF IInv

----------------------------------------------------------------------------
(* The theorems.                                                           *)

\* The first trainer has run no rounds.
LEMMA InitInv == Init => IInv
<1> SUFFICES ASSUME Init PROVE IInv
  OBVIOUS
<1>1. round \in [Thread -> Round] /\ \A t \in Thread : round[t] = Idle
  <2> HIDE DEF Round
  <2> QED BY IdleType DEF Init
<1>2. TypeOK
  BY <1>1, FederatedAssumption DEF Init, TypeOK
<1>3. Placed /\ Restrained
  BY <1>1 DEF Placed, Restrained, RestrainedAt, Idle, NoRecord
<1>4. BarredStayOut /\ Numbered
  BY DEF Init, BarredStayOut, Numbered
<1> QED BY <1>2, <1>3, <1>4 DEF IInv

\* Every step keeps the invariant.
LEMMA NextInv == IInv /\ [Next]_vars => IInv'
<1> SUFFICES ASSUME IInv, [Next]_vars PROVE IInv'
  OBVIOUS
<1>1. CASE \E method \in Method : federated_start(method)
  BY <1>1, StartStep
<1>2. CASE \/ \E method \in Method : federated_set_method(method)
           \/ federated_stop
           \/ \E noise \in BOOLEAN : federated_dp(noise)
  BY <1>2, ConfigureStep
<1>3. CASE (\E v \in Barrable : BlockAgent(v)) \/ BudgetExhausted
  BY <1>3, RestrainStep
<1>4. CASE \E v \in Barrable : UnblockAgent(v)
  BY <1>4, UnblockStep
<1>5. CASE (\E t \in Worker : ManualRound(t)) \/ MaybeStepFederated
  BY <1>5, CallStep DEF ManualRound, MaybeStepFederated, Thread
<1>6. CASE \E t \in Thread : Step(t)
  BY <1>6, GateStep, TrainStep, ChooseStep, CollectStep, AddStep, StoreStep, NumberStep, AppendStep
     DEF Step
<1>7. CASE UNCHANGED vars
  BY <1>7, StutterStep
<1> QED BY <1>1, <1>2, <1>3, <1>4, <1>5, <1>6, <1>7 DEF Next

\* The invariant holds always.
THEOREM Invariant == Spec => []IInv
BY InitInv, NextInv, PTL DEF Spec

\* Every variable keeps its type.
THEOREM TypeCorrect == Spec => []TypeOK
<1>1. IInv => TypeOK
  BY DEF IInv
<1> QED BY <1>1, Invariant, PTL

\* However rounds overlap and whatever is configured, barred or replaced meanwhile: an aggregate of
\* collected deltas holds none of an agent that was barred at the gate and has not been released.
THEOREM BarredStayOutHolds == Spec => []BarredStayOut
<1>1. IInv => BarredStayOut
  BY DEF IInv
<1> QED BY <1>1, Invariant, PTL

\* A history without repetition has as many numbers as records.
LEMMA AsManyNumbers ==
    ASSUME NEW h \in Seq(Record), \A i, j \in DOMAIN h : i # j => h[i].round_id # h[j].round_id
    PROVE  IsFiniteSet(Ids(h)) /\ Cardinality(Ids(h)) = Len(h)
<1> DEFINE number == [i \in 1 .. Len(h) |-> h[i].round_id]
<1>1. DOMAIN h = 1 .. Len(h) /\ Len(h) \in Nat
  OBVIOUS
<1>2. number \in Bijection(1 .. Len(h), Ids(h))
  BY <1>1 DEF Bijection, Injection, Surjection, IsInjective, Ids
<1>3. IsFiniteSet(1 .. Len(h)) /\ Cardinality(1 .. Len(h)) = Len(h)
  BY <1>1, FS_Interval
<1>4. ExistsBijection(1 .. Len(h), Ids(h))
  BY <1>2 DEF ExistsBijection
<1> QED BY <1>3, <1>4, FS_Bijection

\* The rounds in a trainer's history bear different numbers, which are 0, 1, 2, ... without a gap as
\* soon as no round of that trainer is under way.
THEOREM RoundsNumberedHolds == Spec => []RoundsNumbered
<1>1. IInv => RoundsNumbered
  <2> SUFFICES ASSUME IInv, NEW k \in DOMAIN trainer
               PROVE  LET h == trainer[k].history
                      IN  /\ Cardinality(Ids(h)) = Len(h)
                          /\ In(k) = {} => /\ Ids(h) = 0 .. Len(h) - 1
                                           /\ trainer[k].next_round_id = Len(h)
    BY DEF RoundsNumbered
  <2> DEFINE h == trainer[k].history
             n == trainer[k].next_round_id
  <2>1. TypeOK /\ NumberedFor(k) /\ h \in Seq(Record) /\ n \in Nat
    BY TrainerType DEF IInv, Numbered
  <2>2. Cardinality(Ids(h)) = Len(h)
    <3>1. \A i, j \in DOMAIN h : i # j => h[i].round_id # h[j].round_id
      BY <2>1 DEF NumberedFor
    <3> HIDE DEF h
    <3> QED BY <2>1, <3>1, AsManyNumbers
  <2>3. ASSUME In(k) = {} PROVE Ids(h) = 0 .. Len(h) - 1 /\ n = Len(h)
    <3>1. Taken(k) = {}
      BY <2>3 DEF In, Taken, Recording
    <3>2. Ids(h) = 0 .. n - 1
      BY <2>1, <3>1 DEF NumberedFor
    <3>3. Cardinality(0 .. n - 1) = n
      <4> HIDE DEF n
      <4>1. 0 \in Int /\ n - 1 \in Int
        BY <2>1
      <4>2. Cardinality(0 .. n - 1) = IF 0 > n - 1 THEN 0 ELSE n - 1 - 0 + 1
        BY <4>1, FS_Interval
      <4> QED BY <2>1, <4>2
    <3> QED BY <2>2, <3>2, <3>3
  <2> QED BY <2>2, <2>3
<1> QED BY <1>1, Invariant, PTL

----------------------------------------------------------------------------
(* Sorting                                                                 *)

\* What sorted gives is the values in another order, and in order.
LEMMA AscendingIs ==
    ASSUME NEW n \in Nat, NEW s \in [1 .. n -> Int]
    PROVE  \E p \in [1 .. n -> 1 .. n] :
             /\ \A k, l \in 1 .. n : k # l => p[k] # p[l]
             /\ Ascending(s) = [k \in 1 .. n |-> s[p[k]]]
             /\ \A k, l \in 1 .. n : k <= l => s[p[k]] <= s[p[l]]
<1> DEFINE D == 1 .. n
           e(i) == [value |-> s[i], place |-> i]
           E == {e(i) : i \in D}
           Below(x) == {d \in E : Precedes(d, x)}
           bij == [i \in D |-> e(i)]
           r == [i \in D |-> Cardinality(Below(e(i))) + 1]
<1>1. IsFiniteSet(D) /\ Cardinality(D) = n
  BY FS_Interval
<1>2. IsFiniteSet(E) /\ Cardinality(E) = n
  <2>1. bij \in Bijection(D, E)
    BY DEF Bijection, Injection, Surjection, IsInjective
  <2> QED
    BY <1>1, <2>1, FS_Bijection DEF ExistsBijection
<1>3. \A i, j \in D : Precedes(e(i), e(j)) <=> s[i] < s[j] \/ (s[i] = s[j] /\ i < j)
  BY DEF Precedes
<1>4. \A i \in D : e(i) \in E
  OBVIOUS
<1>5. \A x \in E : \E i \in D : x = e(i)
  OBVIOUS
<1> HIDE DEF E, e
<1>6. \A x \in E : IsFiniteSet(Below(x)) /\ Cardinality(Below(x)) \in Nat
  BY <1>2, FS_Subset, FS_CardinalityType
<1> HIDE DEF Below, bij
<1>7. r \in [D -> D]
  <2> SUFFICES ASSUME NEW i \in D PROVE Cardinality(Below(e(i))) + 1 \in D
    OBVIOUS
  <2> DEFINE F == E \ {e(i)}
  <2>1. Below(e(i)) \subseteq F
    BY <1>3, <1>4, <1>5 DEF Below
  <2>2. IsFiniteSet(F) /\ Cardinality(F) = n - 1
    BY <1>2, <1>4, FS_RemoveElement
  <2>3. Cardinality(Below(e(i))) <= n - 1
    <3> HIDE DEF F
    <3> QED
      BY <2>1, <2>2, FS_Subset
  <2>4. Cardinality(Below(e(i))) \in Nat
    BY <1>4, <1>6
  <2> HIDE DEF F
  <2> QED
    BY <2>3, <2>4
<1>8. \A i, j \in D : Precedes(e(i), e(j)) => r[i] < r[j]
  <2> SUFFICES ASSUME NEW i \in D, NEW j \in D, Precedes(e(i), e(j))
               PROVE  r[i] < r[j]
    OBVIOUS
  <2>1. e(i) \in Below(e(j)) /\ e(i) \notin Below(e(i))
    BY <1>3, <1>4 DEF Below
  <2>2. Below(e(i)) \subseteq Below(e(j))
    BY <1>3, <1>4, <1>5 DEF Below
  <2>3. /\ IsFiniteSet(Below(e(i))) /\ Cardinality(Below(e(i))) \in Nat
        /\ IsFiniteSet(Below(e(j))) /\ Cardinality(Below(e(j))) \in Nat
    BY <1>4, <1>6
  <2> DEFINE F == Below(e(i)) \cup {e(i)}
  <2>4. F \subseteq Below(e(j))
    BY <2>1, <2>2
  <2>5. IsFiniteSet(F) /\ Cardinality(F) = Cardinality(Below(e(i))) + 1
    BY <2>3, <2>1, FS_AddElement
  <2>6. Cardinality(F) <= Cardinality(Below(e(j)))
    <3> HIDE DEF F
    <3> QED
      BY <2>3, <2>4, FS_Subset
  <2>7. r[i] = Cardinality(Below(e(i))) + 1 /\ r[j] = Cardinality(Below(e(j))) + 1
    OBVIOUS
  <2> HIDE DEF F, r
  <2> QED
    BY <2>3, <2>5, <2>6, <2>7
<1>9. \A i, j \in D : i # j => Precedes(e(i), e(j)) \/ Precedes(e(j), e(i))
  BY <1>3
<1> HIDE DEF r
<1>10. \A i, j \in D : r[i] = r[j] => i = j
  <2> SUFFICES ASSUME NEW i \in D, NEW j \in D, r[i] = r[j], i # j PROVE FALSE
    OBVIOUS
  <2>1. r[i] < r[j] \/ r[j] < r[i]
    BY <1>8, <1>9
  <2>2. r[i] \in Int /\ r[j] \in Int
    BY <1>7
  <2> QED
    BY <2>1, <2>2
<1>11. \A k \in D : \E i \in D : r[i] = k
  <2>1. r \in Injection(D, D)
    BY <1>7, <1>10 DEF Injection, IsInjective
  <2>2. r \in Surjection(D, D)
    BY <1>1, <2>1, FS_Injection
  <2> QED
    BY <2>2 DEF Surjection
<1> DEFINE p == [k \in D |-> CHOOSE i \in D : r[i] = k]
<1>12. p \in [D -> D] /\ \A k \in D : r[p[k]] = k
  BY <1>11
<1>13. \A k, l \in D : k # l => p[k] # p[l]
  BY <1>12
<1>14. \A k \in D : (CHOOSE x \in E : Cardinality(Below(x)) = k - 1) = e(p[k])
  <2> SUFFICES ASSUME NEW k \in D PROVE (CHOOSE x \in E : Cardinality(Below(x)) = k - 1) = e(p[k])
    OBVIOUS
  <2>1. p[k] \in D /\ r[p[k]] = k
    BY <1>12
  <2> HIDE DEF p
  <2>2. e(p[k]) \in E /\ Cardinality(Below(e(p[k]))) = k - 1
    <3>1. Cardinality(Below(e(p[k]))) \in Nat
      BY <1>4, <1>6, <2>1
    <3>2. r[p[k]] = Cardinality(Below(e(p[k]))) + 1
      BY <2>1 DEF r
    <3> QED
      BY <1>4, <2>1, <3>1, <3>2
  <2>3. ASSUME NEW x \in E, Cardinality(Below(x)) = k - 1
        PROVE  x = e(p[k])
    <3>1. PICK i \in D : x = e(i)
      BY <1>5
    <3>2. r[i] = k
      BY <2>3, <3>1 DEF r
    <3>3. i = p[k]
      BY <1>10, <2>1, <3>2
    <3> QED
      BY <3>1, <3>3
  <2> QED
    BY <2>2, <2>3
<1>15. Ascending(s) = [k \in D |-> s[p[k]]]
  <2>1. DOMAIN s = D
    OBVIOUS
  <2>2. Ascending(s) = [k \in D |-> (CHOOSE x \in E : Cardinality(Below(x)) = k - 1).value]
    BY <2>1 DEF Ascending, E, e, Below
  <2>3. \A k \in D : e(p[k]).value = s[p[k]]
    BY DEF e
  <2> HIDE DEF p
  <2> QED
    BY <1>14, <2>2, <2>3
<1> HIDE DEF p
<1>16. \A k, l \in D : k <= l => s[p[k]] <= s[p[l]]
  <2> SUFFICES ASSUME NEW k \in D, NEW l \in D, k < l
               PROVE  s[p[k]] <= s[p[l]]
    <3>1. \A k \in D : s[p[k]] <= s[p[k]]
      BY <1>12
    <3> QED
      BY <3>1
  <2>1. p[k] \in D /\ p[l] \in D /\ p[k] # p[l] /\ r[p[k]] = k /\ r[p[l]] = l
    BY <1>12, <1>13
  <2>2. Precedes(e(p[k]), e(p[l]))
    BY <1>8, <1>9, <2>1
  <2> QED
    BY <1>3, <2>1, <2>2
<1> QED
  BY <1>12, <1>13, <1>15, <1>16

\* As many values are at most the one at a place, and as many are at least it, as stand on either
\* side of it.
LEMMA AscendingRanks ==
    ASSUME NEW n \in Nat, NEW s \in [1 .. n -> Int], NEW q \in 1 .. n
    PROVE  LET t == Ascending(s)[q]
               low == {i \in 1 .. n : s[i] <= t}
               high == {i \in 1 .. n : s[i] >= t}
           IN  /\ Ascending(s) \in [1 .. n -> Int]
               /\ Cardinality(low) \in Nat /\ Cardinality(low) >= q
               /\ Cardinality(high) \in Nat /\ Cardinality(high) >= n - q + 1
<1> DEFINE D == 1 .. n
           t == Ascending(s)[q]
           low == {i \in D : s[i] <= t}
           high == {i \in D : s[i] >= t}
           left == 1 .. q
           right == q .. n
<1>1. PICK p \in [D -> D] : /\ \A k, l \in D : k # l => p[k] # p[l]
                            /\ Ascending(s) = [k \in D |-> s[p[k]]]
                            /\ \A k, l \in D : k <= l => s[p[k]] <= s[p[l]]
  BY AscendingIs
<1>2. IsFiniteSet(low) /\ IsFiniteSet(high)
  BY FS_Interval, FS_Subset
<1>3. Cardinality(left) = q /\ Cardinality(right) = n - q + 1
  BY FS_Interval
<1>4. t = s[p[q]] /\ Ascending(s) \in [D -> Int]
  BY <1>1
<1>5. [k \in left |-> p[k]] \in Injection(left, low)
  <2>1. \A k \in left : k \in D /\ k <= q
    OBVIOUS
  <2>2. \A k \in left : p[k] \in low
    BY <1>1, <1>4, <2>1
  <2> HIDE DEF left, low
  <2> QED
    BY <1>1, <2>1, <2>2 DEF Injection, IsInjective
<1>6. [k \in right |-> p[k]] \in Injection(right, high)
  <2>1. \A k \in right : k \in D /\ q <= k
    OBVIOUS
  <2>2. \A k \in right : p[k] \in high
    <3> SUFFICES ASSUME NEW k \in right PROVE s[p[k]] >= t
      BY <1>1, <2>1
    <3>1. s[p[q]] <= s[p[k]] /\ s[p[q]] \in Int /\ s[p[k]] \in Int
      BY <1>1, <2>1
    <3> QED
      BY <1>4, <3>1
  <2> HIDE DEF right, high
  <2> QED
    BY <1>1, <2>1, <2>2 DEF Injection, IsInjective
<1>7. Cardinality(low) \in Nat /\ Cardinality(high) \in Nat
  BY <1>2, FS_CardinalityType
<1> HIDE DEF low, high, left, right, t
<1>8. Cardinality(left) <= Cardinality(low) /\ Cardinality(right) <= Cardinality(high)
  BY <1>2, <1>5, <1>6, FS_Injection
<1>9. Cardinality(low) >= q /\ Cardinality(high) >= n - q + 1
  BY <1>3, <1>7, <1>8
<1> QED
  BY <1>4, <1>7, <1>9 DEF low, high, t


----------------------------------------------------------------------------
(* Lists                                                                   *)

\* The updates of m agents with n parameters.
Updates(m, n) == [1 .. m -> [1 .. n -> Int]]

\* Two lists one after the other.
LEMMA ConcatIs ==
    ASSUME NEW a \in Seq(Int), NEW b \in Seq(Int)
    PROVE  /\ a \o b \in Seq(Int) /\ Len(a \o b) = Len(a) + Len(b)
           /\ a \o b = [i \in 1 .. (Len(a) + Len(b)) |-> (a \o b)[i]]
           /\ \A i \in 1 .. (Len(a) + Len(b)) :
                (a \o b)[i] = IF i <= Len(a) THEN a[i] ELSE b[i - Len(a)]
<1> DEFINE m == Len(a)
           n == Len(b)
           c == a \o b
<1>1. m \in Nat /\ n \in Nat
  OBVIOUS
<1>2. /\ c \in Seq(Int) /\ Len(c) = m + n
      /\ \A i \in 1 .. m : c[i] = a[i]
      /\ \A i \in (m + 1) .. (m + n) : c[i] = b[i - m]
  OBVIOUS
<1> HIDE DEF m, n, c
<1>3. c = [i \in 1 .. (m + n) |-> c[i]]
  BY <1>2
<1>4. \A i \in 1 .. (m + n) : c[i] = IF i <= m THEN a[i] ELSE b[i - m]
  <2> TAKE i \in 1 .. (m + n)
  <2>1. (i <= m => i \in 1 .. m) /\ (~(i <= m) => i \in (m + 1) .. (m + n))
    BY <1>1
  <2> QED
    BY <1>2, <2>1
<1> QED
  BY <1>2, <1>3, <1>4 DEF c, m, n

\* The part of a list after the first so many up to a place.
LEMMA PartIs ==
    ASSUME NEW a \in Seq(Int), NEW low \in Nat, NEW high \in Nat, low <= high, high <= Len(a)
    PROVE  LET part == SubSeq(a, low + 1, high)
           IN  /\ part \in Seq(Int) /\ Len(part) = high - low /\ DOMAIN part = 1 .. (high - low)
               /\ \A i \in 1 .. (high - low) : part[i] = a[low + i] /\ low + i \in 1 .. Len(a)
<1> DEFINE part == SubSeq(a, low + 1, high)
           n == Len(a)
<1>1. n \in Nat /\ low + 1 \in 1 .. (n + 1) /\ high \in 0 .. n /\ low + 1 \in Int /\ high \in Int
  OBVIOUS
<1>2. /\ part \in Seq(Int) /\ Len(part) = high - (low + 1) + 1
      /\ \A i \in 1 .. (high - (low + 1) + 1) : part[i] = a[(low + 1) + i - 1]
  BY <1>1
<1> HIDE DEF part
<1>3. high - (low + 1) + 1 = high - low
  OBVIOUS
<1>4. \A i \in 1 .. (high - low) : (low + 1) + i - 1 = low + i /\ low + i \in 1 .. n
  OBVIOUS
<1>5. DOMAIN part = 1 .. Len(part)
  BY <1>2
<1> QED
  BY <1>2, <1>3, <1>4, <1>5 DEF part

\* What is before and what is after a place.
LEMMA PartsAroundAre ==
    ASSUME NEW a \in Seq(Int), NEW p \in 1 .. Len(a)
    PROVE  LET low == SubSeq(a, 1, p - 1)
               high == SubSeq(a, p + 1, Len(a))
           IN  /\ low \in Seq(Int) /\ Len(low) = p - 1 /\ \A i \in 1 .. (p - 1) : low[i] = a[i]
               /\ high \in Seq(Int) /\ Len(high) = Len(a) - p
               /\ \A i \in 1 .. (Len(a) - p) : high[i] = a[p + i]
<1> DEFINE n == Len(a)
           q == p - 1
<1>1. n \in Nat /\ q \in Nat /\ p \in Nat /\ 0 \in Nat /\ 0 <= q /\ q <= n /\ p <= n /\ n <= n
  OBVIOUS
<1> HIDE DEF n, q
<1>2. LET part == SubSeq(a, 0 + 1, q)
      IN  /\ part \in Seq(Int) /\ Len(part) = q - 0 /\ DOMAIN part = 1 .. (q - 0)
          /\ \A i \in 1 .. (q - 0) : part[i] = a[0 + i] /\ 0 + i \in 1 .. Len(a)
  BY <1>1, PartIs DEF n
<1>3. LET part == SubSeq(a, p + 1, n)
      IN  /\ part \in Seq(Int) /\ Len(part) = n - p /\ DOMAIN part = 1 .. (n - p)
          /\ \A i \in 1 .. (n - p) : part[i] = a[p + i] /\ p + i \in 1 .. Len(a)
  BY <1>1, PartIs DEF n
<1>4. 0 + 1 = 1 /\ q - 0 = q /\ \A i \in 1 .. q : 0 + i = i
  BY <1>1
<1>5. LET low == SubSeq(a, 1, q)
      IN  low \in Seq(Int) /\ Len(low) = q /\ \A i \in 1 .. q : low[i] = a[i]
  BY <1>2, <1>4
<1> QED
  BY <1>3, <1>5 DEF n, q

----------------------------------------------------------------------------
(* Totals                                                                  *)

\* To add up the same numbers under other names changes nothing.
LEMMA SumRenamed ==
    ASSUME NEW S, IsFiniteSet(S), NEW T, IsFiniteSet(T), NEW h \in Bijection(S, T),
           NEW f, NEW g, \A x \in S : f[x] \in Int /\ f[x] = g[h[x]]
    PROVE  SumFunctionOnSet(f, S) = SumFunctionOnSet(g, T)
<1> DEFINE at(y) == {x \in S : h[x] = y}
           sums == SumsByKey(f, S, h, T)
<1>1. /\ \A x \in S : h[x] \in T
      /\ \A x, z \in S : h[x] = h[z] => x = z
      /\ \A y \in T : \E x \in S : h[x] = y
  BY DEF Bijection, Injection, Surjection, IsInjective
<1>2. SumFunctionOnSet(sums, T) = SumFunctionOnSet(f, S)
  BY <1>1, SumByKey
<1>3. ASSUME NEW y \in T
      PROVE  sums[y] = g[y]
  <2>1. PICK x \in S : h[x] = y
    BY <1>1
  <2>2. at(y) = {x}
    BY <1>1, <2>1
  <2>3. SumFunctionOnSet(f, {x}) = f[x] + SumFunctionOnSet(f, {x} \ {x})
    BY FS_Singleton, SumWithout
  <2>4. SumFunctionOnSet(f, {x} \ {x}) = 0
    <3>1. {x} \ {x} = {}
      OBVIOUS
    <3> QED
      BY <3>1, SumEmpty
  <2>5. sums[y] = SumFunctionOnSet(f, at(y))
    BY DEF SumsByKey
  <2>6. f[x] \in Int /\ f[x] = g[y]
    BY <2>1
  <2>7. SumFunctionOnSet(f, {x}) = f[x]
    BY <2>3, <2>4, <2>6
  <2> HIDE DEF at, sums
  <2> QED
    BY <2>2, <2>5, <2>6, <2>7
<1>4. SumFunctionOnSet(sums, T) = SumFunctionOnSet(g, T)
  <2> HIDE DEF sums
  <2> QED
    BY <1>3, SumAgree
<1> QED
  BY <1>2, <1>4

\* The total of a list is that of its parts.
LEMMA TotalOfConcat ==
    ASSUME NEW a \in Seq(Int), NEW b \in Seq(Int)
    PROVE  Total(a \o b) = Total(a) + Total(b)
<1> DEFINE m == Len(a)
           n == Len(b)
           c == a \o b
           S == 1 .. m
           T == (m + 1) .. (m + n)
           U == 1 .. n
           h == [i \in T |-> i - m]
<1>1. m \in Nat /\ n \in Nat /\ DOMAIN a = S /\ DOMAIN b = U
  OBVIOUS
<1>2. /\ c \in Seq(Int) /\ Len(c) = m + n /\ DOMAIN c = 1 .. (m + n)
      /\ \A i \in S : c[i] = a[i] /\ a[i] \in Int
      /\ \A i \in T : c[i] = b[i - m] /\ i - m \in U
      /\ \A i \in U : b[i] \in Int
  OBVIOUS
<1> HIDE DEF m, n, c
<1>3. /\ IsFiniteSet(S) /\ IsFiniteSet(T) /\ IsFiniteSet(U)
      /\ S \cap T = {} /\ S \cup T = 1 .. (m + n)
  <2>1. IsFiniteSet(S) /\ IsFiniteSet(T) /\ IsFiniteSet(U)
    BY <1>1, FS_Interval
  <2> QED
    BY <1>1, <2>1
<1>4. SumFunctionOnSet(c, S) = SumFunctionOnSet(a, S)
  BY <1>2, <1>3, SumAgree
<1>5. SumFunctionOnSet(c, T) = SumFunctionOnSet(b, U)
  <2>1. h \in Bijection(T, U)
    <3>1. \A i \in U : i + m \in T /\ (i + m) - m = i
      BY <1>1
    <3>2. \A i \in T : i - m \in U
      BY <1>1
    <3>3. \A i, j \in T : i - m = j - m => i = j
      BY <1>1
    <3> HIDE DEF T, U
    <3> QED
      BY <3>1, <3>2, <3>3 DEF Bijection, Injection, Surjection, IsInjective
  <2>2. \A i \in T : c[i] \in Int /\ c[i] = b[h[i]]
    BY <1>2
  <2> HIDE DEF h, T, U
  <2> QED
    BY <1>3, <2>1, <2>2, SumRenamed
<1>6. SumFunctionOnSet(c, S \cup T) = SumFunctionOnSet(c, S) + SumFunctionOnSet(c, T)
  <2>1. \A i \in S \cup T : c[i] \in Int
    BY <1>2
  <2> HIDE DEF S, T
  <2> QED
    BY <1>3, <2>1, SumUnion
<1>7. /\ Total(c) = SumFunctionOnSet(c, S \cup T) /\ Total(a) = SumFunctionOnSet(a, S)
      /\ Total(b) = SumFunctionOnSet(b, U)
  BY <1>1, <1>2, <1>3 DEF Total, SumFunction
<1> HIDE DEF S, T, U
<1>8. Total(c) = Total(a) + Total(b)
  BY <1>4, <1>5, <1>6, <1>7
<1> QED
  BY <1>8 DEF c

\* The total of a list of numbers is a number.
LEMMA TotalType ==
    ASSUME NEW a \in Seq(Int)
    PROVE  Total(a) \in Int
<1>1. DOMAIN a = 1 .. Len(a) /\ Len(a) \in Nat /\ \A i \in 1 .. Len(a) : a[i] \in Int
  OBVIOUS
<1>2. IsFiniteSet(1 .. Len(a))
  BY <1>1, FS_Interval
<1> QED
  BY <1>1, <1>2, SumType DEF Total, SumFunction

\* The total of a list of one.
LEMMA TotalOfOne ==
    ASSUME NEW x \in Int
    PROVE  Total(<<x>>) = x
<1> DEFINE s == <<x>>
<1>1. DOMAIN s = {1} /\ s[1] = x
  OBVIOUS
<1> HIDE DEF s
<1>2. SumFunctionOnSet(s, {1}) = s[1] + SumFunctionOnSet(s, {1} \ {1})
  BY <1>1, FS_Singleton, SumWithout
<1>3. {1} \ {1} = {}
  OBVIOUS
<1>4. Total(s) = x
  BY <1>1, <1>2, <1>3, SumEmpty DEF Total, SumFunction
<1> QED
  BY <1>4 DEF s

\* If no number of a list is less than the one and more than the other, its total is between as
\* many times them.
LEMMA TotalBetween ==
    ASSUME NEW a \in Seq(Int), NEW lo \in Int, NEW hi \in Int,
           \A i \in 1 .. Len(a) : lo <= a[i] /\ a[i] <= hi
    PROVE  Len(a) * lo <= Total(a) /\ Total(a) <= Len(a) * hi
<1> DEFINE D == 1 .. Len(a)
           low == [i \in D |-> lo]
           high == [i \in D |-> hi]
<1>1. DOMAIN a = D /\ Len(a) \in Nat /\ \A i \in D : a[i] \in Int
  OBVIOUS
<1>2. IsFiniteSet(D) /\ Cardinality(D) = Len(a)
  <2>1. 1 \in Int /\ Len(a) \in Int /\ Len(a) \in Nat
    OBVIOUS
  <2>2. IsFiniteSet(1 .. Len(a)) /\ Cardinality(1 .. Len(a)) = IF 1 > Len(a) THEN 0 ELSE Len(a) - 1 + 1
    BY <2>1, FS_Interval
  <2> QED
    BY <2>1, <2>2
<1>3. SumFunctionOnSet(low, D) = Len(a) * lo
  <2>1. \A i \in D : low[i] = lo
    OBVIOUS
  <2> HIDE DEF low, D
  <2> QED
    BY <1>2, <2>1, SumConstant
<1>4. SumFunctionOnSet(high, D) = Len(a) * hi
  <2>1. \A i \in D : high[i] = hi
    OBVIOUS
  <2> HIDE DEF high, D
  <2> QED
    BY <1>2, <2>1, SumConstant
<1>5. SumFunctionOnSet(low, D) <= SumFunctionOnSet(a, D)
  <2>1. \A i \in D : low[i] \in Int /\ a[i] \in Int /\ low[i] <= a[i]
    BY <1>1
  <2> HIDE DEF low, D
  <2> QED
    BY <1>2, <2>1, SumMonotone
<1>6. SumFunctionOnSet(a, D) <= SumFunctionOnSet(high, D)
  <2>1. \A i \in D : high[i] \in Int /\ a[i] \in Int /\ a[i] <= high[i]
    BY <1>1
  <2> HIDE DEF high, D
  <2> QED
    BY <1>2, <2>1, SumMonotone
<1>7. Total(a) = SumFunctionOnSet(a, D)
  BY <1>1 DEF Total, SumFunction
<1> HIDE DEF D, low, high
<1> QED
  BY <1>3, <1>4, <1>5, <1>6, <1>7

----------------------------------------------------------------------------
(* The trimmed mean                                                        *)

\* Of finitely many numbers one is the least and one the greatest, and these are Min and Max.
LEMMA MinAndMaxAre ==
    ASSUME NEW S \in SUBSET Int, IsFiniteSet(S), S # {}
    PROVE  /\ Min(S) \in S /\ \A x \in S : Min(S) <= x
           /\ Max(S) \in S /\ \A x \in S : x <= Max(S)
<1> DEFINE v == [x \in S |-> x]
           w == [x \in S |-> -x]
<1>1. v \in [S -> Int] /\ w \in [S -> Int]
  OBVIOUS
<1>2. \A x \in S : v[x] = x /\ w[x] = -x /\ x \in Int
  OBVIOUS
<1> HIDE DEF v, w
<1>3. PICK x \in S : \A y \in S : v[y] <= v[x]
  BY <1>1, GreatestValue
<1>4. PICK z \in S : \A y \in S : w[y] <= w[z]
  BY <1>1, GreatestValue
<1>5. \A y \in S : x >= y /\ y <= x
  BY <1>2, <1>3
<1>6. \A y \in S : z <= y
  <2> SUFFICES ASSUME NEW y \in S PROVE z <= y
    OBVIOUS
  <2>1. w[y] <= w[z] /\ w[y] = -y /\ w[z] = -z /\ y \in Int /\ z \in Int
    BY <1>2, <1>4
  <2> QED
    BY <2>1
<1>7. Max(S) \in S /\ \A y \in S : Max(S) >= y
  BY <1>5 DEF Max
<1>8. Min(S) \in S /\ \A y \in S : Min(S) <= y
  BY <1>6 DEF Min
<1>9. \A y \in S : y <= Max(S)
  BY <1>2, <1>7
<1> QED
  BY <1>7, <1>8, <1>9

\* For any number of agents and any parameter: the trimmed mean lies between the least and the
\* greatest value of the honest, as long as no more lie than are cut off at an end (trimmed_mean).
THEOREM TrimmedMeanIsRobust ==
    ASSUME NEW n \in Nat, NEW s \in [1 .. n -> Int], NEW k \in Nat, 2 * k < n,
           NEW liars \in SUBSET (1 .. n), Cardinality(liars) <= k
    PROVE  LET honest == {s[i] : i \in (1 .. n) \ liars}
           IN  /\ (n - 2 * k) * Min(honest) <= Total(Trim(s, k))
               /\ Total(Trim(s, k)) <= (n - 2 * k) * Max(honest)
<1> DEFINE honest == {s[i] : i \in (1 .. n) \ liars}
           t == Ascending(s)
           cut == Trim(s, k)
<1>1. t \in [1 .. n -> Int]
  <2>1. 1 \in 1 .. n
    OBVIOUS
  <2> QED
    BY <2>1, AscendingRanks
<1>2. ASSUME NEW q \in (k + 1) .. (n - k)
      PROVE  /\ \E i \in (1 .. n) \ liars : s[i] <= t[q]
             /\ \E i \in (1 .. n) \ liars : s[i] >= t[q]
  <2> DEFINE low == {i \in 1 .. n : s[i] <= t[q]}
             high == {i \in 1 .. n : s[i] >= t[q]}
  <2>1. q \in 1 .. n /\ q \in Int /\ q > k /\ n - q + 1 > k
    OBVIOUS
  <2>2. /\ Cardinality(low) \in Nat /\ Cardinality(low) >= q
        /\ Cardinality(high) \in Nat /\ Cardinality(high) >= n - q + 1
    BY <2>1, AscendingRanks
  <2>3. IsFiniteSet(liars) /\ Cardinality(liars) \in Nat
    <3>1. 1 \in Int /\ n \in Int
      OBVIOUS
    <3>2. IsFiniteSet(1 .. n)
      BY <3>1, FS_Interval
    <3> QED
      BY <3>2, FS_Subset, FS_CardinalityType
  <2> HIDE DEF low, high
  <2>4. ~(low \subseteq liars) /\ ~(high \subseteq liars)
    <3>1. low \subseteq liars => Cardinality(low) <= Cardinality(liars)
      BY <2>3, FS_Subset
    <3>2. high \subseteq liars => Cardinality(high) <= Cardinality(liars)
      BY <2>3, FS_Subset
    <3> QED
      BY <2>1, <2>2, <2>3, <3>1, <3>2
  <2> QED
    BY <2>4 DEF low, high
<1>3. DOMAIN s = 1 .. n /\ Len(s) = n
  <2>1. s \in Seq(Int) /\ Len(s) = n
    OBVIOUS
  <2> QED
    BY <2>1
<1>4. /\ cut \in Seq(Int) /\ Len(cut) = n - 2 * k
      /\ \A j \in 1 .. (n - 2 * k) : cut[j] = t[k + j]
  <2>1. t \in Seq(Int) /\ Len(t) = n
    BY <1>1
  <2>2. cut = SubSeq(t, k + 1, n - k)
    BY <1>3 DEF Trim
  <2> HIDE DEF t
  <2>3. k + 1 \in 1 .. (n + 1) /\ n - k \in 0 .. n /\ n - k \in Int
    OBVIOUS
  <2>4. /\ SubSeq(t, k + 1, n - k) \in Seq(Int)
        /\ Len(SubSeq(t, k + 1, n - k)) = (n - k) - (k + 1) + 1
        /\ \A j \in 1 .. ((n - k) - (k + 1) + 1) : SubSeq(t, k + 1, n - k)[j] = t[(k + 1) + j - 1]
    BY <2>1, <2>3
  <2>5. (n - k) - (k + 1) + 1 = n - 2 * k /\ \A j \in 1 .. (n - 2 * k) : (k + 1) + j - 1 = k + j
    OBVIOUS
  <2> HIDE DEF cut
  <2> QED
    BY <2>2, <2>4, <2>5
<1>5. honest \in SUBSET Int /\ IsFiniteSet(honest)
  <2>1. IsFiniteSet((1 .. n) \ liars)
    <3>1. 1 \in Int /\ n \in Int /\ (1 .. n) \ liars \subseteq 1 .. n
      OBVIOUS
    <3>2. IsFiniteSet(1 .. n)
      BY <3>1, FS_Interval
    <3> QED
      BY <3>1, <3>2, FS_Subset
  <2>2. honest \in SUBSET Int
    OBVIOUS
  <2> DEFINE h == [i \in (1 .. n) \ liars |-> s[i]]
  <2>3. h \in Surjection((1 .. n) \ liars, honest)
    BY DEF Surjection
  <2> HIDE DEF h, honest
  <2> QED
    BY <2>1, <2>2, <2>3, FS_Surjection
<1>6. ASSUME NEW j \in 1 .. (n - 2 * k)
      PROVE  honest # {} /\ Min(honest) <= cut[j] /\ cut[j] <= Max(honest)
  <2>1. k + j \in (k + 1) .. (n - k) /\ k + j \in 1 .. n
    OBVIOUS
  <2>2. /\ \E i \in (1 .. n) \ liars : s[i] <= t[k + j]
        /\ \E i \in (1 .. n) \ liars : s[i] >= t[k + j]
    <3> HIDE DEF honest, cut, t
    <3> QED
      BY <1>2, <2>1
  <2> HIDE DEF t
  <2>3. PICK i \in (1 .. n) \ liars : s[i] <= t[k + j]
    BY <2>2
  <2>4. PICK l \in (1 .. n) \ liars : s[l] >= t[k + j]
    BY <2>2
  <2>5. s[i] \in honest /\ s[l] \in honest
    OBVIOUS
  <2> HIDE DEF honest
  <2>6. Min(honest) <= s[i] /\ s[l] <= Max(honest) /\ Min(honest) \in honest /\ Max(honest) \in honest
    BY <1>5, <2>5, MinAndMaxAre
  <2>7. cut[j] = t[k + j] /\ t[k + j] \in Int
    BY <1>1, <1>4, <2>1
  <2>8. s[i] \in Int /\ s[l] \in Int /\ Min(honest) \in Int /\ Max(honest) \in Int
    BY <1>5, <2>5, <2>6
  <2> HIDE DEF cut, t
  <2> QED
    BY <2>3, <2>4, <2>5, <2>6, <2>7, <2>8
<1> HIDE DEF honest, cut, t
<1>7. honest # {}
  <2>1. 1 \in 1 .. (n - 2 * k)
    OBVIOUS
  <2> QED
    BY <1>6, <2>1
<1>8. Min(honest) \in Int /\ Max(honest) \in Int
  BY <1>5, <1>7, MinAndMaxAre
<1>9. /\ (n - 2 * k) * Min(honest) <= Total(cut)
      /\ Total(cut) <= (n - 2 * k) * Max(honest)
  BY <1>4, <1>6, <1>8, TotalBetween
<1> QED
  BY <1>9 DEF honest, cut


----------------------------------------------------------------------------
(* Krum                                                                    *)

\* A square is not negative, and only that of 0 is 0.
LEMMA Squares == \A x \in Int : x * x \in Nat /\ (x * x = 0 <=> x = 0)
<1> SUFFICES ASSUME NEW x \in Int PROVE x * x \in Nat /\ (x * x = 0 <=> x = 0)
  OBVIOUS
<1>1. CASE x >= 0
  BY <1>1
<1>2. CASE x < 0
  BY <1>2
<1> QED
  BY <1>1, <1>2

\* A list of numbers that are not negative has a total that is not, and one that is 0 only if they are.
LEMMA TotalOfNaturals ==
    ASSUME NEW a \in Seq(Int), \A i \in 1 .. Len(a) : a[i] >= 0
    PROVE  Total(a) \in Nat /\ (Total(a) = 0 <=> \A i \in 1 .. Len(a) : a[i] = 0)
<1> DEFINE D == 1 .. Len(a)
<1>1. DOMAIN a = D /\ \A i \in D : a[i] \in Nat /\ a[i] \in Int
  OBVIOUS
<1>2. IsFiniteSet(D)
  <2>1. 1 \in Int /\ Len(a) \in Int
    OBVIOUS
  <2> QED
    BY <2>1, FS_Interval
<1> HIDE DEF D
<1>3. \A p \in D : SumFunctionOnSet(a, D) = a[p] + SumFunctionOnSet(a, D \ {p})
  BY <1>1, <1>2, SumWithout
<1>4. \A p \in D : SumFunctionOnSet(a, D \ {p}) \in Nat
  BY <1>1, <1>2, SumSubset
<1>5. SumFunctionOnSet(a, D) \in Nat
  BY <1>1, <1>2, SumSubset
<1>6. SumFunctionOnSet(a, D) = 0 => \A p \in D : a[p] = 0
  <2> SUFFICES ASSUME NEW p \in D, a[p] # 0 PROVE SumFunctionOnSet(a, D) # 0
    OBVIOUS
  <2>1. /\ a[p] \in Nat
        /\ SumFunctionOnSet(a, D) = a[p] + SumFunctionOnSet(a, D \ {p})
        /\ SumFunctionOnSet(a, D \ {p}) \in Nat
    BY <1>1, <1>3, <1>4
  <2> QED
    BY <2>1
<1>7. (\A p \in D : a[p] = 0) => SumFunctionOnSet(a, D) = 0
  <2> SUFFICES ASSUME \A p \in D : a[p] = 0 PROVE SumFunctionOnSet(a, D) = 0
    OBVIOUS
  <2>1. SumFunctionOnSet(a, D) = Cardinality(D) * 0 /\ Cardinality(D) \in Nat
    BY <1>2, SumConstant, FS_CardinalityType
  <2> QED
    BY <2>1
<1>8. Total(a) = SumFunctionOnSet(a, D)
  BY <1>1 DEF Total, SumFunction
<1> QED
  BY <1>5, <1>6, <1>7, <1>8 DEF D

\* Only of an update and itself is the distance 0.
LEMMA DistanceIs ==
    ASSUME NEW m \in Nat, NEW u \in [1 .. m -> Int], NEW v \in [1 .. m -> Int]
    PROVE  SquaredDistance(u, v) \in Nat /\ (SquaredDistance(u, v) = 0 <=> u = v)
<1> DEFINE d == [i \in 1 .. m |-> (u[i] - v[i]) * (u[i] - v[i])]
<1>1. \A i \in 1 .. m : u[i] - v[i] \in Int /\ (u[i] - v[i] = 0 <=> u[i] = v[i])
  OBVIOUS
<1>2. \A i \in 1 .. m : d[i] \in Int /\ d[i] >= 0 /\ (d[i] = 0 <=> u[i] = v[i])
  <2> SUFFICES ASSUME NEW i \in 1 .. m
               PROVE  d[i] \in Int /\ d[i] >= 0 /\ (d[i] = 0 <=> u[i] = v[i])
    OBVIOUS
  <2> DEFINE x == u[i] - v[i]
  <2>1. d[i] = x * x
    OBVIOUS
  <2>2. x \in Int /\ (x = 0 <=> u[i] = v[i])
    BY <1>1
  <2> HIDE DEF x, d
  <2>3. x * x \in Nat /\ (x * x = 0 <=> x = 0)
    BY <2>2, Squares
  <2> QED
    BY <2>1, <2>2, <2>3
<1>3. DOMAIN u = 1 .. m
  OBVIOUS
<1>4. SquaredDistance(u, v) = Total(d)
  BY <1>3 DEF SquaredDistance
<1>5. d \in [1 .. m -> Int]
  BY <1>2
<1> HIDE DEF d
<1>6. d \in Seq(Int) /\ Len(d) = m
  BY <1>5
<1>7. Total(d) \in Nat /\ (Total(d) = 0 <=> \A i \in 1 .. m : d[i] = 0)
  BY <1>2, <1>6, TotalOfNaturals
<1>8. (\A i \in 1 .. m : u[i] = v[i]) <=> u = v
  OBVIOUS
<1> QED
  BY <1>2, <1>4, <1>7, <1>8

\* The K nearest of a row of distances, without the first: they add up to 0 if K of the row are 0,
\* and to more if fewer are.
LEMMA NearestAddUp ==
    ASSUME NEW n \in Nat, NEW K \in 1 .. n, K >= 2, NEW d \in [1 .. n -> Int],
           \A j \in 1 .. n : d[j] >= 0
    PROVE  LET near == Total(SubSeq(Ascending(d), 2, K))
               same == {j \in 1 .. n : d[j] = 0}
           IN  /\ near \in Nat
               /\ Cardinality(same) >= K => near = 0
               /\ Cardinality(same) < K => near > 0
<1> DEFINE D == 1 .. n
           t == Ascending(d)
           cut == SubSeq(t, 2, K)
           same == {j \in D : d[j] = 0}
           rest == {j \in D : d[j] # 0}
           low == {i \in D : d[i] <= t[K]}
           high == {i \in D : d[i] >= t[K]}
<1> HIDE DEF D, t, cut, same, rest, low, high
<1>1. PICK p \in [D -> D] : /\ t = [q \in D |-> d[p[q]]]
                            /\ \A q, l \in D : q <= l => d[p[q]] <= d[p[l]]
  BY AscendingIs DEF D, t
<1>2. \A j \in D : d[j] \in Int /\ d[j] >= 0
  BY DEF D
<1>3. /\ t \in [D -> Int] /\ \A q \in D : t[q] >= 0
      /\ \A q, l \in D : q <= l => t[q] <= t[l]
  BY <1>1, <1>2
<1>4. t \in Seq(Int) /\ Len(t) = n
  BY <1>3 DEF D
<1>5. /\ cut \in Seq(Int) /\ Len(cut) = K - 1
      /\ \A j \in 1 .. (K - 1) : cut[j] = t[j + 1] /\ j + 1 \in D /\ j + 1 <= K
  <2>1. 2 \in 1 .. (n + 1) /\ K \in 0 .. n /\ K \in Int
    OBVIOUS
  <2>2. /\ SubSeq(t, 2, K) \in Seq(Int)
        /\ Len(SubSeq(t, 2, K)) = K - 2 + 1
        /\ \A j \in 1 .. (K - 2 + 1) : SubSeq(t, 2, K)[j] = t[2 + j - 1]
    BY <1>4, <2>1
  <2>3. K - 2 + 1 = K - 1 /\ \A j \in 1 .. (K - 1) : 2 + j - 1 = j + 1 /\ j + 1 \in 1 .. n /\ j + 1 <= K
    OBVIOUS
  <2> QED
    BY <2>2, <2>3 DEF cut, D
<1>6. \A j \in 1 .. (K - 1) : cut[j] \in Int /\ cut[j] >= 0
  BY <1>3, <1>5
<1>7. Total(cut) \in Nat /\ (Total(cut) = 0 <=> \A j \in 1 .. (K - 1) : cut[j] = 0)
  BY <1>5, <1>6, TotalOfNaturals
<1>8. /\ IsFiniteSet(same) /\ Cardinality(same) \in Nat
      /\ IsFiniteSet(rest) /\ Cardinality(rest) \in Nat
      /\ Cardinality(same) + Cardinality(rest) = n
  <2>1. 1 \in Int /\ n \in Int
    OBVIOUS
  <2>2. IsFiniteSet(D) /\ Cardinality(D) = n
    BY <2>1, FS_Interval DEF D
  <2>3. same \cup rest = D /\ same \cap rest = {} /\ same \subseteq D /\ rest \subseteq D
    BY DEF same, rest
  <2>4. IsFiniteSet(same) /\ IsFiniteSet(rest)
    BY <2>2, <2>3, FS_Subset
  <2>5. Cardinality(same) \in Nat /\ Cardinality(rest) \in Nat
    BY <2>4, FS_CardinalityType
  <2>6. Cardinality(same \cup rest) = Cardinality(same) + Cardinality(rest) - Cardinality(same \cap rest)
    BY <2>4, FS_Union
  <2>7. Cardinality(same \cap rest) = 0
    BY <2>3, FS_EmptySet
  <2>8. n = Cardinality(same) + Cardinality(rest) - 0
    BY <2>2, <2>3, <2>6, <2>7
  <2> QED
    BY <2>4, <2>5, <2>8
<1>9. /\ K \in D /\ t[K] \in Int /\ t[K] >= 0
      /\ Cardinality(low) \in Nat /\ Cardinality(low) >= K
      /\ Cardinality(high) \in Nat /\ Cardinality(high) >= n - K + 1
  <2>1. /\ Cardinality(low) \in Nat /\ Cardinality(low) >= K
        /\ Cardinality(high) \in Nat /\ Cardinality(high) >= n - K + 1
    BY AscendingRanks DEF low, high, t, D
  <2>2. K \in D
    BY DEF D
  <2> QED
    BY <1>3, <2>1, <2>2
<1>10. ASSUME Cardinality(same) >= K
       PROVE  t[K] = 0
  <2>1. SUFFICES ASSUME t[K] # 0 PROVE FALSE
    OBVIOUS
  <2>2. high \subseteq rest
    BY <1>2, <1>9, <2>1 DEF high, rest
  <2>3. Cardinality(high) <= Cardinality(rest)
    BY <1>8, <2>2, FS_Subset
  <2> QED
    BY <1>8, <1>9, <1>10, <2>3
<1>11. ASSUME Cardinality(same) < K
       PROVE  t[K] > 0
  <2>1. SUFFICES ASSUME t[K] = 0 PROVE FALSE
    BY <1>9
  <2>2. low \subseteq same
    <3> SUFFICES ASSUME NEW i \in D, d[i] <= 0 PROVE d[i] = 0
      BY <2>1 DEF low, same
    <3>1. d[i] \in Int /\ d[i] >= 0
      BY <1>2
    <3> QED
      BY <3>1
  <2>3. Cardinality(low) <= Cardinality(same)
    BY <1>8, <2>2, FS_Subset
  <2> QED
    BY <1>8, <1>9, <1>11, <2>3
<1>12. ASSUME t[K] = 0
       PROVE  Total(cut) = 0
  <2>1. \A j \in 1 .. (K - 1) : t[j + 1] <= t[K] /\ t[j + 1] \in Int /\ t[j + 1] >= 0
    BY <1>3, <1>5, <1>9
  <2>2. \A j \in 1 .. (K - 1) : cut[j] = 0
    <3> SUFFICES ASSUME NEW j \in 1 .. (K - 1) PROVE t[j + 1] = 0
      BY <1>5
    <3>1. t[j + 1] <= 0 /\ t[j + 1] \in Int /\ t[j + 1] >= 0
      BY <1>12, <2>1
    <3> QED
      BY <3>1
  <2> QED
    BY <1>7, <2>2
<1>13. ASSUME t[K] > 0
       PROVE  Total(cut) > 0
  <2>1. K - 1 \in 1 .. (K - 1) /\ K - 1 + 1 = K
    OBVIOUS
  <2>2. cut[K - 1] = t[K]
    BY <1>5, <2>1
  <2>3. Total(cut) # 0
    BY <1>7, <1>9, <1>13, <2>1, <2>2
  <2> QED
    BY <1>7, <2>3
<1>14. /\ Total(cut) \in Nat
       /\ Cardinality(same) >= K => Total(cut) = 0
       /\ Cardinality(same) < K => Total(cut) > 0
  BY <1>7, <1>10, <1>11, <1>12, <1>13
<1> QED
  BY <1>14 DEF cut, t, same, D

\* Of more agents than twice those that deviate and three: krum returns what the others agree on,
\* however far the deviating updates lie (krum, KrumFollowsTheMajority).
THEOREM KrumIsRobust ==
    ASSUME NEW n \in Nat, NEW m \in Nat, NEW U \in Updates(n, m),
           NEW f \in Nat, n >= 2 * f + 3, NEW v \in [1 .. m -> Int],
           NEW liars, IsFiniteSet(liars), Cardinality(liars) <= f,
           \A i \in 1 .. n : i \notin liars => U[i] = v
    PROVE  KrumWinner(U, f) \in 1 .. n /\ U[KrumWinner(U, f)] = v
<1> DEFINE D == 1 .. n
           others == {i \in D : U[i] # v}
           agreeing == {i \in D : U[i] = v}
           row(i) == [j \in D |-> SquaredDistance(U[i], U[j])]
           score == [i \in D |-> KrumScore(U, i, n - f - 2)]
           best == {i \in D : \A j \in D : score[i] <= score[j]}
           like(i) == {j \in D : row(i)[j] = 0}
<1> HIDE DEF D, others, agreeing, row, score, best, like
<1>1. DOMAIN U = D /\ Len(U) = n
  <2>1. U \in Seq([1 .. m -> Int]) /\ Len(U) = n
    BY DEF Updates
  <2> QED
    BY <2>1 DEF D
<1>2. \A i, j \in D : /\ row(i) \in [D -> Int] /\ row(i)[j] >= 0
                      /\ row(i)[j] = 0 <=> U[i] = U[j]
  <2>1. \A i, j \in D : SquaredDistance(U[i], U[j]) \in Nat /\ (SquaredDistance(U[i], U[j]) = 0 <=> U[i] = U[j])
    <3> SUFFICES ASSUME NEW i \in D, NEW j \in D
                 PROVE  /\ SquaredDistance(U[i], U[j]) \in Nat
                        /\ SquaredDistance(U[i], U[j]) = 0 <=> U[i] = U[j]
      OBVIOUS
    <3> DEFINE u == U[i]
               w == U[j]
    <3>1. u \in [1 .. m -> Int] /\ w \in [1 .. m -> Int]
      BY DEF D, Updates
    <3> HIDE DEF u, w
    <3>2. SquaredDistance(u, w) \in Nat /\ (SquaredDistance(u, w) = 0 <=> u = w)
      BY <3>1, DistanceIs
    <3> QED
      BY <3>2 DEF u, w
  <2> QED
    BY <2>1 DEF row
<1>3. \A i \in D : score[i] = Total(SubSeq(Ascending(row(i)), 2, n - f - 1))
  <2>1. (n - f - 2) + 1 = n - f - 1
    OBVIOUS
  <2> QED
    BY <1>1, <2>1 DEF score, KrumScore, row
<1>4. KrumWinner(U, f) = Min(best)
  BY <1>1 DEF KrumWinner, best, score
<1>5. /\ IsFiniteSet(others) /\ IsFiniteSet(agreeing) /\ IsFiniteSet(D)
      /\ Cardinality(others) \in Nat /\ Cardinality(agreeing) \in Nat
      /\ Cardinality(others) <= f /\ Cardinality(agreeing) >= n - f
  <2>1. 1 \in Int /\ n \in Int
    OBVIOUS
  <2>2. IsFiniteSet(D) /\ Cardinality(D) = n
    BY <2>1, FS_Interval DEF D
  <2>3. others \cup agreeing = D /\ others \cap agreeing = {} /\ others \subseteq D /\ agreeing \subseteq D
    BY DEF others, agreeing
  <2>4. IsFiniteSet(others) /\ IsFiniteSet(agreeing)
    BY <2>2, <2>3, FS_Subset
  <2>5. Cardinality(others) \in Nat /\ Cardinality(agreeing) \in Nat
    BY <2>4, FS_CardinalityType
  <2>6. Cardinality(others \cup agreeing)
          = Cardinality(others) + Cardinality(agreeing) - Cardinality(others \cap agreeing)
    BY <2>4, FS_Union
  <2>7. Cardinality(others \cap agreeing) = 0
    BY <2>3, FS_EmptySet
  <2>8. n = Cardinality(others) + Cardinality(agreeing) - 0
    BY <2>2, <2>3, <2>6, <2>7
  <2>9. Cardinality(others) <= f
    <3>1. others \subseteq liars
      BY DEF others, D
    <3>2. Cardinality(others) <= Cardinality(liars) /\ Cardinality(liars) \in Nat
      BY <3>1, FS_Subset, FS_CardinalityType
    <3> QED
      BY <2>5, <3>2
  <2> QED
    BY <2>2, <2>4, <2>5, <2>8, <2>9
<1>6. ASSUME NEW i \in D
      PROVE  /\ score[i] \in Nat
             /\ Cardinality(like(i)) >= n - f - 1 => score[i] = 0
             /\ Cardinality(like(i)) < n - f - 1 => score[i] > 0
  <2> DEFINE K == n - f - 1
             d == row(i)
  <2>1. K \in 1 .. n /\ K >= 2
    OBVIOUS
  <2>2. d \in [1 .. n -> Int] /\ \A j \in 1 .. n : d[j] >= 0
    BY <1>2, <1>6 DEF D
  <2>3. score[i] = Total(SubSeq(Ascending(d), 2, K))
    BY <1>3, <1>6
  <2>4. like(i) = {j \in 1 .. n : d[j] = 0}
    BY DEF like, D
  <2> HIDE DEF K, d
  <2>5. /\ score[i] \in Nat
        /\ Cardinality(like(i)) >= K => score[i] = 0
        /\ Cardinality(like(i)) < K => score[i] > 0
    BY <2>1, <2>2, <2>3, <2>4, NearestAddUp
  <2> QED
    BY <2>5 DEF K
<1>7. ASSUME NEW i \in D, U[i] = v
      PROVE  score[i] = 0
  <2>1. like(i) = agreeing
    BY <1>2, <1>7 DEF like, agreeing
  <2> QED
    BY <1>5, <1>6, <1>7, <2>1
<1>8. ASSUME NEW i \in D, U[i] # v
      PROVE  score[i] > 0
  <2>1. like(i) \subseteq others
    BY <1>2, <1>8 DEF like, others
  <2>2. Cardinality(like(i)) <= Cardinality(others) /\ Cardinality(like(i)) \in Nat
    BY <1>5, <2>1, FS_Subset, FS_CardinalityType
  <2>3. Cardinality(like(i)) < n - f - 1
    BY <1>5, <2>2
  <2> QED
    BY <1>6, <1>8, <2>3
<1>9. PICK a \in D : U[a] = v
  <2>1. n - f > 0
    OBVIOUS
  <2>2. Cardinality(agreeing) # 0
    BY <1>5, <2>1
  <2>3. agreeing # {}
    BY <2>2, FS_EmptySet
  <2> QED
    BY <2>3 DEF agreeing
<1>10. a \in best
  BY <1>6, <1>7, <1>9 DEF best
<1>11. \A i \in best : i \in D /\ U[i] = v
  <2> SUFFICES ASSUME NEW i \in best, U[i] # v PROVE FALSE
    BY DEF best
  <2>1. i \in D /\ score[i] <= score[a]
    BY <1>9 DEF best
  <2>2. score[i] > 0 /\ score[a] = 0 /\ score[i] \in Nat
    BY <1>6, <1>7, <1>8, <1>9, <2>1
  <2> QED
    BY <2>1, <2>2
<1>12. Min(best) \in best
  <2>1. best \in SUBSET Int /\ IsFiniteSet(best) /\ best # {}
    <3>1. best \subseteq D /\ D \subseteq Int
      BY DEF best, D
    <3> QED
      BY <1>5, <1>10, <3>1, FS_Subset
  <2> QED
    BY <2>1, MinAndMaxAre
<1> QED
  BY <1>4, <1>11, <1>12 DEF D

----------------------------------------------------------------------------
(* Clipping                                                                *)

\* What is clipped is at most the norm, up or down.
LEMMA ClippedWithin ==
    ASSUME NEW g \in Int
    PROVE  Clipped(g) \in Int /\ -ClipNorm <= Clipped(g) /\ Clipped(g) <= ClipNorm
  BY AggregationAssumption DEF Clipped, Abs, AbsDiff

\* For any batch: one example more or less moves the sum of the clipped examples by no more than the
\* norm (dp_l2_clip, ClippingBoundsOneExample).
THEOREM OneExampleIsBounded ==
    ASSUME NEW batch \in Seq(Int), NEW p \in 1 .. Len(batch)
    PROVE  Abs(SumOfClipped(batch) - SumOfClipped(RemoveAt(batch, p))) <= ClipNorm
<1> DEFINE n == Len(batch)
           c == [i \in 1 .. n |-> Clipped(batch[i])]
           before == SubSeq(c, 1, p - 1)
           after == SubSeq(c, p + 1, n)
           less == RemoveAt(batch, p)
<1>1. n \in Nat /\ p \in 1 .. n /\ DOMAIN batch = 1 .. n /\ \A i \in 1 .. n : batch[i] \in Int
  OBVIOUS
<1> HIDE DEF n
<1>2. c \in Seq(Int) /\ Len(c) = n /\ \A i \in 1 .. n : c[i] = Clipped(batch[i])
  <2>1. c \in [1 .. n -> Int]
    BY <1>1, ClippedWithin
  <2> QED
    BY <1>1, <2>1
<1>3. SumOfClipped(batch) = Total(c)
  BY <1>1 DEF SumOfClipped, MapSeq
<1> HIDE DEF c
<1>4. /\ p - 1 \in 0 .. n /\ 1 \in 1 .. (n + 1) /\ p + 1 \in 1 .. (n + 1) /\ n \in 0 .. n /\ p \in Int
      /\ n \in Int /\ p - 1 \in Nat /\ n - p \in Nat
  BY <1>1
<1>5. /\ before \in Seq(Int) /\ Len(before) = p - 1 /\ \A i \in 1 .. (p - 1) : before[i] = c[i]
      /\ after \in Seq(Int) /\ Len(after) = n - p /\ \A i \in 1 .. (n - p) : after[i] = c[p + i]
  <2>1. p \in 1 .. Len(c) /\ n = Len(c) /\ c \in Seq(Int)
    BY <1>1, <1>2
  <2> QED
    BY <2>1, PartsAroundAre, Zenon
<1> DEFINE low == SubSeq(batch, 1, p - 1)
           high == SubSeq(batch, p + 1, n)
<1>6. /\ low \in Seq(Int) /\ Len(low) = p - 1 /\ \A i \in 1 .. (p - 1) : low[i] = batch[i]
      /\ high \in Seq(Int) /\ Len(high) = n - p /\ \A i \in 1 .. (n - p) : high[i] = batch[p + i]
  <2>1. batch \in Seq(Int) /\ Len(batch) = n
    BY DEF n
  <2> QED
    BY <2>1, PartsAroundAre DEF n
<1>7. less = low \o high
  BY DEF RemoveAt, n
<1> HIDE DEF before, after, low, high, less
<1>8. /\ less \in Seq(Int) /\ Len(less) = n - 1 /\ DOMAIN less = 1 .. (n - 1)
      /\ \A i \in 1 .. (p - 1) : less[i] = batch[i]
      /\ \A i \in p .. (n - 1) : less[i] = batch[i + 1]
  <2>1. /\ low \o high \in Seq(Int) /\ Len(low \o high) = Len(low) + Len(high)
        /\ low \o high = [i \in 1 .. (Len(low) + Len(high)) |-> (low \o high)[i]]
        /\ \A i \in 1 .. (Len(low) + Len(high)) :
             (low \o high)[i] = IF i <= Len(low) THEN low[i] ELSE high[i - Len(low)]
    BY <1>6, ConcatIs
  <2>2. /\ low \o high \in Seq(Int) /\ Len(low \o high) = (p - 1) + (n - p)
        /\ low \o high = [i \in 1 .. ((p - 1) + (n - p)) |-> (low \o high)[i]]
        /\ \A i \in 1 .. ((p - 1) + (n - p)) :
             (low \o high)[i] = IF i <= p - 1 THEN low[i] ELSE high[i - (p - 1)]
    BY <1>6, <2>1
  <2>3. /\ (p - 1) + (n - p) = n - 1
        /\ \A i \in 1 .. (p - 1) : i <= p - 1 /\ i \in 1 .. (n - 1)
        /\ \A i \in p .. (n - 1) : /\ ~(i <= p - 1) /\ i \in 1 .. (n - 1)
                                   /\ i - (p - 1) \in 1 .. (n - p) /\ p + (i - (p - 1)) = i + 1
    BY <1>4
  <2> QED
    BY <1>6, <1>7, <2>2, <2>3
<1>9. [i \in DOMAIN less |-> Clipped(less[i])] = before \o after
  <2> DEFINE z == before \o after
  <2>1. /\ z \in Seq(Int) /\ Len(z) = Len(before) + Len(after)
        /\ z = [i \in 1 .. (Len(before) + Len(after)) |-> z[i]]
        /\ \A i \in 1 .. (Len(before) + Len(after)) :
             z[i] = IF i <= Len(before) THEN before[i] ELSE after[i - Len(before)]
    BY <1>5, ConcatIs
  <2> HIDE DEF z
  <2>2. /\ z \in Seq(Int) /\ Len(z) = (p - 1) + (n - p)
        /\ z = [i \in 1 .. ((p - 1) + (n - p)) |-> z[i]]
        /\ \A i \in 1 .. ((p - 1) + (n - p)) :
             z[i] = IF i <= p - 1 THEN before[i] ELSE after[i - (p - 1)]
    BY <1>5, <2>1
  <2>3. /\ (p - 1) + (n - p) = n - 1
        /\ \A i \in 1 .. (n - 1) : i <= p - 1 => i \in 1 .. (p - 1) /\ i \in 1 .. n
        /\ \A i \in 1 .. (n - 1) : ~(i <= p - 1) => /\ i \in p .. (n - 1) /\ i + 1 \in 1 .. n
                                       /\ i - (p - 1) \in 1 .. (n - p) /\ p + (i - (p - 1)) = i + 1
    BY <1>4
  <2>4. \A i \in 1 .. (n - 1) : Clipped(less[i]) = z[i]
    <3> TAKE i \in 1 .. (n - 1)
    <3>1. CASE i <= p - 1
      BY <1>2, <1>5, <1>8, <2>2, <2>3, <3>1
    <3>2. CASE ~(i <= p - 1)
      BY <1>2, <1>5, <1>8, <2>2, <2>3, <3>2
    <3> QED
      BY <3>1, <3>2
  <2>5. z = [i \in 1 .. (n - 1) |-> z[i]]
    BY <2>2, <2>3
  <2> QED
    BY <1>8, <2>4, <2>5 DEF z
<1>10. SumOfClipped(less) = Total(before) + Total(after)
  <2>1. Total(before \o after) = Total(before) + Total(after)
    BY <1>5, TotalOfConcat
  <2> QED
    BY <1>9, <2>1 DEF SumOfClipped, MapSeq
<1>11. Total(c) = Total(before) + c[p] + Total(after)
  <2> DEFINE one == <<c[p]>>
             z == before \o (one \o after)
  <2>1. one \in Seq(Int) /\ Len(one) = 1 /\ one[1] = c[p] /\ c[p] \in Int
    BY <1>1, <1>2
  <2> HIDE DEF one
  <2>2. one \o after \in Seq(Int) /\ Len(one \o after) = n - p + 1
        /\ (one \o after)[1] = c[p]
        /\ \A i \in 2 .. (n - p + 1) : (one \o after)[i] = c[p + i - 1]
    <3>1. /\ one \o after \in Seq(Int) /\ Len(one \o after) = Len(one) + Len(after)
          /\ \A i \in 1 .. (Len(one) + Len(after)) :
               (one \o after)[i] = IF i <= Len(one) THEN one[i] ELSE after[i - Len(one)]
      BY <1>5, <2>1, ConcatIs
    <3>2. /\ one \o after \in Seq(Int) /\ Len(one \o after) = 1 + (n - p)
          /\ \A i \in 1 .. (1 + (n - p)) : (one \o after)[i] = IF i <= 1 THEN one[i] ELSE after[i - 1]
      BY <1>5, <2>1, <3>1
    <3>3. /\ 1 + (n - p) = n - p + 1 /\ 1 \in 1 .. (1 + (n - p)) /\ 1 <= 1
          /\ \A i \in 2 .. (n - p + 1) : /\ i \in 1 .. (1 + (n - p)) /\ ~(i <= 1) /\ i - 1 \in 1 .. (n - p)
                                         /\ p + (i - 1) = p + i - 1
      BY <1>4
    <3>4. (one \o after)[1] = c[p]
      BY <2>1, <3>2, <3>3
    <3>5. \A i \in 2 .. (n - p + 1) : (one \o after)[i] = c[p + i - 1]
      <4> TAKE i \in 2 .. (n - p + 1)
      <4>1. (one \o after)[i] = after[i - 1]
        BY <3>2, <3>3
      <4>2. i - 1 \in 1 .. (n - p) /\ p + (i - 1) = p + i - 1
        BY <3>3
      <4>3. after[i - 1] = c[p + (i - 1)]
        BY <1>5, <4>2
      <4> QED
        BY <4>1, <4>2, <4>3
    <3> QED
      BY <3>2, <3>3, <3>4, <3>5
  <2> DEFINE tail == one \o after
  <2>3. /\ z \in Seq(Int) /\ Len(z) = n
        /\ z = [i \in 1 .. n |-> z[i]]
        /\ \A i \in 1 .. n : z[i] = IF i <= p - 1 THEN before[i] ELSE tail[i - (p - 1)]
    <3> HIDE DEF tail
    <3>1. tail \in Seq(Int) /\ Len(tail) = n - p + 1
      BY <2>2 DEF tail
    <3>2. (p - 1) + (n - p + 1) = n
      BY <1>4
    <3>3. /\ before \o tail \in Seq(Int) /\ Len(before \o tail) = Len(before) + Len(tail)
          /\ before \o tail = [i \in 1 .. (Len(before) + Len(tail)) |-> (before \o tail)[i]]
          /\ \A i \in 1 .. (Len(before) + Len(tail)) :
               (before \o tail)[i] = IF i <= Len(before) THEN before[i] ELSE tail[i - Len(before)]
      BY <1>5, <3>1, ConcatIs
    <3>4. /\ before \o tail \in Seq(Int) /\ Len(before \o tail) = (p - 1) + (n - p + 1)
          /\ before \o tail = [i \in 1 .. ((p - 1) + (n - p + 1)) |-> (before \o tail)[i]]
          /\ \A i \in 1 .. ((p - 1) + (n - p + 1)) :
               (before \o tail)[i] = IF i <= p - 1 THEN before[i] ELSE tail[i - (p - 1)]
      BY <1>5, <3>3, <3>1
    <3> QED
      BY <3>2, <3>4 DEF tail
  <2> HIDE DEF z
  <2>4. \A i \in 1 .. n : z[i] = c[i]
    <3> TAKE i \in 1 .. n
    <3>1. CASE i <= p - 1
      <4>1. i \in 1 .. (p - 1)
        BY <1>4, <3>1
      <4> QED
        BY <1>5, <2>3, <3>1, <4>1
    <3>2. CASE i = p
      <4>1. ~(i <= p - 1) /\ i - (p - 1) = 1
        BY <1>4, <3>2
      <4> QED
        BY <2>2, <2>3, <3>2, <4>1
    <3>3. CASE i > p
      <4>1. ~(i <= p - 1) /\ i - (p - 1) \in 2 .. (n - p + 1) /\ p + (i - (p - 1)) - 1 = i
        BY <1>4, <3>3
      <4> QED
        BY <2>2, <2>3, <4>1
    <3> QED
      BY <1>4, <3>1, <3>2, <3>3
  <2>5. c = [i \in 1 .. n |-> c[i]]
    BY <1>2
  <2>6. z = c
    BY <2>3, <2>4, <2>5
  <2>7. Total(z) = Total(before) + (Total(one) + Total(after))
    BY <1>5, <2>1, <2>2, TotalOfConcat DEF z
  <2>8. Total(one) = c[p]
    BY <2>1, TotalOfOne DEF one
  <2>9. Total(before) \in Int /\ Total(after) \in Int
    BY <1>5, TotalType
  <2> QED
    BY <2>1, <2>6, <2>7, <2>8, <2>9
<1>12. Total(before) \in Int /\ Total(after) \in Int
  BY <1>5, TotalType
<1>13. c[p] \in Int /\ -ClipNorm <= c[p] /\ c[p] <= ClipNorm
  BY <1>1, <1>2, ClippedWithin
<1>14. SumOfClipped(batch) - SumOfClipped(less) = c[p]
  BY <1>3, <1>10, <1>11, <1>12, <1>13
<1>15. Abs(c[p]) <= ClipNorm
  BY <1>13, AggregationAssumption DEF Abs, AbsDiff
<1> QED
  BY <1>14, <1>15 DEF less

----------------------------------------------------------------------------
(* Compression                                                             *)

\* The magnitude of a number, and its order that of the squares.
LEMMA MagnitudesAre ==
    /\ \A x \in Int : Abs(x) \in Nat /\ (Abs(x) = x \/ Abs(x) = -x) /\ Abs(x) * Abs(x) = x * x
                      /\ Abs(x) >= x /\ Abs(x) >= -x
    /\ \A x, y \in Int : Abs(x) >= Abs(y) => x * x >= y * y
<1>1. \A x \in Int : Abs(x) \in Nat /\ (Abs(x) = x \/ Abs(x) = -x) /\ Abs(x) >= x /\ Abs(x) >= -x
  BY DEF Abs, AbsDiff
<1>2. \A x \in Int : (-x) * (-x) = x * x
  OBVIOUS
<1>3. \A x \in Int : Abs(x) * Abs(x) = x * x
  <2> TAKE x \in Int
  <2>1. CASE Abs(x) = x
    BY <2>1
  <2>2. CASE Abs(x) = -x
    BY <1>2, <2>2
  <2> QED
    BY <1>1, <2>1, <2>2
<1>4. \A a, b \in Nat : a >= b => a * a >= b * b
  <2> TAKE a \in Nat, b \in Nat
  <2> HAVE a >= b
  <2>1. a * a - b * b = (a - b) * (a + b) /\ a - b \in Nat /\ a + b \in Nat
    OBVIOUS
  <2>2. (a - b) * (a + b) >= 0
    BY <2>1
  <2>3. a * a \in Int /\ b * b \in Int
    OBVIOUS
  <2> QED
    BY <2>1, <2>2, <2>3
<1>5. \A x, y \in Int : Abs(x) >= Abs(y) => x * x >= y * y
  <2> TAKE x \in Int, y \in Int
  <2> HAVE Abs(x) >= Abs(y)
  <2>1. Abs(x) * Abs(x) >= Abs(y) * Abs(y)
    BY <1>1, <1>4
  <2> QED
    BY <1>3, <2>1
<1> QED
  BY <1>1, <1>3, <1>5

\* What stays of an update if only some of its parameters are sent.
Sent(u, S) == [i \in DOMAIN u |-> IF i \in S THEN u[i] ELSE 0]

\* The squares of an update.
Squared(u) == [i \in DOMAIN u |-> u[i] * u[i]]

\* What is not sent is the distance from the update.
LEMMA DistanceSent ==
    ASSUME NEW n \in Nat, NEW u \in [1 .. n -> Int], NEW S \in SUBSET (1 .. n)
    PROVE  SquaredDistance(u, Sent(u, S)) = SumFunctionOnSet(Squared(u), (1 .. n) \ S)
<1> DEFINE D == 1 .. n
           d == [i \in D |-> (u[i] - Sent(u, S)[i]) * (u[i] - Sent(u, S)[i])]
           w == D \ S
<1> HIDE DEF D, d, w
<1>1. DOMAIN u = D
  BY DEF D
<1>2. SquaredDistance(u, Sent(u, S)) = SumFunctionOnSet(d, D)
  BY <1>1 DEF SquaredDistance, Total, SumFunction, d
<1>3. \A i \in S : i \in D /\ d[i] = 0
  <2> TAKE i \in S
  <2>1. i \in D /\ u[i] \in Int
    BY DEF D
  <2>2. Sent(u, S)[i] = u[i]
    BY <1>1, <2>1 DEF Sent
  <2>3. u[i] - u[i] = 0
    BY <2>1
  <2> QED
    BY <2>1, <2>2, <2>3 DEF d
<1>4. \A i \in w : d[i] = Squared(u)[i] /\ d[i] \in Int
  <2> TAKE i \in w
  <2>1. i \in D /\ i \notin S /\ u[i] \in Int
    BY DEF D, w
  <2>2. Sent(u, S)[i] = 0
    BY <1>1, <2>1 DEF Sent
  <2>3. u[i] - 0 = u[i] /\ u[i] * u[i] \in Int
    BY <2>1
  <2> QED
    BY <1>1, <2>1, <2>2, <2>3 DEF d, Squared
<1>5. IsFiniteSet(D) /\ IsFiniteSet(S) /\ IsFiniteSet(w) /\ S \cap w = {} /\ S \cup w = D
  <2>1. 1 \in Int /\ n \in Int
    OBVIOUS
  <2>2. IsFiniteSet(D)
    BY <2>1, FS_Interval DEF D
  <2>3. S \subseteq D /\ w \subseteq D
    BY DEF D, w
  <2> QED
    BY <2>2, <2>3, FS_Subset DEF w
<1>6. SumFunctionOnSet(d, S) = 0
  <2>1. 0 \in Int /\ \A i \in S : d[i] = 0
    BY <1>3
  <2>2. SumFunctionOnSet(d, S) = Cardinality(S) * 0
    BY <1>5, <2>1, SumConstant
  <2>3. Cardinality(S) \in Nat
    BY <1>5, FS_CardinalityType
  <2> QED
    BY <2>2, <2>3
<1>7. SumFunctionOnSet(d, w) = SumFunctionOnSet(Squared(u), w) /\ SumFunctionOnSet(d, w) \in Int
  BY <1>4, <1>5, SumAgree, SumType
<1>8. SumFunctionOnSet(d, S \cup w) = SumFunctionOnSet(d, S) + SumFunctionOnSet(d, w)
  <2>1. \A i \in S \cup w : d[i] \in Int
    BY <1>3, <1>4
  <2> QED
    BY <1>5, <2>1, SumUnion
<1>9. SumFunctionOnSet(d, D) = SumFunctionOnSet(Squared(u), w)
  <2>1. SumFunctionOnSet(d, D) = SumFunctionOnSet(d, S) + SumFunctionOnSet(d, w)
    BY <1>5, <1>8, Zenon
  <2> QED
    BY <1>6, <1>7, <2>1
<1> QED
  BY <1>2, <1>9 DEF w, D

\* As many of the values of a set as there are of a smaller one, each at least all of that one's,
\* add up to at least as much.
LEMMA LargerAddUp ==
    ASSUME NEW A, IsFiniteSet(A), NEW B, IsFiniteSet(B), Cardinality(B) <= Cardinality(A),
           NEW f, \A i \in A \cup B : f[i] \in Nat, \A i \in A, j \in B : f[i] >= f[j]
    PROVE  SumFunctionOnSet(f, B) <= SumFunctionOnSet(f, A)
<1>1. \A i \in A \cup B : f[i] \in Int /\ f[i] >= 0
  OBVIOUS
<1>2. Cardinality(A) \in Nat /\ Cardinality(B) \in Nat
  BY FS_CardinalityType
<1>3. SumFunctionOnSet(f, A) \in Nat /\ SumFunctionOnSet(f, B) \in Nat
  BY SumSubset
<1>4. CASE A = {}
  <2>1. Cardinality(A) = 0
    BY <1>4, FS_EmptySet
  <2>2. Cardinality(B) = 0
    BY <1>2, <2>1
  <2>3. B = {}
    BY <2>2, FS_EmptySet
  <2> QED
    BY <1>3, <1>4, <2>3
<1>5. CASE A # {}
  <2> DEFINE v == [i \in A |-> -f[i]]
  <2>1. v \in [A -> Int]
    BY <1>1
  <2>2. PICK m \in A : \A i \in A : v[i] <= v[m]
    BY <1>5, <2>1, GreatestValue
  <2>3. f[m] \in Int /\ f[m] >= 0
    BY <1>1
  <2>4. \A i \in A : f[m] <= f[i]
    <3> TAKE i \in A
    <3>1. -f[i] <= -f[m] /\ f[i] \in Int
      BY <1>1, <2>2
    <3> QED
      BY <2>3, <3>1
  <2> HIDE DEF v
  <2> DEFINE c == [i \in A \cup B |-> f[m]]
  <2>5. \A i \in A \cup B : c[i] = f[m]
    OBVIOUS
  <2> HIDE DEF c
  <2>6. SumFunctionOnSet(c, A) = Cardinality(A) * f[m] /\ SumFunctionOnSet(c, B) = Cardinality(B) * f[m]
    BY <2>3, <2>5, SumConstant
  <2>7. SumFunctionOnSet(f, B) <= SumFunctionOnSet(c, B)
    <3>1. \A j \in B : f[j] \in Int /\ c[j] \in Int /\ f[j] <= c[j]
      BY <1>1, <2>3, <2>5
    <3> QED
      BY <3>1, SumMonotone
  <2>8. SumFunctionOnSet(c, A) <= SumFunctionOnSet(f, A)
    <3>1. \A j \in A : f[j] \in Int /\ c[j] \in Int /\ c[j] <= f[j]
      BY <1>1, <2>3, <2>4, <2>5
    <3> QED
      BY <3>1, SumMonotone
  <2>9. Cardinality(B) * f[m] <= Cardinality(A) * f[m]
    <3>1. \A x, y, z \in Nat : x <= y => x * z <= y * z
      <4> TAKE x \in Nat, y \in Nat, z \in Nat
      <4> HAVE x <= y
      <4>1. y * z - x * z = (y - x) * z /\ y - x \in Nat
        OBVIOUS
      <4>2. (y - x) * z >= 0 /\ y * z \in Int /\ x * z \in Int
        BY <4>1
      <4> QED
        BY <4>1, <4>2
    <3>2. f[m] \in Nat
      OBVIOUS
    <3> QED
      BY <1>2, <3>1, <3>2
  <2>10. Cardinality(A) * f[m] \in Int /\ Cardinality(B) * f[m] \in Int
    BY <1>2, <2>3
  <2> QED
    BY <1>3, <2>6, <2>7, <2>8, <2>9, <2>10
<1> QED
  BY <1>4, <1>5

\* For an update of any length and any k: of all ways to send as many of its values as the sparse
\* update has, none is closer to it (_topk_sparsify, CompressionClosest).
THEOREM SparseIsClosest ==
    ASSUME NEW n \in Nat, NEW u \in [1 .. n -> Int], NEW S \in SUBSET (1 .. n),
           \A i \in S, j \in (1 .. n) \ S : Abs(u[i]) >= Abs(u[j]),
           NEW T \in SUBSET (1 .. n), Cardinality(T) <= NonZeros(Sent(u, S))
    PROVE  SquaredDistance(u, Sent(u, S)) <= SquaredDistance(u, Sent(u, T))
<1> DEFINE D == 1 .. n
           f == Squared(u)
           A == S \ T
           B == T \ S
           both == S \cap T
           none == D \ (S \cup T)
           sent == {i \in D : Sent(u, S)[i] # 0}
<1> HIDE DEF D, f, A, B, both, none, sent
<1>1. DOMAIN u = D /\ S \subseteq D /\ T \subseteq D
  BY DEF D
<1>2. \A i \in D : f[i] \in Nat /\ f[i] \in Int
  <2> TAKE i \in D
  <2>1. u[i] \in Int
    BY DEF D
  <2>2. u[i] * u[i] \in Nat
    BY <2>1, Squares
  <2> QED
    BY <1>1, <2>2 DEF f, Squared
<1>3. \A i \in A, j \in B : f[i] >= f[j]
  <2> TAKE i \in A, j \in B
  <2>1. i \in S /\ j \in (1 .. n) \ S /\ u[i] \in Int /\ u[j] \in Int /\ i \in D /\ j \in D
    BY DEF A, B, D
  <2>2. Abs(u[i]) >= Abs(u[j])
    BY <2>1
  <2>3. u[i] * u[i] >= u[j] * u[j]
    BY <2>1, <2>2, MagnitudesAre
  <2> QED
    BY <1>1, <2>1, <2>3 DEF f, Squared
<1>4. IsFiniteSet(D)
  <2>1. 1 \in Int /\ n \in Int
    OBVIOUS
  <2> QED
    BY <2>1, FS_Interval DEF D
<1>5. /\ A \subseteq D /\ B \subseteq D /\ both \subseteq D /\ none \subseteq D /\ sent \subseteq S
      /\ S \subseteq D /\ T \subseteq D
  <2>1. \A i \in D : i \notin S => Sent(u, S)[i] = 0
    BY <1>1 DEF Sent
  <2> QED
    BY <1>1, <2>1 DEF A, B, both, none, sent, D
<1>6. /\ IsFiniteSet(A) /\ IsFiniteSet(B) /\ IsFiniteSet(both) /\ IsFiniteSet(none)
      /\ IsFiniteSet(S) /\ IsFiniteSet(T) /\ IsFiniteSet(sent)
  <2>1. IsFiniteSet(A) /\ IsFiniteSet(B)
    BY <1>4, <1>5, FS_Subset
  <2>2. IsFiniteSet(both) /\ IsFiniteSet(none)
    BY <1>4, <1>5, FS_Subset
  <2>3. IsFiniteSet(S) /\ IsFiniteSet(T)
    BY <1>4, <1>5, FS_Subset
  <2>4. IsFiniteSet(sent)
    BY <1>5, <2>3, FS_Subset
  <2> QED
    BY <2>1, <2>2, <2>3, <2>4
<1>7. Cardinality(B) <= Cardinality(A)
  <2>1. /\ Cardinality(A) \in Nat /\ Cardinality(B) \in Nat /\ Cardinality(both) \in Nat
        /\ Cardinality(S) \in Nat /\ Cardinality(T) \in Nat /\ Cardinality(sent) \in Nat
    BY <1>6, FS_CardinalityType
  <2>2. Cardinality(sent) <= Cardinality(S)
    BY <1>5, <1>6, FS_Subset
  <2>3. Cardinality(T) <= Cardinality(sent)
    <3>1. DOMAIN Sent(u, S) = D
      BY <1>1 DEF Sent
    <3> QED
      BY <3>1 DEF NonZeros, sent
  <2>4. Cardinality(A \cup both) = Cardinality(A) + Cardinality(both) - Cardinality(A \cap both)
    BY <1>6, FS_Union
  <2>5. Cardinality(B \cup both) = Cardinality(B) + Cardinality(both) - Cardinality(B \cap both)
    BY <1>6, FS_Union
  <2>6. A \cup both = S /\ B \cup both = T /\ A \cap both = {} /\ B \cap both = {}
    BY DEF A, B, both
  <2>7. Cardinality(S) = Cardinality(A) + Cardinality(both) - 0
    BY <2>4, <2>6, FS_EmptySet, Zenon
  <2>8. Cardinality(T) = Cardinality(B) + Cardinality(both) - 0
    BY <2>5, <2>6, FS_EmptySet, Zenon
  <2> QED
    BY <2>1, <2>2, <2>3, <2>7, <2>8
<1>8. SumFunctionOnSet(f, B) <= SumFunctionOnSet(f, A)
  <2>1. \A i \in A \cup B : f[i] \in Nat
    BY <1>2, <1>5
  <2> QED
    BY <1>3, <1>6, <1>7, <2>1, LargerAddUp
<1>9. SumFunctionOnSet(f, D \ S) = SumFunctionOnSet(f, none) + SumFunctionOnSet(f, B)
  <2>1. D \ S = none \cup B /\ none \cap B = {}
    BY <1>5 DEF none, B
  <2>2. \A i \in none \cup B : f[i] \in Int
    BY <1>2, <1>5
  <2>3. SumFunctionOnSet(f, none \cup B) = SumFunctionOnSet(f, none) + SumFunctionOnSet(f, B)
    BY <1>6, <2>1, <2>2, SumUnion
  <2> QED
    BY <2>1, <2>3, Zenon
<1>10. SumFunctionOnSet(f, D \ T) = SumFunctionOnSet(f, none) + SumFunctionOnSet(f, A)
  <2>1. D \ T = none \cup A /\ none \cap A = {}
    BY <1>5 DEF none, A
  <2>2. \A i \in none \cup A : f[i] \in Int
    BY <1>2, <1>5
  <2>3. SumFunctionOnSet(f, none \cup A) = SumFunctionOnSet(f, none) + SumFunctionOnSet(f, A)
    BY <1>6, <2>1, <2>2, SumUnion
  <2> QED
    BY <2>1, <2>3, Zenon
<1>11. SquaredDistance(u, Sent(u, S)) = SumFunctionOnSet(f, D \ S)
  BY DistanceSent DEF f, D
<1>12. SquaredDistance(u, Sent(u, T)) = SumFunctionOnSet(f, D \ T)
  BY DistanceSent DEF f, D
<1>13. SumFunctionOnSet(f, none) \in Int /\ SumFunctionOnSet(f, A) \in Int /\ SumFunctionOnSet(f, B) \in Int
  <2>1. \A i \in none : f[i] \in Int
    BY <1>2, <1>5
  <2>2. \A i \in A : f[i] \in Int
    BY <1>2, <1>5
  <2>3. \A i \in B : f[i] \in Int
    BY <1>2, <1>5
  <2> QED
    BY <1>6, <2>1, <2>2, <2>3, SumType
<1> QED
  BY <1>8, <1>9, <1>10, <1>11, <1>12, <1>13

\* A quotient rounded to the nearest, ties to the even one, is at most half away.
LEMMA RoundedIsNear ==
    ASSUME NEW n \in Int, NEW d \in Nat \ {0}
    PROVE  LET r == RoundHalfEven(n, d)
           IN  /\ r \in Int
               /\ -d <= 2 * (r * d - n) /\ 2 * (r * d - n) <= d
<1> DEFINE q == n \div d
           rest == n % d
<1>1. q \in Int /\ rest \in Int /\ 0 <= rest /\ rest < d /\ n = d * q + rest /\ d \in Int
  OBVIOUS
<1>2. RoundHalfEven(n, d) = IF 2 * rest > d \/ (2 * rest = d /\ q % 2 = 1) THEN q + 1 ELSE q
  BY DEF RoundHalfEven
<1> HIDE DEF q, rest
<1>3. q * d = d * q /\ (q + 1) * d = d * q + d /\ d * q \in Int
  BY <1>1
<1>4. CASE 2 * rest > d \/ (2 * rest = d /\ q % 2 = 1)
  <2>1. RoundHalfEven(n, d) = q + 1
    BY <1>2, <1>4
  <2>2. 2 * rest >= d
    BY <1>1, <1>4
  <2>3. (q + 1) * d - n = d - rest
    BY <1>1, <1>3
  <2> QED
    BY <1>1, <2>1, <2>2, <2>3
<1>5. CASE ~(2 * rest > d \/ (2 * rest = d /\ q % 2 = 1))
  <2>1. RoundHalfEven(n, d) = q
    BY <1>2, <1>5
  <2>2. 2 * rest <= d
    BY <1>1, <1>5
  <2>3. q * d - n = -rest
    BY <1>1, <1>3
  <2> QED
    BY <1>1, <2>1, <2>2, <2>3
<1> QED
  BY <1>4, <1>5

\* For every number and every scale that is at least its magnitude: a quantised number stands for one
\* that is at most half a step away.
LEMMA QuantizedIsNear ==
    ASSUME NEW x \in Int, NEW top \in Nat \ {0}, Abs(x) <= top
    PROVE  LET q == Clamp(RoundHalfEven(x * Levels, top), -Levels, Levels)
           IN  q \in Int /\ 2 * Abs(q * top - x * Levels) <= top
<1> DEFINE r == RoundHalfEven(x * Levels, top)
           y == x * Levels
<1>1. y \in Int /\ Levels = 127
  BY DEF Levels
<1>2. r \in Int /\ -top <= 2 * (r * top - y) /\ 2 * (r * top - y) <= top
  <2> HIDE DEF y
  <2> QED
    BY <1>1, RoundedIsNear DEF y
<1>3. -top <= x /\ x <= top /\ top \in Int /\ top > 0
  <2>1. Abs(x) >= x /\ Abs(x) >= -x /\ Abs(x) \in Nat
    BY MagnitudesAre
  <2>2. top \in Int /\ top > 0
    OBVIOUS
  <2> QED
    BY <2>1, <2>2
<1>4. -(127 * top) <= y /\ y <= 127 * top
  BY <1>1, <1>3
<1> HIDE DEF r, y
<1>5. r <= 127
  <2> SUFFICES ASSUME r > 127 PROVE FALSE
    BY <1>2
  <2>1. r - 128 \in Nat
    BY <1>2
  <2>2. (r - 128) * top >= 0 /\ (r - 128) * top = r * top - 128 * top /\ r * top \in Int
    BY <1>2, <1>3, <2>1
  <2> QED
    BY <1>1, <1>2, <1>3, <1>4, <2>2
<1>6. r >= -127
  <2> SUFFICES ASSUME r < -127 PROVE FALSE
    BY <1>2
  <2>1. -128 - r \in Nat
    BY <1>2
  <2>2. (-128 - r) * top >= 0 /\ (-128 - r) * top = -(128 * top) - r * top /\ r * top \in Int
    BY <1>2, <1>3, <2>1
  <2> QED
    BY <1>1, <1>2, <1>3, <1>4, <2>2
<1>7. Clamp(r, -Levels, Levels) = r
  BY <1>1, <1>2, <1>5, <1>6 DEF Clamp, Larger, Smaller
<1>8. r * top - y \in Int
  BY <1>1, <1>2, <1>3
<1>9. 2 * Abs(r * top - y) <= top
  <2> DEFINE z == r * top - y
  <2>1. Abs(z) = z \/ Abs(z) = -z
    BY <1>8, MagnitudesAre
  <2>2. z \in Int /\ -top <= 2 * z /\ 2 * z <= top
    BY <1>2, <1>8
  <2> HIDE DEF z
  <2>3. 2 * Abs(z) <= top
    BY <1>3, <2>1, <2>2
  <2> QED
    BY <2>3 DEF z
<1> QED
  BY <1>2, <1>7, <1>9 DEF r, y

----------------------------------------------------------------------------
(* The encrypted sum                                                       *)

\* The sum of the agents' values of each place.
Added(flats, n) == [i \in 1 .. n |-> Total([a \in DOMAIN flats |-> flats[a][i]])]

\* There are as many ciphertexts as it takes to hold all values, and not one more.
LEMMA ChunksAre ==
    ASSUME NEW n \in Nat
    PROVE  /\ Chunks(n) \in Nat /\ n <= Chunks(n) * SlotCount
           /\ \A c \in 1 .. Chunks(n) : (c - 1) * SlotCount \in Nat /\ (c - 1) * SlotCount < n
<1> DEFINE m == n + SlotCount - 1
           q == m \div SlotCount
           rest == m % SlotCount
<1>1. SlotCount \in Int /\ SlotCount > 0 /\ SlotCount \in Nat
  BY AggregationAssumption
<1>2. m \in Int /\ m >= 0
  BY <1>1
<1>3. Chunks(n) = q
  BY DEF Chunks
<1> HIDE DEF m
<1>4. q \in Int /\ rest \in Int /\ 0 <= rest /\ rest < SlotCount /\ m = SlotCount * q + rest
  BY <1>1, <1>2
<1> HIDE DEF q, rest
<1>5. SlotCount * q = q * SlotCount /\ q * SlotCount \in Int
  BY <1>1, <1>4
<1>6. m = n + SlotCount - 1
  BY DEF m
<1>7. n <= q * SlotCount
  BY <1>1, <1>4, <1>5, <1>6
<1>8. q >= 0
  <2> SUFFICES ASSUME q < 0 PROVE FALSE
    BY <1>4
  <2>1. -1 - q \in Nat
    BY <1>4
  <2>2. (-1 - q) * SlotCount >= 0 /\ (-1 - q) * SlotCount = -SlotCount - q * SlotCount
    BY <1>1, <1>4, <2>1
  <2> QED
    BY <1>1, <1>2, <1>4, <1>5, <2>2
<1>9. ASSUME NEW c \in 1 .. q
      PROVE  (c - 1) * SlotCount \in Nat /\ (c - 1) * SlotCount < n
  <2>1. c - 1 \in Nat /\ q - c \in Nat
    BY <1>4
  <2>2. (c - 1) * SlotCount \in Nat
    BY <1>1, <2>1
  <2>3. (q - c) * SlotCount >= 0
    BY <1>1, <2>1
  <2>4. (q - c) * SlotCount = q * SlotCount - c * SlotCount /\ (c - 1) * SlotCount = c * SlotCount - SlotCount
        /\ c * SlotCount \in Int
    BY <1>1, <1>4, <2>1
  <2> QED
    BY <1>1, <1>4, <1>5, <1>6, <2>2, <2>3, <2>4
<1> QED
  BY <1>3, <1>4, <1>7, <1>8, <1>9

\* A ciphertext of the sum holds the sums of the places it stands for.
LEMMA ChunkSumIs ==
    ASSUME NEW n \in Nat, NEW m \in Nat, m > 0, NEW flats \in Updates(m, n),
           NEW low \in Nat, NEW high \in Nat, low < n, high <= n, low <= high,
           NEW c \in Nat, (c - 1) * SlotCount = low, Smaller(c * SlotCount, n) = high
    PROVE  LET z == ChunkSum(flats, c)
           IN  /\ z \in Seq(Int) /\ Len(z) = high - low
               /\ \A i \in 1 .. (high - low) : z[i] = Added(flats, n)[low + i]
<1> DEFINE z == ChunkSum(flats, c)
           k == high - low
<1>1. k \in Nat /\ DOMAIN flats = 1 .. m /\ 1 \in 1 .. m
  BY DEF Updates
<1>2. ASSUME NEW a \in 1 .. m
      PROVE  /\ DOMAIN Chunk(flats[a], c) = 1 .. k
             /\ \A i \in 1 .. k : Chunk(flats[a], c)[i] = flats[a][low + i] /\ low + i \in 1 .. n
  <2> DEFINE f == flats[a]
  <2>1. f \in [1 .. n -> Int]
    BY DEF Updates
  <2> HIDE DEF f
  <2>2. f \in Seq(Int) /\ Len(f) = n
    BY <2>1
  <2>3. Chunk(f, c) = SubSeq(f, low + 1, high)
    BY <2>2 DEF Chunk
  <2>4. /\ DOMAIN SubSeq(f, low + 1, high) = 1 .. k
        /\ \A i \in 1 .. k : SubSeq(f, low + 1, high)[i] = f[low + i] /\ low + i \in 1 .. n
    BY <2>2, PartIs
  <2> QED
    BY <2>3, <2>4 DEF f
<1>3. z = [i \in 1 .. k |-> Total([a \in 1 .. m |-> Chunk(flats[a], c)[i]])]
  BY <1>1, <1>2 DEF ChunkSum
<1> HIDE DEF z, k
<1>4. ASSUME NEW i \in 1 .. k
      PROVE  z[i] = Added(flats, n)[low + i] /\ z[i] \in Int
  <2>1. \A a \in 1 .. m : Chunk(flats[a], c)[i] = flats[a][low + i]
    BY <1>2
  <2>2. low + i \in 1 .. n
    BY <1>1, <1>2
  <2> DEFINE v == [a \in 1 .. m |-> flats[a][low + i]]
  <2>3. [a \in 1 .. m |-> Chunk(flats[a], c)[i]] = v
    BY <2>1
  <2>4. z[i] = Total(v)
    <3> HIDE DEF v
    <3> QED
      BY <1>3, <2>3
  <2>5. Added(flats, n)[low + i] = Total(v)
    BY <1>1, <2>2 DEF Added
  <2>6. v \in [1 .. m -> Int]
    BY <2>2 DEF Updates
  <2> HIDE DEF v
  <2>7. v \in Seq(Int)
    BY <2>6
  <2> QED
    BY <2>4, <2>5, <2>7, TotalType
<1>5. z \in [1 .. k -> Int]
  BY <1>3, <1>4
<1>6. z \in Seq(Int) /\ Len(z) = k
  BY <1>1, <1>5
<1> QED
  BY <1>4, <1>6 DEF z, k

\* For any number of agents, values and slots: put together, the ciphertexts hold the sum of every
\* place once and in order (_aggregate_ckks_sum).
THEOREM EncryptedSumIs ==
    ASSUME NEW n \in Nat, NEW m \in Nat, m > 0, NEW flats \in [1 .. m -> [1 .. n -> Int]]
    PROVE  EncryptedSum(flats) = Added(flats, n)
<1> DEFINE last == Chunks(n)
           held(c) == Smaller(c * SlotCount, n)
           G == [p \in Int \X Seq(Int) |-> p[2] \o ChunkSum(flats, p[1])]
           Body(f) == [c \in 0 .. last |-> IF c = 0 THEN <<>> ELSE f[c - 1] \o ChunkSum(flats, c)]
           upTo == CHOOSE f : f = Body(f)
           Good(x, c) == /\ x \in Seq(Int) /\ Len(x) = held(c)
                         /\ \A i \in 1 .. held(c) : x[i] = Added(flats, n)[i]
<1>1. flats \in Updates(m, n)
  BY DEF Updates
<1>2. flats[1] \in Seq(Int) /\ Len(flats[1]) = n
  <2>1. flats[1] \in [1 .. n -> Int]
    OBVIOUS
  <2> QED
    BY <2>1
<1>3. EncryptedSum(flats) = upTo[last]
  BY <1>2 DEF EncryptedSum, SumOfChunks
<1>4. last \in Nat /\ 0 \in Int /\ last \in Int /\ 0 <= last
  BY ChunksAre
<1> HIDE DEF last
<1>5. PICK f : f = [c \in 0 .. last |-> IF c = 0 THEN <<>> ELSE G[<<c, f[c - 1]>>]]
  <2> HIDE DEF G
  <2>1. \E f : Recursive(f, 0, last, <<>>, G)
    BY <1>4, RecursionExists
  <2> QED
    BY <2>1 DEF Recursive
<1>6. ASSUME NEW c \in 1 .. last, f[c - 1] \in Seq(Int)
      PROVE  f[c] = f[c - 1] \o ChunkSum(flats, c)
  <2>1. c \in Int /\ c \in 0 .. last /\ c # 0
    BY <1>4
  <2>2. f[c] = G[<<c, f[c - 1]>>]
    <3> HIDE DEF G
    <3> QED
      BY <1>5, <2>1
  <2>3. <<c, f[c - 1]>> \in Int \X Seq(Int)
    BY <1>6, <2>1
  <2> QED
    BY <2>2, <2>3
<1> HIDE DEF G, Good, held
<1>7. ASSUME NEW c \in 1 .. last, NEW x, Good(x, c - 1)
      PROVE  Good(x \o ChunkSum(flats, c), c)
  <2> DEFINE low == (c - 1) * SlotCount
             high == held(c)
             z == ChunkSum(flats, c)
  <2>1. low \in Nat /\ low < n
    BY <1>7, ChunksAre DEF last
  <2>2. c * SlotCount \in Nat /\ c * SlotCount > low /\ c \in Nat
    <3>1. SlotCount \in Int /\ SlotCount > 0
      BY AggregationAssumption
    <3>2. c \in Nat /\ c \in Int
      BY <1>4
    <3>3. c * SlotCount = low + SlotCount
      BY <3>1, <3>2
    <3> QED
      BY <2>1, <3>1, <3>2, <3>3
  <2> HIDE DEF low
  <2>3. held(c - 1) = low
    BY <2>1 DEF held, Smaller, low
  <2>4. high \in Nat /\ high <= n /\ low <= high /\ Smaller(c * SlotCount, n) = high
    BY <2>1, <2>2 DEF held, Smaller
  <2> HIDE DEF high, z
  <2>5. /\ z \in Seq(Int) /\ Len(z) = high - low
        /\ \A i \in 1 .. (high - low) : z[i] = Added(flats, n)[low + i]
    <3>1. (c - 1) * SlotCount = low
      BY DEF low
    <3>2. /\ ChunkSum(flats, c) \in Seq(Int) /\ Len(ChunkSum(flats, c)) = high - low
          /\ \A i \in 1 .. (high - low) : ChunkSum(flats, c)[i] = Added(flats, n)[low + i]
      BY <1>1, <2>1, <2>2, <2>4, <3>1, ChunkSumIs
    <3> QED
      BY <3>2 DEF z
  <2>6. x \in Seq(Int) /\ Len(x) = low /\ \A i \in 1 .. low : x[i] = Added(flats, n)[i]
    BY <1>7, <2>3 DEF Good
  <2>7. /\ x \o z \in Seq(Int) /\ Len(x \o z) = Len(x) + Len(z)
        /\ \A i \in 1 .. (Len(x) + Len(z)) :
             (x \o z)[i] = IF i <= Len(x) THEN x[i] ELSE z[i - Len(x)]
    BY <2>5, <2>6, ConcatIs
  <2>8. Len(x) + Len(z) = high
    BY <2>1, <2>4, <2>5, <2>6
  <2>9. ASSUME NEW i \in 1 .. high
        PROVE  (x \o z)[i] = Added(flats, n)[i]
    <3>1. CASE i <= low
      <4>1. i \in 1 .. low
        BY <2>1, <2>4, <3>1
      <4> QED
        BY <2>6, <2>7, <2>8, <3>1, <4>1
    <3>2. CASE ~(i <= low)
      <4>1. i - low \in 1 .. (high - low) /\ low + (i - low) = i
        BY <2>1, <2>4, <3>2
      <4>2. (x \o z)[i] = z[i - low]
        BY <2>6, <2>7, <2>8, <3>2
      <4>3. z[i - low] = Added(flats, n)[low + (i - low)]
        BY <2>5, <4>1
      <4> QED
        BY <4>1, <4>2, <4>3
    <3> QED
      BY <3>1, <3>2
  <2> QED
    BY <2>7, <2>8, <2>9 DEF Good, high, z
<1>8. Good(<<>>, 0)
  <2>1. held(0) = 0
    BY AggregationAssumption DEF held, Smaller
  <2> QED
    BY <2>1 DEF Good
<1> DEFINE S == {c \in Nat : c <= last => Good(f[c], c)}
<1>9. 0 \in S
  <2>1. f[0] = <<>>
    BY <1>4, <1>5
  <2> QED
    BY <1>8, <2>1
<1>10. ASSUME NEW j \in Nat, j \in S
      PROVE  j + 1 \in S
  <2> SUFFICES ASSUME j + 1 <= last PROVE Good(f[j + 1], j + 1)
    OBVIOUS
  <2> DEFINE c == j + 1
  <2>1. c \in 1 .. last /\ c - 1 = j /\ j <= last
    BY <1>4
  <2>2. Good(f[c - 1], c - 1)
    BY <1>10, <2>1
  <2> HIDE DEF c
  <2>3. f[c - 1] \in Seq(Int)
    BY <2>2 DEF Good
  <2>4. f[c] = f[c - 1] \o ChunkSum(flats, c)
    BY <1>6, <2>1, <2>3
  <2>5. Good(f[c], c)
    BY <1>7, <2>1, <2>2, <2>4
  <2> QED
    BY <2>5 DEF c
<1> HIDE DEF S
<1>11. Nat \subseteq S
  BY <1>9, <1>10, SetInduction
<1>12. \A c \in 0 .. last : Good(f[c], c)
  BY <1>4, <1>11 DEF S
<1>13. f = Body(f)
  <2>1. \A c \in 0 .. last : f[c] = IF c = 0 THEN <<>> ELSE f[c - 1] \o ChunkSum(flats, c)
    <3> TAKE c \in 0 .. last
    <3>1. CASE c = 0
      BY <1>4, <1>5, <3>1
    <3>2. CASE c # 0
      <4>1. c \in 1 .. last /\ c - 1 \in 0 .. last
        BY <1>4, <3>2
      <4>2. f[c - 1] \in Seq(Int)
        BY <1>12, <4>1 DEF Good
      <4> QED
        BY <1>6, <3>2, <4>1, <4>2
    <3> QED
      BY <3>1, <3>2
  <2>2. f = [c \in 0 .. last |-> f[c]]
    BY <1>5
  <2> QED
    BY <2>1, <2>2
<1>14. upTo = Body(upTo)
  BY <1>13
<1> HIDE DEF upTo
<1> DEFINE R == {c \in Nat : c <= last => upTo[c] = f[c]}
<1>15. 0 \in R
  BY <1>4, <1>13, <1>14
<1>16. ASSUME NEW j \in Nat, j \in R
       PROVE  j + 1 \in R
  <2> SUFFICES ASSUME j + 1 <= last PROVE upTo[j + 1] = f[j + 1]
    OBVIOUS
  <2>1. j + 1 \in 0 .. last /\ j + 1 # 0 /\ (j + 1) - 1 = j /\ j <= last
    BY <1>4
  <2>2. upTo[j] = f[j]
    BY <1>16, <2>1
  <2>3. upTo[j + 1] = upTo[j] \o ChunkSum(flats, j + 1)
    BY <1>14, <2>1
  <2>4. f[j + 1] = f[j] \o ChunkSum(flats, j + 1)
    BY <1>13, <2>1
  <2> QED
    BY <2>2, <2>3, <2>4
<1> HIDE DEF R
<1>17. last \in R
  BY <1>4, <1>15, <1>16, SetInduction
<1>18. upTo[last] = f[last]
  BY <1>4, <1>17 DEF R
<1>19. Good(f[last], last)
  BY <1>4, <1>12
<1>20. held(last) = n
  <2>1. n <= last * SlotCount
    BY ChunksAre DEF last
  <2>2. last * SlotCount \in Int
    BY <1>4, AggregationAssumption
  <2> QED
    BY <2>1, <2>2 DEF held, Smaller
<1> DEFINE y == f[last]
<1> HIDE DEF y
<1>21. y \in Seq(Int) /\ Len(y) = n /\ \A i \in 1 .. n : y[i] = Added(flats, n)[i]
  BY <1>19, <1>20 DEF Good, y
<1>22. y = [i \in 1 .. n |-> y[i]]
  BY <1>21
<1>23. y = Added(flats, n)
  BY <1>21, <1>22 DEF Added
<1> QED
  BY <1>3, <1>18, <1>23 DEF y

\* How many values the parameters before one have.
Before(sizes, p) == Total(SubSeq(sizes, 1, p - 1))

\* A parameter's values follow those of the ones before it, and fit.
LEMMA BeforeGrows ==
    ASSUME NEW sizes \in Seq(Int), \A p \in 1 .. Len(sizes) : sizes[p] >= 0
    PROVE  /\ Before(sizes, 1) = 0
           /\ \A p \in 1 .. Len(sizes) :
                /\ Before(sizes, p) \in Nat /\ sizes[p] \in Nat
                /\ Before(sizes, p + 1) = Before(sizes, p) + sizes[p]
                /\ Before(sizes, p) + sizes[p] <= Total(sizes)
<1> DEFINE n == Len(sizes)
           front(p) == SubSeq(sizes, 1, p)
           back(p) == SubSeq(sizes, p + 1, n)
<1>1. n \in Nat /\ DOMAIN sizes = 1 .. n /\ \A p \in 1 .. n : sizes[p] \in Int /\ sizes[p] >= 0
  OBVIOUS
<1> HIDE DEF n, front, back
<1>2. ASSUME NEW p \in 0 .. n
      PROVE  /\ front(p) \in Seq(Int) /\ Len(front(p)) = p /\ \A i \in 1 .. p : front(p)[i] = sizes[i]
             /\ back(p) \in Seq(Int) /\ Len(back(p)) = n - p
             /\ \A i \in 1 .. (n - p) : back(p)[i] = sizes[p + i] /\ p + i \in 1 .. n
  <2>1. p \in Nat /\ 0 \in Nat /\ 0 <= p /\ p <= n /\ n <= n /\ n \in Nat
    BY <1>1
  <2>2. LET part == SubSeq(sizes, 0 + 1, p)
        IN  /\ part \in Seq(Int) /\ Len(part) = p - 0 /\ DOMAIN part = 1 .. (p - 0)
            /\ \A i \in 1 .. (p - 0) : part[i] = sizes[0 + i] /\ 0 + i \in 1 .. Len(sizes)
    BY <2>1, PartIs DEF n
  <2>3. LET part == SubSeq(sizes, p + 1, n)
        IN  /\ part \in Seq(Int) /\ Len(part) = n - p /\ DOMAIN part = 1 .. (n - p)
            /\ \A i \in 1 .. (n - p) : part[i] = sizes[p + i] /\ p + i \in 1 .. Len(sizes)
    BY <2>1, PartIs DEF n
  <2>4. 0 + 1 = 1 /\ p - 0 = p /\ \A i \in 1 .. p : 0 + i = i
    BY <2>1
  <2>5. front(p) \in Seq(Int) /\ Len(front(p)) = p /\ \A i \in 1 .. p : front(p)[i] = sizes[i]
    BY <2>2, <2>4 DEF front
  <2>6. /\ back(p) \in Seq(Int) /\ Len(back(p)) = n - p
        /\ \A i \in 1 .. (n - p) : back(p)[i] = sizes[p + i] /\ p + i \in 1 .. n
    BY <2>3 DEF back, n
  <2> QED
    BY <2>5, <2>6
<1>3. \A p \in 0 .. n : Total(front(p)) \in Nat
  <2> TAKE p \in 0 .. n
  <2>1. front(p) \in Seq(Int) /\ \A i \in 1 .. Len(front(p)) : front(p)[i] >= 0
    <3> SUFFICES ASSUME NEW i \in 1 .. p PROVE front(p)[i] >= 0
      BY <1>2
    <3>1. i \in 1 .. n
      BY <1>1
    <3> QED
      BY <1>1, <1>2, <3>1
  <2> QED
    BY <2>1, TotalOfNaturals
<1>4. ASSUME NEW p \in 0 .. n
      PROVE  Total(front(p)) <= Total(sizes)
  <2> DEFINE z == front(p) \o back(p)
  <2>1. /\ z \in Seq(Int) /\ Len(z) = Len(front(p)) + Len(back(p))
        /\ z = [i \in 1 .. (Len(front(p)) + Len(back(p))) |-> z[i]]
        /\ \A i \in 1 .. (Len(front(p)) + Len(back(p))) :
             z[i] = IF i <= Len(front(p)) THEN front(p)[i] ELSE back(p)[i - Len(front(p))]
    BY <1>2, <1>4, ConcatIs
  <2> HIDE DEF z
  <2>2. Len(front(p)) = p /\ Len(back(p)) = n - p /\ p + (n - p) = n /\ p \in Nat
    <3>1. p \in Nat /\ p + (n - p) = n
      BY <1>1
    <3> QED
      BY <1>2, <3>1
  <2>3. \A i \in 1 .. n : z[i] = sizes[i]
    <3> TAKE i \in 1 .. n
    <3>1. z[i] = IF i <= p THEN front(p)[i] ELSE back(p)[i - p]
      BY <2>1, <2>2
    <3>2. CASE i <= p
      <4>1. i \in 1 .. p
        BY <2>2, <3>2
      <4> QED
        BY <1>2, <1>4, <3>1, <3>2, <4>1
    <3>3. CASE ~(i <= p)
      <4>1. i - p \in 1 .. (n - p) /\ p + (i - p) = i
        BY <1>1, <2>2, <3>3
      <4> QED
        BY <1>2, <1>4, <3>1, <3>3, <4>1
    <3> QED
      BY <3>2, <3>3
  <2>4. z = [i \in 1 .. n |-> z[i]]
    BY <2>1, <2>2
  <2>5. sizes = [i \in 1 .. n |-> sizes[i]]
    BY <1>1
  <2>6. z = sizes
    BY <2>3, <2>4, <2>5
  <2>7. Total(z) = Total(front(p)) + Total(back(p))
    BY <1>2, <1>4, TotalOfConcat DEF z
  <2>8. Total(back(p)) \in Nat
    <3>1. back(p) \in Seq(Int) /\ \A i \in 1 .. Len(back(p)) : back(p)[i] >= 0
      BY <1>1, <1>2, <1>4
    <3> QED
      BY <3>1, TotalOfNaturals
  <2> QED
    BY <1>3, <1>4, <2>6, <2>7, <2>8
<1>5. ASSUME NEW p \in 1 .. n
      PROVE  Total(front(p)) = Total(front(p - 1)) + sizes[p]
  <2> DEFINE q == p - 1
             one == <<sizes[p]>>
             z == front(q) \o one
  <2>1. q \in 0 .. n /\ p \in 0 .. n /\ q + 1 = p /\ sizes[p] \in Int /\ p \in Int /\ q \in Nat
    BY <1>1
  <2>2. one \in Seq(Int) /\ Len(one) = 1 /\ one[1] = sizes[p]
    BY <2>1
  <2> HIDE DEF q, one
  <2>3. /\ z \in Seq(Int) /\ Len(z) = Len(front(q)) + Len(one)
        /\ z = [i \in 1 .. (Len(front(q)) + Len(one)) |-> z[i]]
        /\ \A i \in 1 .. (Len(front(q)) + Len(one)) :
             z[i] = IF i <= Len(front(q)) THEN front(q)[i] ELSE one[i - Len(front(q))]
    BY <1>2, <2>1, <2>2, ConcatIs
  <2> HIDE DEF z
  <2>4. Len(front(q)) = q /\ Len(front(p)) = p
    BY <1>2, <2>1
  <2>5. \A i \in 1 .. p : z[i] = front(p)[i]
    <3> TAKE i \in 1 .. p
    <3>1. z[i] = IF i <= q THEN front(q)[i] ELSE one[i - q]
      BY <2>1, <2>2, <2>3, <2>4
    <3>2. CASE i <= q
      <4>1. i \in 1 .. q
        BY <2>1, <3>2
      <4>2. front(q)[i] = sizes[i] /\ front(p)[i] = sizes[i]
        BY <1>2, <2>1, <4>1
      <4> QED
        BY <3>1, <3>2, <4>2
    <3>3. CASE ~(i <= q)
      <4>1. i = p /\ i - q = 1
        BY <2>1, <3>3
      <4>2. front(p)[i] = sizes[i]
        BY <1>2, <2>1
      <4> QED
        BY <2>2, <3>1, <3>3, <4>1, <4>2
    <3> QED
      BY <3>2, <3>3
  <2>6. z = [i \in 1 .. p |-> z[i]]
    BY <2>1, <2>2, <2>3, <2>4
  <2>7. front(p) = [i \in 1 .. p |-> front(p)[i]]
    BY <1>2, <2>1
  <2>8. z = front(p)
    BY <2>5, <2>6, <2>7
  <2>9. Total(z) = Total(front(q)) + Total(one)
    BY <1>2, <2>1, <2>2, TotalOfConcat DEF z
  <2>10. Total(one) = sizes[p]
    BY <2>1, TotalOfOne DEF one
  <2> QED
    BY <2>8, <2>9, <2>10 DEF q
<1>6. Total(front(0)) = 0
  <2>1. front(0) \in Seq(Int) /\ Len(front(0)) = 0
    BY <1>1, <1>2
  <2>2. \A i \in 1 .. Len(front(0)) : front(0)[i] >= 0 /\ front(0)[i] = 0
    BY <2>1
  <2> QED
    BY <2>1, <2>2, TotalOfNaturals
<1>7. \A p \in 1 .. (n + 1) : Before(sizes, p) = Total(front(p - 1))
  BY DEF Before, front
<1>8. Before(sizes, 1) = 0
  BY <1>1, <1>6, <1>7
<1>9. ASSUME NEW p \in 1 .. n
      PROVE  /\ Before(sizes, p) \in Nat /\ sizes[p] \in Nat
             /\ Before(sizes, p + 1) = Before(sizes, p) + sizes[p]
             /\ Before(sizes, p) + sizes[p] <= Total(sizes)
  <2>1. p - 1 \in 0 .. n /\ p \in 0 .. n /\ p \in 1 .. (n + 1) /\ p + 1 \in 1 .. (n + 1) /\ (p + 1) - 1 = p
    BY <1>1
  <2>2. Before(sizes, p) = Total(front(p - 1)) /\ Before(sizes, p + 1) = Total(front(p))
    BY <1>7, <2>1
  <2>3. sizes[p] \in Nat
    BY <1>1
  <2>4. Total(front(p)) = Total(front(p - 1)) + sizes[p]
    BY <1>5
  <2>5. Total(front(p)) <= Total(sizes) /\ Total(front(p - 1)) \in Nat
    BY <1>3, <1>4, <2>1
  <2> QED
    BY <2>2, <2>3, <2>4, <2>5
<1> QED
  BY <1>8, <1>9 DEF n

\* For any sizes: the parameters get back the slices that follow one another in the flat list, each
\* as many values as it has (_aggregate_ckks_sum).
THEOREM UnflattenIs ==
    ASSUME NEW sizes \in Seq(Int), \A p \in 1 .. Len(sizes) : sizes[p] >= 0,
           NEW flat \in Seq(Int), Len(flat) = Total(sizes)
    PROVE  LET z == Unflatten(flat, sizes)
           IN  /\ Len(z) = Len(sizes)
               /\ \A p \in 1 .. Len(sizes) :
                    z[p] = [i \in 1 .. sizes[p] |-> flat[Before(sizes, p) + i]]
<1> DEFINE last == Len(sizes)
           V == Seq(Int)
           Slice(p) == [i \in 1 .. sizes[p] |-> flat[Before(sizes, p) + i]]
           Cut(x, p) == SubSeq(flat, x.at + 1, Smaller(x.at + sizes[p], Len(flat)))
           Advance(x, p) == [parts |-> Append(x.parts, Cut(x, p)), at |-> x.at + sizes[p]]
           X == [parts : Seq(V), at : Int]
           first == [parts |-> <<>>, at |-> 0]
           G == [p \in Int \X X |-> Advance(p[2], p[1])]
           Body(f) == [p \in 0 .. last |-> IF p = 0 THEN first ELSE Advance(f[p - 1], p)]
           next == CHOOSE f : f = Body(f)
           Good(x, p) == /\ x \in X /\ Len(x.parts) = p /\ x.at = Before(sizes, p + 1)
                         /\ \A q \in 1 .. p : x.parts[q] = Slice(q)
<1>1. Unflatten(flat, sizes) = next[last].parts
  BY DEF Unflatten
<1>2. last \in Nat /\ 0 \in Int /\ last \in Int /\ 0 <= last
  OBVIOUS
<1>3. /\ Before(sizes, 1) = 0
      /\ \A p \in 1 .. last :
           /\ Before(sizes, p) \in Nat /\ sizes[p] \in Nat
           /\ Before(sizes, p + 1) = Before(sizes, p) + sizes[p]
           /\ Before(sizes, p) + sizes[p] <= Len(flat)
  BY BeforeGrows
<1> HIDE DEF last
<1>4. PICK f : f = [p \in 0 .. last |-> IF p = 0 THEN first ELSE G[<<p, f[p - 1]>>]]
  <2> HIDE DEF G, first
  <2>1. \E f : Recursive(f, 0, last, first, G)
    BY <1>2, RecursionExists
  <2> QED
    BY <2>1 DEF Recursive
<1>5. ASSUME NEW p \in 1 .. last, f[p - 1] \in X
      PROVE  f[p] = Advance(f[p - 1], p)
  <2> HIDE DEF Advance
  <2>1. p \in Int /\ p \in 0 .. last /\ p # 0
    BY <1>2
  <2>2. f[p] = G[<<p, f[p - 1]>>]
    <3> HIDE DEF G, first, X
    <3> QED
      BY <1>4, <2>1
  <2> HIDE DEF X
  <2>3. <<p, f[p - 1]>> \in Int \X X
    BY <1>5, <2>1
  <2> QED
    BY <2>2, <2>3
<1> HIDE DEF G, V, Slice, Cut
<1>6. ASSUME NEW p \in 1 .. last, NEW x, Good(x, p - 1)
      PROVE  Good(Advance(x, p), p)
  <2> DEFINE c == Cut(x, p)
             low == Before(sizes, p)
             high == Before(sizes, p) + sizes[p]
  <2>1. /\ x \in X /\ x.parts \in Seq(V) /\ Len(x.parts) = p - 1 /\ x.at = low
        /\ \A q \in 1 .. (p - 1) : x.parts[q] = Slice(q)
    <3>1. (p - 1) + 1 = p
      BY <1>2
    <3> QED
      BY <1>6, <3>1
  <2>2. low \in Nat /\ high \in Nat /\ low <= high /\ high <= Len(flat) /\ high - low = sizes[p]
        /\ sizes[p] \in Nat /\ Before(sizes, p + 1) = high
    BY <1>3
  <2> HIDE DEF low
  <2>3. c = SubSeq(flat, low + 1, high)
    <3>1. Smaller(high, Len(flat)) = high
      BY <2>2 DEF Smaller
    <3> QED
      BY <2>1, <3>1 DEF Cut, low
  <2> HIDE DEF c, high
  <2>4. LET part == SubSeq(flat, low + 1, high)
        IN  /\ part \in Seq(Int) /\ Len(part) = high - low /\ DOMAIN part = 1 .. (high - low)
            /\ \A i \in 1 .. (high - low) : part[i] = flat[low + i] /\ low + i \in 1 .. Len(flat)
    BY <2>2, PartIs
  <2>5. /\ c \in V /\ Len(c) = sizes[p] /\ DOMAIN c = 1 .. sizes[p]
        /\ \A i \in 1 .. sizes[p] : c[i] = flat[low + i]
    BY <2>2, <2>3, <2>4 DEF V
  <2>6. c = Slice(p)
    <3>1. c = [i \in 1 .. sizes[p] |-> c[i]]
      BY <2>5 DEF V
    <3> QED
      BY <2>5, <3>1 DEF Slice, low
  <2> DEFINE parts == Append(x.parts, c)
  <2>7. /\ parts \in Seq(V) /\ Len(parts) = p /\ parts[p] = c
        /\ \A q \in 1 .. (p - 1) : parts[q] = x.parts[q]
    <3>1. c \in V /\ x.parts \in Seq(V) /\ Len(x.parts) = p - 1
      BY <2>1, <2>5
    <3>2. (p - 1) + 1 = p
      BY <1>2
    <3>3. /\ parts \in Seq(V) /\ Len(parts) = Len(x.parts) + 1 /\ parts[Len(x.parts) + 1] = c
          /\ \A q \in 1 .. Len(x.parts) : parts[q] = x.parts[q]
      BY <3>1
    <3> QED
      BY <3>1, <3>2, <3>3
  <2> HIDE DEF parts
  <2>8. Advance(x, p) = [parts |-> parts, at |-> high]
    BY <2>1 DEF c, parts, high, low
  <2>9. high = Before(sizes, p + 1) /\ high \in Int
    BY <2>2
  <2>10. \A q \in 1 .. p : parts[q] = Slice(q)
    <3> TAKE q \in 1 .. p
    <3>1. CASE q = p
      BY <2>6, <2>7, <3>1
    <3>2. CASE q # p
      <4>1. q \in 1 .. (p - 1)
        BY <1>2, <3>2
      <4> QED
        BY <2>1, <2>7, <4>1
    <3> QED
      BY <3>1, <3>2
  <2> HIDE DEF Advance
  <2> QED
    BY <2>7, <2>8, <2>9, <2>10
<1>7. Good(first, 0) /\ first \in X
  <2>1. 0 + 1 = 1
    OBVIOUS
  <2> QED
    BY <1>3, <2>1
<1>8. \A x, p : Good(x, p) => x \in X
  OBVIOUS
<1> HIDE DEF Good, X, Advance, first
<1> DEFINE S == {p \in Nat : p <= last => Good(f[p], p)}
<1>9. 0 \in S
  <2>1. f[0] = first
    BY <1>2, <1>4
  <2> QED
    BY <1>7, <2>1
<1>10. ASSUME NEW j \in Nat, j \in S
       PROVE  j + 1 \in S
  <2> SUFFICES ASSUME j + 1 <= last PROVE Good(f[j + 1], j + 1)
    OBVIOUS
  <2> DEFINE p == j + 1
  <2>1. p \in 1 .. last /\ p - 1 = j /\ j <= last
    BY <1>2
  <2>2. Good(f[p - 1], p - 1)
    BY <1>10, <2>1
  <2> HIDE DEF p
  <2>3. f[p] = Advance(f[p - 1], p)
    BY <1>5, <1>8, <2>1, <2>2
  <2>4. Good(f[p], p)
    BY <1>6, <2>1, <2>2, <2>3
  <2> QED
    BY <2>4 DEF p
<1> HIDE DEF S
<1>11. Nat \subseteq S
  BY <1>9, <1>10, SetInduction
<1>12. \A p \in 0 .. last : Good(f[p], p)
  BY <1>2, <1>11 DEF S
<1>13. f = Body(f)
  <2>1. \A p \in 0 .. last : f[p] = IF p = 0 THEN first ELSE Advance(f[p - 1], p)
    <3> TAKE p \in 0 .. last
    <3>1. CASE p = 0
      BY <1>2, <1>4, <3>1
    <3>2. CASE p # 0
      <4>1. p \in 1 .. last /\ p - 1 \in 0 .. last
        BY <1>2, <3>2
      <4>2. f[p - 1] \in X
        BY <1>8, <1>12, <4>1
      <4> QED
        BY <1>5, <3>2, <4>1, <4>2
    <3> QED
      BY <3>1, <3>2
  <2>2. f = [p \in 0 .. last |-> f[p]]
    BY <1>4
  <2> QED
    BY <2>1, <2>2
<1>14. next = Body(next)
  BY <1>13
<1> HIDE DEF next
<1> DEFINE R == {p \in Nat : p <= last => Good(next[p], p)}
<1>15. 0 \in R
  <2>1. next[0] = first
    BY <1>2, <1>14
  <2> QED
    BY <1>7, <2>1
<1>16. ASSUME NEW j \in Nat, j \in R
       PROVE  j + 1 \in R
  <2> SUFFICES ASSUME j + 1 <= last PROVE Good(next[j + 1], j + 1)
    OBVIOUS
  <2> DEFINE p == j + 1
  <2>1. p \in 1 .. last /\ p - 1 = j /\ j <= last /\ p \in 0 .. last /\ p # 0
    BY <1>2
  <2>2. Good(next[p - 1], p - 1)
    BY <1>16, <2>1
  <2> HIDE DEF p
  <2>3. next[p] = Advance(next[p - 1], p)
    BY <1>14, <2>1
  <2>4. Good(next[p], p)
    BY <1>6, <2>1, <2>2, <2>3
  <2> QED
    BY <2>4 DEF p
<1> HIDE DEF R
<1>17. last \in R
  BY <1>2, <1>15, <1>16, SetInduction
<1>18. Good(next[last], last)
  BY <1>2, <1>17 DEF R
<1> QED
  BY <1>1, <1>18 DEF Good, Slice, last

----------------------------------------------------------------------------
(* The calls                                                               *)

\* One example more or less is bounded in what the call of the clipping answers.
LEMMA ClipCallSound ==
    ASSUME CallClip
    PROVE  call'.op = "clip" /\ ClippingBoundsOneExample'
<1>1. PICK batch \in SeqsUpTo({-5, -1, 1, 3, 9}, 3) \ {<<>>} : \E i \in DOMAIN batch :
         Answer("clip", [batch |-> batch],
                [with |-> SumOfClipped(batch), without |-> SumOfClipped(RemoveAt(batch, i))])
  BY DEF CallClip
<1>2. PICK i \in DOMAIN batch :
         Answer("clip", [batch |-> batch],
                [with |-> SumOfClipped(batch), without |-> SumOfClipped(RemoveAt(batch, i))])
  BY <1>1
<1>3. batch \in Seq(Int)
  <2>1. PICK k \in 0 .. 3 : batch \in [1 .. k -> {-5, -1, 1, 3, 9}]
    BY DEF SeqsUpTo
  <2>2. batch \in [1 .. k -> Int] /\ k \in Nat
    BY <2>1
  <2> QED
    BY <2>2
<1>4. i \in 1 .. Len(batch)
  BY <1>3
<1>5. Abs(SumOfClipped(batch) - SumOfClipped(RemoveAt(batch, i))) <= ClipNorm
  BY <1>3, <1>4, OneExampleIsBounded
<1>6. /\ call'.op = "clip" /\ call'.out.with = SumOfClipped(batch)
      /\ call'.out.without = SumOfClipped(RemoveAt(batch, i))
  BY <1>2 DEF Answer
<1> QED
  BY <1>5, <1>6 DEF ClippingBoundsOneExample

\* Parameters change by whole numbers.
LEMMA GradientsAre == Gradients \subseteq Int
<1>1. Changes \subseteq Nat
  BY AggregationAssumption
<1>2. \A c \in Changes : c \in Int /\ -c \in Int
  BY <1>1
<1> QED
  BY <1>2 DEF Gradients

\* What robust aggregation collects is a list of updates of one parameter.
LEMMA CollectedAre ==
    ASSUME NEW deltas \in [1 .. Updaters -> [1 .. 1 -> Gradients]], NEW blocked
    PROVE  /\ Collect(deltas, blocked) \in [1 .. Updaters -> [1 .. 1 -> Int]]
           /\ DOMAIN Collect(deltas, blocked) = 1 .. Updaters /\ Len(Collect(deltas, blocked)) = Updaters
<1>1. Gradients \subseteq Int /\ Updaters \in Nat
  BY AggregationAssumption, GradientsAre
<1>2. Collect(deltas, blocked) \in [1 .. Updaters -> [1 .. 1 -> Int]]
  <2> SUFFICES ASSUME NEW n \in 1 .. Updaters
               PROVE  (IF n \in blocked THEN [i \in DOMAIN deltas[n] |-> 0] ELSE deltas[n]) \in [1 .. 1 -> Int]
    BY DEF Collect
  <2>1. deltas[n] \in [1 .. 1 -> Int] /\ DOMAIN deltas[n] = 1 .. 1
    BY <1>1
  <2> QED
    BY <2>1
<1> DEFINE c == Collect(deltas, blocked)
<1> HIDE DEF c
<1>3. c \in [1 .. Updaters -> [1 .. 1 -> Int]]
  BY <1>2 DEF c
<1>4. c \in Seq([1 .. 1 -> Int]) /\ Len(c) = Updaters
  BY <1>1, <1>3
<1> QED
  BY <1>3, <1>4 DEF c

\* krum and trimmed_mean do what they promise of what was collected.
LEMMA RobustCallSound ==
    ASSUME CallRobust
    PROVE  call'.op = "robust" /\ KrumFollowsTheMajority' /\ TrimmedMeanWithinTheHonest'
<1>1. PICK deltas \in [1 .. Updaters -> [1 .. 1 -> Gradients]] :
        \E blocked \in {{}} \cup {{n} : n \in 1 .. Updaters} :
          Answer("robust", [deltas |-> deltas, blocked |-> blocked],
                 [krum |-> Krum(Collect(deltas, blocked), Faulty),
                  trimmed |-> TrimmedMean(Collect(deltas, blocked))])
  BY DEF CallRobust
<1>2. PICK blocked \in {{}} \cup {{n} : n \in 1 .. Updaters} :
          Answer("robust", [deltas |-> deltas, blocked |-> blocked],
                 [krum |-> Krum(Collect(deltas, blocked), Faulty),
                  trimmed |-> TrimmedMean(Collect(deltas, blocked))])
  BY <1>1
<1> DEFINE sent == Collect(deltas, blocked)
           k == Updaters \div 5
<1> HIDE DEF sent, k
<1>3. /\ call'.op = "robust" /\ call'.in.deltas = deltas /\ call'.in.blocked = blocked
      /\ call'.out.krum = Krum(sent, Faulty) /\ call'.out.trimmed = TrimmedMean(sent)
  BY <1>2 DEF Answer, sent
<1>4. sent \in [1 .. Updaters -> [1 .. 1 -> Int]] /\ DOMAIN sent = 1 .. Updaters /\ Len(sent) = Updaters
  BY CollectedAre DEF sent
<1>5. Updaters \in Nat /\ Updaters > 0 /\ Faulty \in Nat /\ Gradients \subseteq Int
  BY AggregationAssumption, GradientsAre
<1>6. ASSUME NEW v \in Gradients, Updaters >= 2 * Faulty + 3,
             Cardinality({n \in 1 .. Updaters : sent[n] # <<v>>}) <= Faulty
      PROVE  Krum(sent, Faulty) = [sum |-> <<v>>, of |-> 1]
  <2> DEFINE w == <<v>>
  <2>1. sent \in Updates(Updaters, 1)
    BY <1>4 DEF Updates
  <2>2. w \in [1 .. 1 -> Int]
    BY <1>5
  <2> HIDE DEF w
  <2> DEFINE liars == {n \in 1 .. Updaters : sent[n] # w}
  <2>3. Cardinality(liars) <= Faulty /\ \A n \in 1 .. Updaters : n \notin liars => sent[n] = w
    BY <1>6 DEF w
  <2>4. IsFiniteSet(liars)
    <3>1. 1 \in Int /\ Updaters \in Int
      BY <1>5
    <3>2. IsFiniteSet(1 .. Updaters)
      BY <3>1, FS_Interval
    <3> QED
      BY <3>2, FS_Subset
  <2> HIDE DEF liars
  <2>5. 1 \in Nat
    OBVIOUS
  <2>6. KrumWinner(sent, Faulty) \in 1 .. Updaters /\ sent[KrumWinner(sent, Faulty)] = w
    <3> DEFINE m == 1
    <3>1. m \in Nat /\ sent \in Updates(Updaters, m) /\ w \in [1 .. m -> Int]
      BY <2>1, <2>2
    <3> HIDE DEF m
    <3>2. \A f \in Nat : Updaters >= 2 * f + 3 /\ Cardinality(liars) <= f
            => KrumWinner(sent, f) \in 1 .. Updaters /\ sent[KrumWinner(sent, f)] = w
      BY <1>5, <2>3, <2>4, <3>1, KrumIsRobust
    <3> QED
      BY <1>5, <1>6, <2>3, <3>2
  <2>7. ~(Len(sent) < 2 * Faulty + 3)
    BY <1>4, <1>5, <1>6
  <2> QED
    BY <2>6, <2>7 DEF Krum, w
<1>7. KrumFollowsTheMajority'
  BY <1>3, <1>6 DEF KrumFollowsTheMajority, sent
<1>8. ASSUME NEW liars \in SUBSET (1 .. Updaters), Cardinality(liars) = k
      PROVE  LET honest == {sent[n][1] : n \in (1 .. Updaters) \ liars}
                 out == TrimmedMean(sent)
             IN  out.of * Min(honest) <= out.sum[1] /\ out.sum[1] <= out.of * Max(honest)
  <2> DEFINE s == Column(sent, 1)
             honest == {sent[n][1] : n \in (1 .. Updaters) \ liars}
             level == {s[n] : n \in (1 .. Updaters) \ liars}
  <2>1. k \in Nat /\ 2 * k < Updaters
    BY <1>5 DEF k
  <2>2. s = [n \in 1 .. Updaters |-> sent[n][1]] /\ s \in [1 .. Updaters -> Int]
    BY <1>4 DEF Column
  <2> HIDE DEF s
  <2>3. /\ (Updaters - 2 * k) * Min(level) <= Total(Trim(s, k))
        /\ Total(Trim(s, k)) <= (Updaters - 2 * k) * Max(level)
    <3>1. k \in Nat /\ Cardinality(liars) <= k
      BY <1>8, <2>1
    <3> QED
      BY <1>5, <2>1, <2>2, <3>1, TrimmedMeanIsRobust
  <2>4. level = honest
    BY <2>2
  <2> HIDE DEF level, honest
  <2>5. DOMAIN sent[1] = 1 .. 1
    BY <1>4, <1>5
  <2>6. TrimmedMean(sent).of = Updaters - 2 * k /\ TrimmedMean(sent).sum[1] = Total(Trim(s, k))
    BY <1>4, <2>5 DEF TrimmedMean, k, s
  <2> QED
    BY <2>3, <2>4, <2>6 DEF honest
<1>9. TrimmedMeanWithinTheHonest'
  BY <1>3, <1>8 DEF TrimmedMeanWithinTheHonest, sent, k
<1> QED
  BY <1>3, <1>7, <1>9

\* Compression keeps the values that bring the update closest, and what it costs is what is counted.
LEMMA CompressCallSound ==
    ASSUME CallCompress
    PROVE  call'.op = "compress" /\ CompressionClosest' /\ SparseSmallerBelowHalf'
<1>1. PICK update \in [1 .. 4 -> {-7, 0, 2, 3}], den \in 1 .. 4 : \E num \in 0 .. den :
         LET topk == 0 < num /\ num < den IN
         \E sparse \in IF topk THEN TopK(update, Kept(4, num, den)) ELSE {update} :
           Answer("compress", [update |-> update, num |-> num, den |-> den],
                  [sparse |-> sparse, small |-> Quantize(sparse),
                   bytes |-> WireBytes(sparse, topk, FALSE), small_bytes |-> WireBytes(sparse, topk, TRUE)])
  BY DEF CallCompress
<1>2. PICK num \in 0 .. den :
         LET topk == 0 < num /\ num < den IN
         \E sparse \in IF topk THEN TopK(update, Kept(4, num, den)) ELSE {update} :
           Answer("compress", [update |-> update, num |-> num, den |-> den],
                  [sparse |-> sparse, small |-> Quantize(sparse),
                   bytes |-> WireBytes(sparse, topk, FALSE), small_bytes |-> WireBytes(sparse, topk, TRUE)])
  BY <1>1
<1> DEFINE topk == 0 < num /\ num < den
<1>3. PICK sparse \in IF topk THEN TopK(update, Kept(4, num, den)) ELSE {update} :
           Answer("compress", [update |-> update, num |-> num, den |-> den],
                  [sparse |-> sparse, small |-> Quantize(sparse),
                   bytes |-> WireBytes(sparse, topk, FALSE), small_bytes |-> WireBytes(sparse, topk, TRUE)])
  BY <1>2
<1> HIDE DEF topk
<1>4. /\ call'.op = "compress" /\ call'.in.update = update /\ call'.in.num = num /\ call'.in.den = den
      /\ call'.out.sparse = sparse /\ call'.out.small = Quantize(sparse)
      /\ call'.out.bytes = WireBytes(sparse, topk, FALSE)
  BY <1>3 DEF Answer
<1>5. update \in [1 .. 4 -> Int] /\ DOMAIN update = 1 .. 4
  OBVIOUS
<1>6. IsFiniteSet(1 .. 4)
  <2>1. 1 \in Int /\ 4 \in Int
    OBVIOUS
  <2> QED
    BY <2>1, FS_Interval
<1>7. \E S \in SUBSET (1 .. 4) :
        /\ sparse = Sent(update, S)
        /\ \A i \in S, j \in (1 .. 4) \ S : Abs(update[i]) >= Abs(update[j])
        /\ topk => Cardinality(S) = Kept(4, num, den)
  <2>1. CASE topk
    <3>1. sparse \in TopK(update, Kept(4, num, den))
      BY <1>3, <2>1
    <3>2. PICK S \in SUBSET DOMAIN update :
             /\ Cardinality(S) = Kept(4, num, den)
             /\ \A i \in S, j \in DOMAIN update \ S : Abs(update[i]) >= Abs(update[j])
             /\ sparse = [i \in DOMAIN update |-> IF i \in S THEN update[i] ELSE 0]
      BY <3>1 DEF TopK
    <3> QED
      BY <1>5, <3>2 DEF Sent
  <2>2. CASE ~topk
    <3>1. sparse = update
      BY <1>3, <2>2
    <3>2. update = Sent(update, 1 .. 4)
      BY <1>5 DEF Sent
    <3> QED
      BY <2>2, <3>1, <3>2
  <2> QED
    BY <2>1, <2>2
<1>8. PICK S \in SUBSET (1 .. 4) :
        /\ sparse = Sent(update, S)
        /\ \A i \in S, j \in (1 .. 4) \ S : Abs(update[i]) >= Abs(update[j])
        /\ topk => Cardinality(S) = Kept(4, num, den)
  BY <1>7
<1>9. ASSUME NEW kept \in SUBSET (1 .. 4), Cardinality(kept) <= NonZeros(sparse)
      PROVE  SquaredDistance(update, [i \in 1 .. 4 |-> IF i \in kept THEN update[i] ELSE 0])
               >= SquaredDistance(update, sparse)
  <2>1. Sent(update, kept) = [i \in 1 .. 4 |-> IF i \in kept THEN update[i] ELSE 0]
    BY <1>5 DEF Sent
  <2>2. Cardinality(kept) <= NonZeros(Sent(update, S))
    BY <1>8, <1>9
  <2> DEFINE n == 4
  <2>3. n \in Nat /\ update \in [1 .. n -> Int] /\ S \in SUBSET (1 .. n) /\ kept \in SUBSET (1 .. n)
        /\ \A i \in S, j \in (1 .. n) \ S : Abs(update[i]) >= Abs(update[j])
    BY <1>5, <1>8
  <2> HIDE DEF n
  <2>4. SquaredDistance(update, Sent(update, S)) <= SquaredDistance(update, Sent(update, kept))
    BY <2>2, <2>3, SparseIsClosest
  <2>5. /\ SquaredDistance(update, Sent(update, S)) \in Int
        /\ SquaredDistance(update, Sent(update, kept)) \in Int
    <3>1. DOMAIN update = 1 .. n
      BY <2>3
    <3>2. Sent(update, S) \in [1 .. n -> Int]
      BY <2>3, <3>1 DEF Sent
    <3>3. Sent(update, kept) \in [1 .. n -> Int]
      BY <2>3, <3>1 DEF Sent
    <3> DEFINE a == Sent(update, S)
               b == Sent(update, kept)
    <3> HIDE DEF a, b
    <3>4. a \in [1 .. n -> Int] /\ b \in [1 .. n -> Int]
      BY <3>2, <3>3 DEF a, b
    <3>5. SquaredDistance(update, a) \in Nat
      BY <2>3, <3>4, DistanceIs
    <3>6. SquaredDistance(update, b) \in Nat
      BY <2>3, <3>4, DistanceIs
    <3> QED
      BY <3>5, <3>6 DEF a, b
  <2> QED
    BY <1>8, <2>1, <2>4, <2>5
<1>10. sparse \in [1 .. 4 -> Int] /\ DOMAIN sparse = 1 .. 4
  BY <1>5, <1>8 DEF Sent
<1>11. ASSUME NEW i \in 1 .. 4
       PROVE  2 * Abs(Quantize(sparse).q[i] * Quantize(sparse).max - sparse[i] * Levels)
                <= Quantize(sparse).max
  <2> DEFINE sizes == {Abs(sparse[j]) : j \in 1 .. 4}
             top == Larger(1, Max(sizes))
  <2>1. sizes \in SUBSET Int /\ sizes # {} /\ IsFiniteSet(sizes) /\ Abs(sparse[i]) \in sizes
    <3>1. sizes \in SUBSET Int /\ Abs(sparse[i]) \in sizes
      BY <1>10, MagnitudesAre
    <3> DEFINE h == [j \in 1 .. 4 |-> Abs(sparse[j])]
    <3>2. h \in Surjection(1 .. 4, sizes)
      BY DEF Surjection
    <3> HIDE DEF h, sizes
    <3>3. IsFiniteSet(sizes)
      BY <1>6, <3>2, FS_Surjection
    <3> QED
      BY <3>1, <3>3
  <2> HIDE DEF sizes
  <2>2. Max(sizes) \in Int /\ Abs(sparse[i]) <= Max(sizes) /\ Abs(sparse[i]) \in Int
    BY <2>1, MinAndMaxAre
  <2>3. top \in Nat \ {0} /\ Abs(sparse[i]) <= top
    BY <2>2 DEF Larger
  <2>4. /\ Quantize(sparse).max = top
        /\ Quantize(sparse).q[i] = Clamp(RoundHalfEven(sparse[i] * Levels, top), -Levels, Levels)
    BY <1>10 DEF Quantize, sizes
  <2> HIDE DEF top
  <2>5. sparse[i] \in Int
    BY <1>10
  <2>6. 2 * Abs(Clamp(RoundHalfEven(sparse[i] * Levels, top), -Levels, Levels) * top - sparse[i] * Levels) <= top
    BY <2>3, <2>5, QuantizedIsNear
  <2> QED
    BY <2>4, <2>6
<1>12. CompressionClosest'
  BY <1>4, <1>9, <1>11 DEF CompressionClosest
<1>13. NonZeros(sparse) \in Nat /\ NonZeros(sparse) <= Cardinality(S) /\ Cardinality(S) \in Nat
  <2> DEFINE sent == {i \in DOMAIN sparse : sparse[i] # 0}
  <2>1. sent \subseteq S
    BY <1>5, <1>8, <1>10 DEF Sent
  <2> HIDE DEF sent
  <2>2. IsFiniteSet(S)
    BY <1>6, FS_Subset
  <2>3. IsFiniteSet(sent) /\ Cardinality(sent) <= Cardinality(S)
    BY <2>1, <2>2, FS_Subset
  <2>4. NonZeros(sparse) = Cardinality(sent)
    BY DEF NonZeros, sent
  <2> QED
    BY <2>2, <2>3, <2>4, FS_CardinalityType
<1>14. ASSUME topk
       PROVE  /\ WireBytes(sparse, topk, FALSE) < 4 * 4 <=> NonZeros(sparse) < 2
              /\ WireBytes(sparse, topk, FALSE) > 4 * 4 <=> NonZeros(sparse) > 2
              /\ Kept(4, num, den) <= 2 => WireBytes(sparse, topk, FALSE) <= 4 * 4
  <2>1. WireBytes(sparse, topk, FALSE) = 4 * NonZeros(sparse) + 4 * NonZeros(sparse)
    BY <1>14 DEF WireBytes
  <2>2. Cardinality(S) = Kept(4, num, den)
    BY <1>8, <1>14
  <2> DEFINE x == NonZeros(sparse)
             y == Kept(4, num, den)
             z == WireBytes(sparse, topk, FALSE)
  <2> HIDE DEF x, y, z
  <2>3. z = 4 * x + 4 * x
    BY <2>1 DEF x, z
  <2> DEFINE c == Cardinality(S)
  <2> HIDE DEF c
  <2>4. x \in Nat /\ c \in Nat /\ x <= c
    BY <1>13 DEF x, c
  <2>5. y = c
    BY <2>2 DEF y, c
  <2>6. (z < 16 <=> x < 2) /\ (z > 16 <=> x > 2) /\ (y <= 2 => z <= 16)
    BY <2>3, <2>4, <2>5
  <2>7. 4 * 4 = 16
    OBVIOUS
  <2> QED
    BY <2>6, <2>7 DEF x, y, z
<1>15. SparseSmallerBelowHalf'
  BY <1>4, <1>14 DEF SparseSmallerBelowHalf, topk
<1> QED
  BY <1>4, <1>12, <1>15

\* The total of two.
LEMMA TotalOfTwo ==
    ASSUME NEW w, DOMAIN w = 1 .. 2, w[1] \in Int, w[2] \in Int
    PROVE  Total(w) = w[1] + w[2]
<1>1. 1 .. 2 = {1} \cup {2} /\ {1} \cap {2} = {}
  OBVIOUS
<1>2. \A x \in {1} \cup {2} : w[x] \in Int
  OBVIOUS
<1>3. SumFunctionOnSet(w, {1} \cup {2}) = SumFunctionOnSet(w, {1}) + SumFunctionOnSet(w, {2})
  BY <1>1, <1>2, FS_Singleton, SumUnion
<1>4. \A x \in {1, 2} : SumFunctionOnSet(w, {x}) = w[x]
  <2> TAKE x \in {1, 2}
  <2>1. IsFiniteSet({x}) /\ w[x] \in Int /\ {x} \ {x} = {}
    BY FS_Singleton
  <2>2. SumFunctionOnSet(w, {x}) = w[x] + SumFunctionOnSet(w, {x} \ {x})
    BY <2>1, SumWithout
  <2>3. SumFunctionOnSet(w, {x} \ {x}) = 0
    BY <2>1, SumEmpty, Zenon
  <2> QED
    BY <2>1, <2>2, <2>3
<1>5. Total(w) = SumFunctionOnSet(w, {1} \cup {2})
  <2>1. Total(w) = SumFunctionOnSet(w, 1 .. 2)
    BY DEF Total, SumFunction
  <2> QED
    BY <1>1, <2>1, Zenon
<1> QED
  BY <1>3, <1>4, <1>5

\* The encrypted sum of two agents gives every parameter the sum of its own values.
LEMMA EncryptedCallSound ==
    ASSUME CallCkksSum
    PROVE  call'.op = "ckks_sum" /\ EncryptedSumExact'
<1>1. PICK sizes \in {<<1, 2>>, <<3, 1, 1>>, <<2, 2>>, <<1>>} :
        \E first \in [1 .. Total(sizes) -> {0, 1}], second \in [1 .. Total(sizes) -> {0, 2}] :
          Answer("ckks_sum", [sizes |-> sizes, flats |-> <<first, second>>],
                 Unflatten(EncryptedSum(<<first, second>>), sizes))
  BY DEF CallCkksSum
<1>2. PICK first \in [1 .. Total(sizes) -> {0, 1}], second \in [1 .. Total(sizes) -> {0, 2}] :
          Answer("ckks_sum", [sizes |-> sizes, flats |-> <<first, second>>],
                 Unflatten(EncryptedSum(<<first, second>>), sizes))
  BY <1>1
<1>3. sizes \in Seq(Int) /\ \A p \in 1 .. Len(sizes) : sizes[p] >= 0
  <2>1. CASE sizes = <<1, 2>>
    BY <2>1
  <2>2. CASE sizes = <<3, 1, 1>>
    BY <2>2
  <2>3. CASE sizes = <<2, 2>>
    BY <2>3
  <2>4. CASE sizes = <<1>>
    BY <2>4
  <2> QED
    BY <2>1, <2>2, <2>3, <2>4
<1> DEFINE n == Total(sizes)
           flats == <<first, second>>
           sum == EncryptedSum(flats)
           out == Unflatten(sum, sizes)
<1>4. n \in Nat
  BY <1>3, TotalOfNaturals
<1>5. first \in [1 .. n -> Int] /\ second \in [1 .. n -> Int]
  OBVIOUS
<1>6. /\ call'.op = "ckks_sum" /\ call'.in.sizes = sizes /\ call'.in.flats = flats
      /\ call'.out = out
  BY <1>2 DEF Answer
<1> HIDE DEF n
<1>7. flats \in [1 .. 2 -> [1 .. n -> Int]] /\ DOMAIN flats = 1 .. 2 /\ flats[1] = first /\ flats[2] = second
  BY <1>5
<1> HIDE DEF flats, sum, out
<1>8. sum = Added(flats, n)
  <2> DEFINE m == 2
  <2>1. m \in Nat /\ m > 0 /\ flats \in [1 .. m -> [1 .. n -> Int]]
    BY <1>7
  <2> HIDE DEF m
  <2> QED
    BY <1>4, <2>1, EncryptedSumIs DEF sum
<1>9. ASSUME NEW i \in 1 .. n
      PROVE  Added(flats, n)[i] = first[i] + second[i] /\ first[i] + second[i] \in Int
  <2>1. first[i] \in Int /\ second[i] \in Int
    BY <1>5
  <2> DEFINE w == [a \in DOMAIN flats |-> flats[a][i]]
  <2>2. DOMAIN w = 1 .. 2 /\ w[1] = first[i] /\ w[2] = second[i]
    <3>1. w = [a \in 1 .. 2 |-> flats[a][i]] /\ 1 \in 1 .. 2 /\ 2 \in 1 .. 2
      BY <1>7
    <3> HIDE DEF w
    <3>2. DOMAIN w = 1 .. 2 /\ w[1] = flats[1][i] /\ w[2] = flats[2][i]
      BY <3>1
    <3> QED
      BY <1>7, <3>2
  <2>3. Added(flats, n)[i] = Total(w)
    BY DEF Added
  <2> HIDE DEF w
  <2>4. Total(w) = w[1] + w[2]
    BY <2>1, <2>2, TotalOfTwo
  <2> QED
    BY <2>1, <2>2, <2>3, <2>4
<1>10. sum \in Seq(Int) /\ Len(sum) = n /\ \A i \in 1 .. n : sum[i] = first[i] + second[i]
  <2>1. sum = [i \in 1 .. n |-> sum[i]]
    BY <1>8 DEF Added
  <2>2. \A i \in 1 .. n : sum[i] = first[i] + second[i] /\ sum[i] \in Int
    BY <1>8, <1>9
  <2>3. sum \in [1 .. n -> Int]
    BY <2>1, <2>2
  <2> QED
    BY <1>4, <2>2, <2>3
<1>11. /\ Len(out) = Len(sizes)
       /\ \A p \in 1 .. Len(sizes) : out[p] = [i \in 1 .. sizes[p] |-> sum[Before(sizes, p) + i]]
  BY <1>3, <1>10, UnflattenIs DEF out, n
<1>12. ASSUME NEW p \in 1 .. Len(sizes)
       PROVE  out[p] = [i \in 1 .. sizes[p] |->
                          LET at == Total(SubSeq(sizes, 1, p - 1)) + i
                          IN  flats[1][at] + flats[2][at]]
  <2>1. /\ Before(sizes, p) \in Nat /\ sizes[p] \in Nat
        /\ Before(sizes, p) + sizes[p] <= n
    BY <1>3, BeforeGrows DEF n
  <2>2. ASSUME NEW i \in 1 .. sizes[p]
        PROVE  sum[Before(sizes, p) + i] = flats[1][Before(sizes, p) + i] + flats[2][Before(sizes, p) + i]
    <3>1. Before(sizes, p) + i \in 1 .. n
      BY <1>4, <2>1
    <3> QED
      BY <1>7, <1>10, <3>1
  <2>3. out[p] = [i \in 1 .. sizes[p] |-> sum[Before(sizes, p) + i]]
    BY <1>11
  <2>4. out[p] = [i \in 1 .. sizes[p] |-> flats[1][Before(sizes, p) + i] + flats[2][Before(sizes, p) + i]]
    BY <2>2, <2>3
  <2> QED
    BY <2>4 DEF Before
<1>13. DOMAIN sizes = 1 .. Len(sizes)
  BY <1>3
<1>14. EncryptedSumExact'
  BY <1>6, <1>11, <1>12, <1>13 DEF EncryptedSumExact
<1> QED
  BY <1>6, <1>14

\* For every number of agents, of deviating ones and of slots, and every clipping norm: whatever the
\* updates, krum and the trimmed mean stay with the honest agents, a compressed update is the closest
\* of its size, encrypted sums are those of the parameters and one example is bounded.
THEOREM AggregationSoundHolds == AggregationSpec => []AggregationSound
<1>1. AggregationInit => AggregationSound
  BY DEF AggregationInit, CallsInit, Ready, Answered, AggregationSound, KrumFollowsTheMajority,
         TrimmedMeanWithinTheHonest, CompressionClosest, SparseSmallerBelowHalf, EncryptedSumExact,
         ClippingBoundsOneExample
<1>2. AggregationSound /\ [AggregationNext]_call => AggregationSound'
  <2> SUFFICES ASSUME AggregationSound, [AggregationNext]_call PROVE AggregationSound'
    OBVIOUS
  <2>1. CASE CallRobust
    <3>1. call'.op = "robust" /\ KrumFollowsTheMajority' /\ TrimmedMeanWithinTheHonest'
      BY <2>1, RobustCallSound
    <3> QED
      BY <3>1 DEF AggregationSound, Answered, CompressionClosest, SparseSmallerBelowHalf,
                  EncryptedSumExact, ClippingBoundsOneExample
  <2>2. CASE CallCompress
    <3>1. call'.op = "compress" /\ CompressionClosest' /\ SparseSmallerBelowHalf'
      BY <2>2, CompressCallSound
    <3> QED
      BY <3>1 DEF AggregationSound, Answered, KrumFollowsTheMajority, TrimmedMeanWithinTheHonest,
                  EncryptedSumExact, ClippingBoundsOneExample
  <2>3. CASE CallCkksSum
    <3>1. call'.op = "ckks_sum" /\ EncryptedSumExact'
      BY <2>3, EncryptedCallSound
    <3> QED
      BY <3>1 DEF AggregationSound, Answered, KrumFollowsTheMajority, TrimmedMeanWithinTheHonest,
                  CompressionClosest, SparseSmallerBelowHalf, ClippingBoundsOneExample
  <2>4. CASE CallClip
    <3>1. call'.op = "clip" /\ ClippingBoundsOneExample'
      BY <2>4, ClipCallSound
    <3> QED
      BY <3>1 DEF AggregationSound, Answered, KrumFollowsTheMajority, TrimmedMeanWithinTheHonest,
                  CompressionClosest, SparseSmallerBelowHalf, EncryptedSumExact
  <2>5. CASE UNCHANGED call
    <3>1. KrumFollowsTheMajority'
      BY <2>5 DEF AggregationSound, Answered, KrumFollowsTheMajority
    <3>2. TrimmedMeanWithinTheHonest'
      BY <2>5 DEF AggregationSound, Answered, TrimmedMeanWithinTheHonest
    <3>3. CompressionClosest'
      BY <2>5 DEF AggregationSound, Answered, CompressionClosest
    <3>4. SparseSmallerBelowHalf'
      BY <2>5 DEF AggregationSound, Answered, SparseSmallerBelowHalf
    <3>5. EncryptedSumExact'
      BY <2>5 DEF AggregationSound, Answered, EncryptedSumExact
    <3>6. ClippingBoundsOneExample'
      BY <2>5 DEF AggregationSound, Answered, ClippingBoundsOneExample
    <3> QED
      BY <3>1, <3>2, <3>3, <3>4, <3>5, <3>6 DEF AggregationSound
  <2> QED
    BY <2>1, <2>2, <2>3, <2>4, <2>5 DEF AggregationNext
<1> QED
  BY <1>1, <1>2, PTL DEF AggregationSpec
==============================================================================
