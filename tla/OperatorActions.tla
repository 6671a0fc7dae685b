---------------------------- MODULE OperatorActions ----------------------------
(***************************************************************************)
(* What the operator's actions do to the operator's context                *)
(* (operator/actions.py, operator/queue.py): the queue and its drains, the *)
(* defences, the keypair, the queries and the attacks; and the requests    *)
(* that replace the context or the federated trainer under it.  Requests   *)
(* submit an action and drain the queue at once; a caller inside the       *)
(* program may submit for a later tick, which the tick drains.             *)
(* Handlers run on the event loop without awaiting, so each is a step.     *)
(***************************************************************************)
EXTENDS Maps

CONSTANTS
  MaxQueue,      \* OperatorQueue.max_queue
  Requests,      \* the actions that requests ask for: records kind, arg
  Scheduled,     \* the actions that are submitted for a later tick
  Budget,        \* how many queries the privacy budget allows
  MaxSlotTick, MaxSubmitted, MaxTrainers, MaxEnables   \* bounds

ASSUME OperatorActionsAssumption ==
  /\ {MaxQueue, Budget} \subseteq Nat \ {0}
  /\ {MaxSlotTick, MaxSubmitted, MaxTrainers, MaxEnables} \subseteq Nat
  /\ \A a \in Requests \cup Scheduled : {"kind", "arg"} = DOMAIN a

VARIABLES
  slotTick,      \* Simulation.tick_counter
  slot,          \* the orchestrator's operator: enabled, and how often it was enabled
  queue,         \* OperatorQueue: entries, next, submitted, dropped
  context,       \* OperatorContext: attached, trainer, defences; position, released
  operatorKey,   \* keystore.keypairs at the operator's index: a number, 0 before it has one
  newest,        \* the number of Orchestrator.federated_trainer
  krumOf,        \* per trainer: its method is krum, its krum_f
  drained,       \* history: what the last drain applied, with the results
  leftOver,      \* history: drained actions that were coalesced, and queued ones an enable threw away
  appliedCount,  \* history: how many actions were applied
  pauseAsked     \* history: pausing was the last that this context was asked about its queries

slotVars == <<slotTick, slot, queue, context, operatorKey, newest, krumOf, drained, leftOver,
              appliedCount, pauseAsked>>

NoDefences == [k_anonymity |-> 0, dp_paused |-> FALSE, krum_f |-> -1, key_rotations |-> 0]
EmptyQueue == [entries |-> <<>>, next |-> 0, submitted |-> 0, dropped |-> 0]

SlotInit ==
  /\ slotTick = 0 /\ slot = [enabled |-> FALSE, times |-> 0] /\ queue = EmptyQueue
  /\ context = [attached |-> FALSE, trainer |-> 0, defences |-> NoDefences,
                position |-> 0, released |-> 0]
  /\ operatorKey = 0 /\ newest = 0 /\ krumOf = <<>>
  /\ drained = <<>> /\ leftOver = 0 /\ appliedCount = 0 /\ pauseAsked = FALSE

------------------------------------------------------------------------------
\* The handlers.  A state of a drain is the context, the key, the trainers and the latest result.

Result(s, action, code) == [s EXCEPT !.result = [code |-> code, shown |-> action.arg]]
Refuse(s, action, code) == Result(s, action, code)

\* Fault: the query looks at its payload alone.
QueryRefusedIgnoringPause(s, action) == action.arg <= 0
QueryRefused(s, action) == s.ctx.defences.dp_paused \/ action.arg <= 0

HandleQuery(s, action) ==
  IF QueryRefused(s, action) THEN Refuse(s, action, "refused")
  ELSE IF s.ctx.released >= Budget THEN Refuse(s, action, "budget_exhausted")
  ELSE Result([s EXCEPT !.ctx.released = @ + 1], action, "ok")

\* Fault: the defence is noted before it is known whether there is a trainer.
HandleKrumNoted(s, action) ==
  IF action.arg < 0 THEN Refuse(s, action, "bad_payload")
  ELSE Result([s EXCEPT !.ctx.defences.krum_f = action.arg,
                        !.krum = [t \in DOMAIN @ |-> IF t = s.ctx.trainer THEN action.arg ELSE @[t]]],
              action, "ok")

HandleKrum(s, action) ==
  IF action.arg < 0 THEN Refuse(s, action, "bad_payload")
  ELSE IF s.ctx.trainer = 0 THEN Refuse(s, action, "no_trainer")
  ELSE Result([s EXCEPT !.ctx.defences.krum_f = action.arg, !.krum[s.ctx.trainer] = action.arg],
              action, "ok")

HandlePolicy(s, action) ==
  IF action.arg < 1 THEN Refuse(s, action, "bad_payload")
  ELSE Result([s EXCEPT !.ctx.defences.k_anonymity = action.arg], action, "ok")

\* Fault: the count goes up and the key stays.
RotatedKeyKept(s) == s.key
RotatedKey(s) == s.key + 1

HandleRotate(s, action) ==
  Result([s EXCEPT !.key = RotatedKey(s), !.ctx.defences.key_rotations = @ + 1], action, "ok")

\* A signature is made with the key of the moment and carries it.
HandleSign(s, action) == Result(s, [action EXCEPT !.arg = s.key], "ok")

\* An attack is rehearsed on made-up data: the result, and an event that tells of it.
HandleAttack(s, action) ==
  IF action.arg <= 0 THEN Refuse(s, action, "bad_payload") ELSE Result(s, action, "ok")

Handle(s, action) ==
  CASE action.kind = "move" -> Result([s EXCEPT !.ctx.position = action.arg], action, "ok")
    [] action.kind = "query_dp" -> HandleQuery(s, action)
    [] action.kind = "sign" -> HandleSign(s, action)
    [] action.kind = "attack_byzantine" -> HandleAttack(s, action)
    [] action.kind = "defense_k_anonymity" -> HandlePolicy(s, action)
    [] action.kind = "defense_pause_dp" -> Result([s EXCEPT !.ctx.defences.dp_paused = TRUE], action, "ok")
    [] action.kind = "defense_resume_dp" -> Result([s EXCEPT !.ctx.defences.dp_paused = FALSE], action, "ok")
    [] action.kind = "defense_rotate_keys" -> HandleRotate(s, action)
    [] action.kind = "defense_enable_krum" -> HandleKrum(s, action)
    [] OTHER -> Refuse(s, action, "unknown_kind")

------------------------------------------------------------------------------
\* The queue.

Pushed(entries, e) == AppendBounded(entries, e, MaxQueue)

\* Fault: only what is submitted to a longer queue counts as dropped.
SubmittedMiscounted(q, action, target) ==
  [entries |-> Pushed(q.entries, [seq |-> q.next, submit |-> slotTick, target |-> target, action |-> action]),
   next |-> q.next + 1, submitted |-> q.submitted + 1,
   dropped |-> q.dropped + (IF Len(q.entries) > MaxQueue THEN 1 ELSE 0)]

\* OperatorQueue.submit; when the deque is full its oldest entry falls out.
Submitted(q, action, target) ==
  [entries |-> Pushed(q.entries, [seq |-> q.next, submit |-> slotTick, target |-> target, action |-> action]),
   next |-> q.next + 1, submitted |-> q.submitted + 1,
   dropped |-> q.dropped + (IF Len(q.entries) >= MaxQueue THEN 1 ELSE 0)]

IsDue(e) == e.target <= slotTick     \* no target: 0

\* Fault: entries that wait are not sorted out.
DueEntriesAll(q) == q.entries
DueEntries(q) == AtPlaces(q.entries, {i \in DOMAIN q.entries : IsDue(q.entries[i])})
WaitingEntries(q) == AtPlaces(q.entries, {i \in DOMAIN q.entries : ~IsDue(q.entries[i])})

\* due.sort: the k-th has k - 1 before it, by the tick of its submission and its number.
Before(a, b) == a.submit < b.submit \/ (a.submit = b.submit /\ a.seq < b.seq)
InOrder(due) ==
  [k \in DOMAIN due |->
     due[CHOOSE i \in DOMAIN due : Cardinality({j \in DOMAIN due : Before(due[j], due[i])}) = k - 1]]

MovesIn(due) == {i \in DOMAIN due : due[i].action.kind = "move"}

\* Fault: the first move wins.
KeptMoveFirst(due) == CHOOSE i \in MovesIn(due) : \A j \in MovesIn(due) : i <= j
KeptMove(due) == CHOOSE i \in MovesIn(due) : \A j \in MovesIn(due) : j <= i

\* coalesce_moves: the last move stays.
Coalesced(due) == AtPlaces(due, {i \in DOMAIN due : i \in MovesIn(due) => i = KeptMove(due)})

Asks(kept, k, kind) == kept[k].action.kind = kind

\* The word that the first n of these actions, or the ones before them, leave standing.
PauseStands(kept, n) ==
  \/ pauseAsked /\ \A i \in 1..n : ~Asks(kept, i, "defense_resume_dp")
  \/ \E i \in 1..n : /\ Asks(kept, i, "defense_pause_dp")
                     /\ \A j \in i..n : ~Asks(kept, j, "defense_resume_dp")

\* Where the drain stands after each of the actions.
DrainStates(kept) ==
  LET after[k \in 0..Len(kept)] ==
        IF k = 0 THEN [ctx |-> context, key |-> operatorKey, krum |-> krumOf, result |-> <<>>]
        ELSE Handle(after[k - 1], kept[k].action)
  IN  after

\* pop_due, coalesce_moves and apply_action for each.
Drained(q) ==
  LET due == InOrder(DueEntries(q))
      kept == Coalesced(due)
      after == DrainStates(kept)
      end == after[Len(kept)]
  IN  /\ queue' = [q EXCEPT !.entries = WaitingEntries(q)]
      /\ context' = end.ctx /\ operatorKey' = end.key /\ krumOf' = end.krum
      /\ drained' = [i \in DOMAIN kept |-> [entry |-> kept[i], code |-> after[i].result.code,
                                            shown |-> after[i].result.shown]]
      /\ leftOver' = leftOver + Len(due) - Len(kept)
      /\ appliedCount' = appliedCount + Len(kept)
      /\ pauseAsked' = PauseStands(kept, Len(kept))

------------------------------------------------------------------------------
\* A request: it is refused unless the operator is enabled.
Request ==
  /\ slot.enabled /\ context.attached /\ queue.submitted < MaxSubmitted
  /\ \E action \in Requests : Drained(Submitted(queue, action, 0))
  /\ UNCHANGED <<slotTick, slot, newest>>

\* OperatorQueue.submit, for a later tick.
Schedule ==
  /\ slot.enabled /\ queue.submitted < MaxSubmitted
  /\ \E action \in Scheduled, target \in slotTick + 1..MaxSlotTick : queue' = Submitted(queue, action, target)
  /\ UNCHANGED <<slotTick, slot, context, operatorKey, newest, krumOf, drained, leftOver, appliedCount, pauseAsked>>

\* Simulation._tick: pre_tick_hook drains with the counter as it is, and then it goes up.
SlotTicks ==
  /\ slotTick < MaxSlotTick
  /\ slotTick' = slotTick + 1
  /\ IF slot.enabled /\ context.attached THEN Drained(queue)
     ELSE UNCHANGED <<queue, context, operatorKey, krumOf, drained, leftOver, appliedCount, pauseAsked>>
  /\ UNCHANGED <<slot, newest>>

\* enable_operator: a new queue and a new context, on the trainer of the day; the keypair is
\* the first one's.
EnableSlot ==
  /\ slot.times < MaxEnables
  /\ slot' = [enabled |-> TRUE, times |-> slot.times + 1]
  /\ queue' = EmptyQueue /\ leftOver' = 0 /\ appliedCount' = 0 /\ drained' = <<>>
  /\ context' = [context EXCEPT !.attached = TRUE, !.trainer = newest, !.defences = NoDefences]
  /\ operatorKey' = IF operatorKey = 0 THEN 1 ELSE operatorKey
  /\ pauseAsked' = FALSE
  /\ UNCHANGED <<slotTick, newest, krumOf>>

\* disable_operator: the context stays, the queue goes.
DisableSlot ==
  /\ slot.enabled /\ slot' = [slot EXCEPT !.enabled = FALSE]
  /\ queue' = EmptyQueue /\ leftOver' = 0 /\ appliedCount' = 0 /\ drained' = <<>>
  /\ UNCHANGED <<slotTick, context, operatorKey, newest, krumOf, pauseAsked>>

\* POST /federated/start.
StartTrainer ==
  /\ newest < MaxTrainers /\ newest' = newest + 1 /\ krumOf' = Append(krumOf, -1)
  /\ UNCHANGED <<slotTick, slot, queue, context, operatorKey, drained, leftOver, appliedCount, pauseAsked>>

SlotNext == Request \/ Schedule \/ SlotTicks \/ EnableSlot \/ DisableSlot \/ StartTrainer

------------------------------------------------------------------------------
\* Of what was submitted to a queue, everything is queued, applied, coalesced, or was pushed
\* out by a newer action when the queue was full.
QueueAccounted ==
  queue.submitted = Len(queue.entries) + appliedCount + leftOver + queue.dropped

\* A drain applies what is due in the order of its submission, with one move at most, and that
\* one comes after every move it replaces; nothing is applied early, or late.
DrainsInOrder ==
  /\ \A i, j \in DOMAIN drained : i < j => drained[i].entry.seq < drained[j].entry.seq
  /\ Cardinality({i \in DOMAIN drained : drained[i].entry.action.kind = "move"}) <= 1
  /\ \A i \in DOMAIN drained : drained[i].entry.target <= slotTick
  /\ \A i \in DOMAIN queue.entries : queue.entries[i].target >= slotTick

\* The move that is applied is the latest: no other that was due came after it.
LastMoveWins ==
  [][\A i \in DOMAIN drained' :
       drained' # drained /\ drained'[i].entry.action.kind = "move" =>
         \A j \in DOMAIN queue.entries :
           queue.entries[j].action.kind = "move" /\ IsDue(queue.entries[j]) =>
             queue.entries[j].seq <= drained'[i].entry.seq]_slotVars

\* While its owner's last word was to pause, a context releases nothing, whatever was queued
\* before.  (Enabling again is a new context, which knows of no pause.)
PausedReleasesNothing ==
  [][context'.released > context.released =>
       ~pauseAsked \/ \E i \in DOMAIN drained' : drained'[i].entry.action.kind = "defense_resume_dp"]_slotVars

\* A reported Krum defence is one that the context's trainer has; and it is the trainer of the
\* day, unless another one was started since the context was built.
ReportedKrumIsSet ==
  context.defences.krum_f >= 0 =>
    /\ context.trainer \in DOMAIN krumOf
    /\ krumOf[context.trainer] = context.defences.krum_f

\* The key changes exactly as often as a rotation is counted, and a signature shows the key
\* that the rotations before it in the same drain had left.
RotationsChangeTheKey ==
  [][slot' = slot =>
       /\ operatorKey' - operatorKey = context'.defences.key_rotations - context.defences.key_rotations
       /\ drained' # drained =>
            \A i \in DOMAIN drained' :
              drained'[i].entry.action.kind = "sign" =>
                drained'[i].shown = operatorKey + Cardinality(
                  {j \in 1..i - 1 : drained'[j].entry.action.kind = "defense_rotate_keys"})]_slotVars

\* Over a bounded queue, scheduled actions, enabling again and trainers replaced: each action is
\* applied or dropped once and in order, the latest move wins, and defences do what is reported.
SlotSound ==
  /\ [](QueueAccounted /\ DrainsInOrder /\ ReportedKrumIsSet)
  /\ LastMoveWins /\ PausedReleasesNothing /\ RotationsChangeTheKey
=============================================================================
