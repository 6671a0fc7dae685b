# Penumbra in TLA+

Penumbra runs a simulated arena of agents, a small proof-of-stake chain that
records who won, an encrypted heatmap with a privacy budget, a market with a
supply chain, federated training, and a web API in front of all of it: one
Python process, one asyncio event loop, and a few worker threads.  This
directory holds specifications of the parts of it that keep state, the TLC
runs that check them on small instances, and TLAPS proofs of their most
important properties for every instance.

Paths below are relative to `src/packages/` unless they start with `src/`;
`transport/`, `chain/`, ... stand for `transport/penumbra_transport/`,
`chain/penumbra_chain/` and so on.  `PROJECT.json` maps every definition to the
lines it models, and lists the runs, the hazards and what covers each of them.

## 1. The system

### What runs concurrently

| Task or thread | Code | What it touches |
| --- | --- | --- |
| tick loop, 10 Hz | `transport/loop.py` | the simulation, then the hub |
| block loop, every few seconds | `Orchestrator._block_production_loop` | the chain node |
| analytics loop | `Orchestrator._analytics_loop` | market, logistics, pipeline, federated rounds |
| request handlers and socket tasks | `transport/api.py` | everything |
| heatmap worker thread | `EncryptedHeatmap.compute` through `to_thread` | the privacy budget, the event bus |
| live-trainer thread | `learning/live_trainer.py` | the policy, the event bus, the order book (read only) |
| manual federated round | `POST /federated/round` through `to_thread` | a federated trainer |
| analytics thread | `Orchestrator._cpu_bound_analytics` through `to_thread` | the pipeline, the keystore, the positions (read only) |
| terminal, REPL and coach handlers | `ws_pty`, `ws_repl`, `coach_exec` | the default thread pool, `sys.stdout`, child processes |

Whatever runs on the event loop is atomic between two `await`s; the models use
that and no more.  Threads interleave wherever the interpreter may switch: at
calls and at the back-edges of loops.

### Components

Each entry gives the state, the operations, who it talks to, what is hard
about it and what makes it correct.

**Chain node** (`chain/node.py`, `mempool.py`, `block.py`, `consensus.py`,
`slashing.py`).  State: a bounded FIFO of match outcomes, validators with keys,
the active set, slashed keys, slashings that wait for a block, the chain.
Operations: `submit` (from the end of a match), `produce_block` (the block
loop), `slash` (two endpoints); a hook on finalisation pays the winners.
Hard: outcomes are popped before the block is known to be final, the full FIFO
drops its oldest entry, signatures of different origins are recombined into
evidence, the set of signers shrinks.  Correct: no outcome is lost, duplicated or
reordered; the hash chain holds; only equivocators are slashed, each once, each
recorded once; signers are those the chain itself shows as not slashed.

**Snapshots and save/resume** (`chain/persistence.py`, `core/persistence.py`,
`transport/world.py`, `operator/save_resume.py`).  State: nine files of a
session directory.  Operations: save, resume, discard, abandon, `/world/save`
and `/world/load`.  Hard: a process that dies between two writes or in the middle
of one; files of two boots in one directory; the swapped-in node is not the
one the bus was wired to.

**Event bus** (`transport/events.py`).  State: a flag, a queue, a history.
Operation: `emit`, from the event loop and from threads, also inside handlers.
Hard: the flag is tested and set without a lock; the queue is exchanged while
others append to it.  Correct: every event is handled once, and none waits for
the next unrelated one.

**Privacy budget and heatmap** (`crypto/dp.py`, `transport/encrypted_heatmap.py`,
switches of `analytics/dashboard_pipeline.py`).  State: what is spent, two
latches, two switches.  Operations: a release from the worker thread, a query
from the operator, the two signals.  Hard: two threads test and set the latches;
a remainder smaller than a release.  Correct: every value that leaves is paid for
once, the budget is never overspent, running low is announced.

**Federated learning** (`learning/federated.py`).  State: a trainer (blocks,
method, noise, baseline, history) that an endpoint can replace.  Operations:
rounds from the analytics loop and from a thread, configuration, blocks from
the bus and their release.  Hard: a round of seconds reads configuration at
several points, two rounds overlap, the trainer changes under a round.

**Market and logistics** (`core/economy.py`, `core/logistics.py`,
`Orchestrator._step_logistics`).  State: shelves, wallets, the reorder policy,
orders with ages and carriers.  Operations: production, trade, demand, reorder,
dispatch, delivery, release of stale orders, fulfilment of very old ones, and
the operator's trades and orders between passes.  Correct: no carrier has two
orders, shortages are ordered once, goods are conserved or explained, every
order ends.

**Tick loop, hub and frames** (`transport/loop.py`, `hub.py`, `framing.py`,
control endpoints).  State: run state and tick of a simulation, a bounded queue
per WebSocket client.  Hard: a full client is dropped in the middle of a
broadcast, while its own task still sends; the loop awaits the close of each;
a resume replaces the simulation that the endpoints act on.  Correct: a client
sees consecutive frames, a reading client sees all of them, the loop goes on.

**Simulation core** (`core/simulation.py`, `match.py`, `agent.py`, `arena.py`,
`transport/world.py`, `learning/env.py`, `policy_loader.py`).  State: a graph whose
edges come and go, goals that walk, agents, a match; clones of the world.
Operations: a tick, a step of the training environment, branching.  Hard: an
action refers to an observation older than the graph, the goals move between a
win and its reward, a match ends by time and by a win at once, a clone goes
through a file.  Correct: the graph stays connected, nobody jumps, winners are
paid, clones of one moment develop alike.

**Operator slot** (`operator/`: queue, actions, scenarios, scoring, replay;
the `/operator` endpoints).  State: an action queue, a context with defences and a
trainer, scenario sessions, a log buffer, a pointer to the latest save.
Every request submits an action and drains the queue at once
(`_submit_and_drain`, api.py 3057-3116), and saves.  Hard: enabling again,
abandoning, resuming and restarting in every order; scheduled actions and a full
queue.  Correct: an action is applied or dropped, once, and logged in its
session; what is offered for a resume can be resumed; a defence that is reported
is in force.

**Agent signing and security blocks** (`transport/agent_signing.py`,
`orchestrator.py` 284-317, 412-440, 836-867).  State: rejections, dates of
blocks, the last signed tick.  Fed by `verify_move` and
`POST /control/inject` (api.py 3852-3905); enforced in the market, the dispatcher and
the federated trainer.  Hard: a block over a block, the tick set back by a
resume, positions that move while they are signed.

**Reinforcement learning** (`learning/`).  State: the trainer's task, its thread
and curve; the shaper's count of deliveries.  Hard: pause, start, cancel and
shutdown around a thread that cannot be stopped; two reads of an order book
that another thread writes.

**Dashboard analytics** (`analytics/`).  State: windows, the time each consumer ran
last, the snapshot.  Hard: one consumer raises and those behind it do not run.

**Terminal, REPL and coach bridges** (`transport/pty_bridge.py`, `repl_bridge.py`,
`coach.py`).  State: sockets, shells, jobs of the thread pool, `sys.stdout`.  Hard: a
blocked read holds a thread, a cancelled one goes on, numbers of closed files
are used again, redirection is process-wide.

**Echelon network** (`core/logistics_echelon.py`): a closed three-tier
simulation, one step at a time.  **Pure functions**: routing solvers
(`logistics_or.py`), Merkle tree (`chain/merkle.py`), cryptographic primitives,
educational cryptography and defences (`crypto/`), robust aggregation
(`federated.py`), scoring and scenario clauses (`operator/`), chart data
(`transport/interactivity.py`), statistics (`analytics/`).  **Attack
demonstrations, shell coach, web client, circuits and scripts**: rendering,
wrappers and stateless demonstrations.

## 2. Modules

| Module | Models | Role |
| --- | --- | --- |
| `ChainNode` | `chain/node.py` and what it calls | detailed specification |
| `Ledger` | what the chain promises its readers | abstract specification, implemented by `ChainNode` |
| `Snapshots` | save, crash, restart, resume, discard | extends `ChainNode` |
| `EventBus` | `transport/events.py`, threads and nested calls | detailed specification |
| `Delivery` | at-most-once delivery of what was emitted | abstract specification, implemented by `EventBus` |
| `PrivacyBudget` | the accountant and its two users | specification |
| `Federated` | trainers, rounds and what restrains them | specification |
| `Logistics` | market, orders, dispatcher, operator's trades | specification |
| `TickStream` | tick loop, hub, clients, control endpoints | specification |
| `OperatorSession` | enable, act, scenarios, save, abandon, resume, restart, logs | specification of a service |
| `OperatorActions` | the queue, its drain and what the actions do to defences and trainers | specification of a service |
| `AgentBlocks` | rejections, blocks and their dates; the signing pass on its thread | specification of a service |
| `LiveTraining` | the training task, its thread, the shaper, the shutdown | specification of a service |
| `Pipeline` | the turns of the analytics consumers | specification of a service |
| `Terminals` | shells, REPL and coach commands over one thread pool | specification of a service |
| `MatchPlay` | arena, moves, goals and matches, live and in training | specification of a service |
| `Branches` | clones of the world | specification of a service |
| `Echelon` | the three-tier supply network | specification of a service |
| `SecretSharing`, `GroupProtocols`, `Pairings`, `HashTrees`, `Garbling`, `MixNet` (over `Field`) | `crypto/`, `chain/merkle.py` | algorithms |
| `Defences`, `Aggregation`, `Learning`, `Routing`, `Charts`, `OperatorRules`, `Statistics` | privacy defences; federated arithmetic; reinforcement learning; solvers; chart data; scores and clauses; figures of the dashboard | algorithms |
| `Maps`, `Calls` | dictionaries, bounded deques, sorted sets and filtered lists; one call of a pure function | shared operators |
| `SetSums` | sums over finite sets, induction, recursion | lemmas for the proofs |
| `MC...` | instances for TLC | model checking |
| `...Proofs` | theorems and their proofs | TLAPS |

Actions bear the names of the functions they model.  Where a definition is
followed or preceded by a variant marked `Fault`, the variant is a plausible bug;
`PROJECT.json` names the property that catches it.

**ChainNode.**  A call of a method of `Node` is an action.  `mempool`, `chain`,
`active`, `slashed`, `pending` are `_queue`, `chain`, `active_indices`,
`slashed_pubkeys`, `pending_slashings`.  A public key is a validator and the
number of the boot that drew it, a block hash is the time stamp that makes the
hashed header unique, a signature is exactly what it binds.  `sigs`,
`rewarded` and `evicted` are histories.  `ForeignSign` is what a Byzantine
validator's key signs elsewhere; `SubmitEvidence` tries every pair of recorded
signatures under every claimed height, which includes replays.

**Snapshots.**  The files are written in the order of `FileOrder`; four of them
by writing aside and renaming, the others in place.  A save runs without an
await, so a save is one action, and `CrashInSave(k)` is a save that dies while
it writes its k-th file, leaving that file old, empty or torn as its kind of
write allows.  `Resume` takes the files as `restore_from` does, with no check
that they agree.

**EventBus.**  Each thread has a stack of active calls of `emit`, because a
handler emits and a drain calls `emit` again.  The steps are the stretches of
code in which the interpreter does not switch.

**PrivacyBudget.**  Integers stand for the floats of the code, and the model
lets a budget end with a remainder, as the real default does.  `deduct` is one step
(it calls nothing between its test and its additions); `_maybe_signal` is three.
Its names do not overlap with those of the services (`BudgetInit`, `budgetVars`), so that
`OperatorProofs` can be about both users of `query_dp`.

**Federated.**  Trainer objects are numbered, and a round keeps the one it was
called on.  Weights are the set of calls whose aggregate they contain, which is
what a lost update shows in.

**Logistics.**  One pass of the analytics loop has no await between market and
settlement; it is split into the bodies of its loops under the variable
`phase`, and everything else happens in phase `"idle"`, which is the same
system with smaller steps.  Amounts and blocked agents are open choices within
what the code admits.

**TickStream.**  A frame is its tick.  A broadcast runs unbroken up to the first
close it awaits; then the other tasks run.  `sim` holds the simulation the
loop was built with and the one a resume brought; `shown` says which of
them the endpoints act on.

**Services.**  Nine modules model parts that share no state their models hold.
Each has an `Init`, a `Next` and a tuple of variables of its own (`Terminals` and
`AgentBlocks` have two); `MCServices` runs them side by side, where the variable `part`
says which of them a behaviour is about and the others keep still.  Where
a fact depends on another component it is an open choice: a resume may set the
tick back at any time (`AgentBlocks`), a consumer may raise (`Pipeline`), a new
trainer may be started (`OperatorActions`), a shell may ignore a signal
(`Terminals`).

* `OperatorSession` numbers worlds, sessions, actions and saves; a save is
  made after every action, as `_submit_and_drain` does, and a restart keeps the
  files and loses everything else.
* `OperatorActions` has the two lists `pop_due` makes, its sort, coalescing, the
  state of the drain after each action, the defences of the context and the trainer
  each of them was given to.
* `LiveTraining` has the task and its thread apart: cancelling the one leaves the
  other running.  The shaper's two reads are two steps.
* `Pipeline` runs consumers in their fixed order; one without a guard ends the
  pass when it raises.
* `MatchPlay` has the two drivers of one arena and follows `step` of each in
  full: weather, goals, moves, the end of the match, rewards.
* `Terminals` has the jobs of the pool, running and waiting; what a terminated
  connection leaves behind stays there.

**Algorithms.**  `Calls` gives a call of a pure function as one step, from its name
to its arguments and its answer.  A module of this kind has an operator per
function, an action that calls it with every input of a bounded set, and
properties that say what the answer must be without repeating how it is
computed: a Merkle proof verifies exactly for the leaf at its index, k
shares give the secret and k-1 are compatible with all of them, no 2-opt move
improves a result of `solve_two_opt`, a Krum winner lies within the honest
updates.  Groups are cyclic groups of small prime order and a pairing multiplies
exponents.  A hash is what it was computed from, or an oracle whose answer is an
argument of the call, so that soundness is a statement about every challenge: whoever
could answer two of them would know the secret.

## 3. Runs

A property of a run is often a conjunction of named parts that have one subject:
`OutcomesSound` is `OutcomesAccounted`, `OutcomesInOrder` and `RewardedOnce`;
`SlotSound` is what the operator's slot must keep.  Each part has its own comment and
mutant, next to the part.  The refinements carry the liveness of
what they implement: `Ledger` and `Delivery` have fairness, so that outcomes and
slashings reach the chain, and events their handlers, follows from
`ImplementsLedger` and `ImplementsDelivery`.

| Run | Expected | What it shows |
| --- | --- | --- |
| `ChainNode` | pass | accounting, order, hash links, rewards, signers, slashing, evidence; refinement of `Ledger` with its fairness; everything settles while a validator is left |
| `SnapshotCrash` | pass | what survives a crash at any file; a snapshot of two boots drains nothing it cannot append |
| `SnapshotPointer` | violation | a second save overwrites what the old pointer names |
| `SwapDropsReward` | violation | a node swapped in by resume pays no winners |
| `BusThreads` | pass | every event handled once, none stranded; refinement of `Delivery` |
| `BudgetThreads` | pass | spending matches what left; low budget announced; exact exhaustion reaches the pipeline |
| `FedRounds` | pass | rounds numbered without gap or repetition; barred agents stay out |
| `LogisticsOrders` | pass | one order per carrier, no double ordering, no goods from nothing, every order ends |
| `TickFrames` | pass | consecutive frames, complete for a reading client; the loop goes on; a dropped client with frames left comes to an end |
| `ResumedWorld` | violation | a restored simulation is never ticked |
| `Services` | pass | what section 2 lists as services: sessions, saves and logs; blocks and signatures; training; analytics turns; terminals; play; branches; the supply network |
| `Algorithms` | pass | the pure functions, each against what it is for |

### Bounds, and why they are enough

* `ChainNode`: two validators, one Byzantine, capacity 3, two outcomes per
  block, four matches, six blocks, two foreign signatures.  Four matches overflow
  the FIFO; a payload of two leaves outcomes behind; two foreign signatures
  make evidence; one slashing leaves a signer, two leave none.  With at most
  three validators the quorum is all of them, so a third adds states and no new
  case; the proofs cover every number.
* `SnapshotCrash`: two restarts and two saves, the least that puts files of two
  boots into one directory and still resumes it.
* `BusThreads`: two threads and four events, so that a handler emits inside a
  dispatch while the other thread emits and drains.
* `BudgetThreads`: 41 units in steps of 20 and 1, so that both an exact
  exhaustion and a remainder below the warning threshold occur.
* `FedRounds`: two trainers, two rounds, two agents of which one can be barred:
  the trainer is replaced and reconfigured under a round, and two rounds overlap.
* `LogisticsOrders`: an agent, the operator, two cities, two orders, shelves of
  two, spikes of 100 % and 300 %; orders go stale, are released, given up, delivered and
  fulfilled by nobody.  That no agent has two orders is proved for any number of agents.
* `TickFrames`: two clients, queues of one, three ticks, warp 1 and 2.  A queue of one is full
  after a frame, so both clients can be dropped in one broadcast.
* `Services`: two scenarios, one limit of one tick, three worlds, two saves: a
  scenario is abandoned, saved again, resumed and overtaken by its limit.  One agent, a
  window of one tick, a cool-off of two, four ticks and two blocks: the second block
  comes before and after the end of the first (dates are kept per agent; with two agents,
  three ticks and one injected date the run passes too, in three minutes).  Two movers, two
  passes, a restored tick below, at and above the current one.  Three deliveries and
  an order book whose deque keeps two of them.  Five nodes in the supply network: one supplier, two
  distributors, two cities.  Four consumers, one unguarded.  A queue of two, three
  submissions.  A graph of five nodes in which deleting an edge can cut it
  in two, neighbours up to two of three.  Two terminals in a pool of two and
  three threads, two submissions that can overlap.
* `Algorithms`: shares over 5 elements with up to four parties, groups of order 7 to 23,
  trees of up to six leaves, a FRI code over 17 elements, four-bit comparisons, tables
  of four records, messages of four bytes, three orders and loads of two sizes, five updates one
  of which is faulty, rollouts of three steps.  The functions have no bound of their
  own that these do not pass: odd and even levels, a threshold of one and of
  all, an empty input, a tie, a value on the edge of an interval.

`MaxMatches`, `MaxBlocks`, `MaxForeign`, `MaxBoots`, `MaxSaves`, `MaxEvents`,
`MaxStarts`, `MaxRounds`, `MaxQuantity`, `MaxOrders`, `MaxSteps` and `MaxTicks`
are the bounds that the program does not have.  Deadlock is not checked where
such a bound, or the end of all validators, lets the model stop.

### Fairness

* `ChainNode`: weak fairness of `Produce`; `_block_production_loop` calls
  `produce_block` every interval for as long as the process lives.
* `EventBus`: weak fairness of each thread's steps inside a call; the
  interpreter runs every thread.  That anybody emits is not assumed.
* `PrivacyBudget`: a call that has begun goes on, and the bus delivers,
  which `BusThreads` shows of the bus (`ImplementsDelivery` with its fairness).
  That anybody asks is not assumed.
* `Logistics`: weak fairness of the pass and strong fairness of `Tick`, which
  is disabled within a pass but enabled between any two; the arena is not left
  paused.
* `TickStream`: weak fairness of the loop, of a close, of each client's task;
  sends return only for clients declared `Healthy`.  A close returns at the
  latest when the WebSocket library gives up.

### What the violations mean

1. `SnapshotPointer`.  `save_session` promises that readers see the old pointer
   with an intact old snapshot or the new pointer with the new one
   (`operator/save_resume.py` 129-132).  It writes into the directory the old
   pointer names, so a death in a second save leaves the old pointer with a mixture.
2. `SwapDropsReward`.  `Node.restore_from` leaves `on_signal` empty and only
   `Orchestrator._wire_event_bus` sets it, once; after resume or load finalised
   blocks publish no event and pay nobody.
3. `ResumedWorld`.  The tick loop keeps the simulation it was built with; pause,
   resume and step act on the restored one.  An arena paused before the resume
   never ticks again.

### Observations that no run states

* Both budget signals can be sent twice; their handlers are idempotent.  With a
  remainder below a release the heatmap publishes clean densities and the
  degraded flag never rises.
* The position snapshot of a logistics pass leaves the operator out
  (`orchestrator.py` 762-788): the operator never delivers its own orders.
* `int(cur + 0.15)` of a whole number never produces anything, and a demand of
  0.05 rounds to none.  A delivery to a full shelf loses the surplus.
  Orders above the cargo capacity are only ever fulfilled by age.
* The very-old rule does not ask when an order was last assigned.
* The encrypted-sum aggregation does not filter blocked agents.  A trainer
  built after a slashing or an exhausted budget knows of neither, and the
  release of an agent's block also releases a slashed validator of that number.
* Noise can be switched on in the middle of a round that the gate let through
  without.
* A resumed older snapshot signs a height a second time with the same keys.
* A handler may run inside another thread's dispatch when a second thread clears
  the flag, contrary to the comment at events.py 88-90.
* The frames of single-stepped ticks are not broadcast.
* `_maybe_step_federated` tests the tick counter where its comment counts passes.

Federated learning and streaming:
* Nothing keeps the loop's round and a manual round apart; both read the
  baseline and the later store wins (federated.py 713).
* Clients to be dropped are listed before the first close is awaited.  One that
  sends its last frame meanwhile is detached and closed while its task waits
  in `queue.get()` for good (hub.py 57-65).

Operator, sessions, blocks:
* Enabling again throws away queued actions and the defences of the old context, while
  a trainer keeps its Krum; `POST /federated/method` can undo Krum while the
  status still reports it.  The log buffer of the old session stays open.
* After a resume the context and the loop stay with the old world, while saves
  store the new one; after a restart and a resume actions are not logged; the
  elapsed time of a scenario can be negative.  The market's wallets are not saved.
* `operator_attacks_survived` is never incremented.  A scenario's weights
  are not checked by the schema, and one bad file keeps all from loading.  "tick" in a
  clause means the ticks since the start.
* `/control/inject` emits `validator.slashed`, the subscriber listens to
  `chain.validator.slashed` (api.py 3889).
* After a resume to an earlier tick nothing is signed until it catches up.
* `POST /config` has applied what comes before the field it refuses.

Simulation, training, network:
* The training environment never terminates: `_evaluate_match` begins a new
  match at once.  The deployed index for "stay" is a move for an agent with seven
  neighbours.  `numpy_for` gives a fresh generator per call: random walkers
  repeat their first draw.
* Branching seeds process-wide generators again; a branch has no batch policy,
  operator or hooks, its advance is multiplied by the time warp, and
  `register_branch_policy` has no caller.
* The shaper can credit the wrong delivery when one arrives between its two reads.
  At shutdown `suppress(Exception)` lets `CancelledError` through: with training
  started, the orchestrator and the loop are not stopped.
* A steady negative mean reward is announced as an improvement each time.
* The live echelon network has a constant demand, so its bullwhip ratio is not a number.
* The penalty for a dropped order can equal the round trip that serves it; infinite
  distances raise; the comparison cost is read after the solver ran.

Analytics, charts, bridges, cryptography:
* An unguarded consumer that raises starves those behind it; the ROC curve is computed
  once; `topics.compute` can mask an error with an `UnboundLocalError`.  The search for
  change points never looks again to the left of a split; the Gini
  coefficient of equal wealth is 1/n^2.
* A chart of candles uses the product as its x axis; a single row of
  zeros draws nothing.
* Overlapping REPL submissions mix their output and can leave `sys.stdout` in a dead
  buffer; the limit of five seconds is looked at only after the evaluation.  A
  terminal's read cannot be cancelled, shells are not waited for, and as many idle
  terminals as pool threads stop everything that needs a thread.
* The mix net's first delay is never applied; the FRI verifier does not look
  at the degree bound; sparse updates of more than half the entries are larger
  than dense ones; the BBS+ demonstration of two messages raises.

## 4. Proofs

All theorems hold for every value of the constants admitted by the module's
named assumption; no theorem assumes anything else.

**`ChainProofs`**
* `TypeCorrect`: `Spec => []TypeOK`, with the capacity of the FIFO.
* `ActiveXorSlashedHolds`: a validator is active exactly while its current key is
  not slashed.  Inductive together with `TypeOK` and the fact that keys do
  not change in a node that is not swapped.
* `HashLinkedHolds`: a block commits to the hash of the one stored before it.
* `SignsOnce`: the node never puts one key on two blocks of one height.  This is
  not inductive: an assembled block that was *not* appended would be followed by
  another at the same height.  `QuorumReached` shows that this cannot happen:
  with matching keys every active validator's signature verifies, and
  the cardinality of a finite non-empty set is at least ceil(2n/3).  The
  strengthening `SigInv` says that finality signatures lie below the current height.
* `OnlyEquivocatorsSlashedHolds`: combines the previous one with the check of
  evidence: two distinct hashes at one height cannot both come from block production.
* `SlashingsSoundHolds`: the queue of slashings moves into the next block as a
  whole (`BlockRecordsSlashings`), nobody slashed already can enter it
  (`SlashRecorded`), and whoever signs is whoever the chain does not slash
  (`BlockSigned`, which needs `ActiveXorSlashed`).
* `OutcomesSoundHolds`: inductive as it stands, with `TypeOK` and matching keys;
  the work is in what appending, dropping the oldest and draining do to an
  ordered queue (`InOrderAppended`, `InOrderTail`, `InOrderDrained`).

* `StepsImplementLedger`: the step simulation behind `ImplementsLedger`, by
  action: the end of a match submits or evicts, evidence bans, a block
  commits the oldest outcomes with every open slashing, all else stutters.
* `ResumedNodeSoundHolds`, `RecordedMeansInactiveHolds` and
  `DrainedMeansAppendedHolds`, of `Snapshots`: with any number of saves, saves cut
  short, restarts and resumes.  The invariant speaks of the node and the files together:
  `Excluded` (whom a chain or a queue names under a generation of keys is slashed
  and inactive) of the node's and of the disk's chain, and `NoLater` (no file
  names a key that is younger than the process).  A save that is cut short leaves
  files of different ages, and each prefix of the writes keeps both.

**`EventBusProofs`**
* `NothingStrandedHolds`.  The strengthening `StacksOK` is
  the shape of the stacks; the argument is that the flag is set only by a call that
  goes on to run a handler, and that a frame leaves its stack only after draining.
* `EventsKeptHolds`: an event that was emitted is in one place: queued, taken by one
  frame, or delivered.  The invariant counts the positions of an event in the queue
  and in every frame's batch.
* `StepsImplementDelivery`: the step simulation behind the bus's refinement of
  `Delivery`.

**`OperatorProofs`**, of the budget (`PrivacyBudget`): `BudgetTypeCorrect` (which contains that
the budget is never overspent), `SpendingAccountedHolds`, through the invariant `HeatmapAsks`
(the heatmap's call is for a release's amount), and `LowBudgetAnnouncedHolds`
through `SignalInv`: a latch is set only with its signal, and while the budget is
low or spent either a signal was sent or a call is under way that is going to
notice.

Of the operator's queue (`OperatorActions`), the lemmas that `SlotSoundHolds` of
`ServicesProofs` rests on:
* lists: `AtPlaces` keeps the order and all that passes (`Picks`, `PicksInLine`); the
  entries that wait and those that are due are together the queue (`DueAndWaiting`); what is
  popped is in order before it is sorted (`InOrderAlready`); of the moves that are due
  the last one stays (`CoalescedIs`), and nothing else goes;
* the drain: `DrainStatesAre` says that the state after each action is defined and what it is,
  with the library's theorems on recursive definitions out of reach (`RecursionExists` of
  `SetSums`); `DrainedSoFar` is the invariant of its loop: the context has one shape,
  the trainer's Krum is the one reported, the key is as
  many further as there were rotations, and so is their count; the context is paused
  exactly while the owner's last word is, and one that was and has not been resumed has released nothing (`SoFarGrows`, `DrainDone`);
* the slot: `SlotInv` is the types, `QueueGood` (the queue is bounded and in order, by number and
  by tick of submission), `ContextShape` and the properties themselves; `SlotStep` is what is
  claimed of a step.  `SlotSteps` proves both, with a lemma per action.  `QueueGood`
  is needed because the sort of `pop_due` must not move anything, and `ContextShape`
  (the Krum of the context's trainer, the pause and who is attached) because trainers are replaced
  and contexts built anew between two drains.

**`LogisticsProofs`**: for any number of agents, cities and orders.
* `OneOrderEachHolds`, with the shape of the order book as strengthening.  Orders
  change hands in five places, and each has a lemma.
* `BookSoundHolds`: the bounds of shelves and cargo, and that no shortage is ordered
  twice.  The strengthening says what each loop of a pass visits (`TodoOK`) and
  that the policy in use orders no higher than the highest (`PolicyOK`).  A
  step that places nothing leaves no city more on order (`Fewer`, `FewerKeeps`);
  `evaluate` adds what lacks to the level after asking what is on order
  (`EvaluateKeeps`), which contains what the cities placed themselves.
* `NoGoodsFromNothingHolds`: the sum over all shelves and wallets, handler by handler
  (`Exchange`: one shelf and one wallet change).

**`SetSums`**: what those sums need.  `SumFunctionOnSet` of the community modules is a
recursive function under a `CHOOSE`; `TableExists` shows that there is one,
`TableExchange` that the order of the elements does not matter, and `SumWithout`,
`SumChanged`, `SumMonotone`, `SumSubset` are what is used.  The library's induction
theorems take the property as an operator, which no backend can instantiate;
`SetInduction` takes the *set* of the numbers that have it.  It follows from the
pigeonholes of finite sets (`FS_Injection`): a set that is closed under
n -> n + 1 and lacks m would map its part below m one to one into itself and miss 0.
`SumUnion` and `SumByKey` split a sum (over disjoint sets, by a key of the elements),
and `RecursionExists` says that a function over 0 .. n that is defined from its value
one below exists, whatever the step: what Echelon's `Ordered` folds over the nodes.
`GreatestValue`: of finitely many numbers one is the greatest.

**`ServicesProofs`**, over the composition `MCServices`, whose services share no state:
* `SigningSoundHolds`, through `PassInOrder` (what is verified is the position
  that was read when the pass began, row by row) and `VerdictsBehind` (no verdict
  is of a later tick than the last one signed, and those of that tick are of rows
  the pass is done with), also when a restored world sets the clock back.
* `BlocksSoundHolds`: `LatestDates` (the date that will lift a block is that of the agent's
  last notice) and `KeystoreDates` (the keystore's own date never goes back, whatever
  the clock does).  The proof allows any number of rewinds, and so does the model.
* `TrainingSoundHolds`: `MempoolInv` and `ShaperInv` say what the thread owes at each of its
  places, also when a delivery falls between the two reads.
* `NetworkSoundHolds`, for any number of nodes and any rates, targets and lead time.  The types
  with the property itself are inductive; the work is in one step, which is four
  in the code.  `OrderedUpTo` says what is true once the nodes up to k have ordered, and
  `PlacingKeepsOrdered` that node k keeps it.  Arrivals, production, demand and orders each
  balance, which needs the goods on the road summed by their destination (`SumByKey`).
* `BranchesSoundHolds`, for any recorded worlds and any warp.  Its invariant `SameRun`: of two clones
  of one call the one ahead is reached from the other by ticks alone.  `Reached` is by way of
  a trace of single ticks; two traces from one clone agree (`TracesAgree`), and one
  trace goes on from another (`ReachedOn`, `ReachedRest`).
* `TurnsSoundHolds`, for any consumers.  Inductive with the fact that cadences are the
  consumers' own until the first warning (`FirstCadences`).  `Recomputed` says what a
  turn leaves of each consumer, wherever it breaks off; that none before that place is
  skipped (`TurnsTaken`) and that the one that raised stays due (`RaisedIsDue`) follow.
* `SessionsSoundHolds`.  Saves: each part of a save directory carries the number of
  the save that wrote it, and the parts are written in a fixed order, so after any prefix of
  a save the numbers stand in that order (`Offers`).  Logs: what an open or closed log
  holds are the places of its session's actions, in order, and all of them.  Clocks: until a
  save is resumed there is one world, and every scenario in the runner began no later than
  its tick (`OneWorld`).
* `PlaySoundHolds`, for any connected graph.  An edge goes only where the rest still connects
  (`WeatherKeeps`, `ArenaStepKeeps`); an index below the number of neighbours names a neighbour
  (`NthExists`); and a goal that has just walked stays for as long as the arena is
  stepped between two matches (`WalksApart`, `PerturbedLater`), so the goal that was reached
  is among those that pay (`GoalsCounted`).
* `SlotSoundHolds`, for any length of the queue, any requests, schedule and trainers: every
  action is queued, applied, coalesced or counted as dropped; a drain is in order and its
  move is the latest that was due; a paused context releases nothing; the reported Krum
  is the trainer's; and the key changes once per rotation, at the rotation's place in the
  drain.  The argument is in `OperatorProofs`.
* `TerminalsSoundHolds`, for any number of terminals, submissions and threads.  Each terminal
  has an invariant of its place, its shell and its jobs in the pool (`Life`, `Keys`), so a
  step of one leaves the others' alone (`OthersRest`); all they share is the numbers of open
  files (`NumbersOK`).  Only a key whose session was closed under the writing thread may reach
  another's shell (`KeyWrittenKeeps`).  Of the REPL: as long as no two submissions have
  overlapped, `sys.stdout` is the process's own or the buffer of the one that runs
  (`StdoutIsBack`, `OnItsOwn`).

**`FederatedProofs`**: `TypeCorrect`, `BarredStayOutHolds` and
`RoundsNumberedHolds`, over one invariant with three strengthenings.  `Placed`:
a round under way belongs to a trainer that exists.  `Restrained`: who was barred
at the gate of a round and has not been released since is still in the trainer's
set, so the filter that reads the set much later keeps him out.  `Numbered`: the numbers
in the history and those taken by rounds that are about to be recorded are all
different and are together 0 .. `next_round_id` - 1; with no round under way only the
history is left.  There is one lemma per action.

The second half of the module is about `Aggregation`, the arithmetic of a round:
`AggregationSoundHolds` for every number of agents, of deviating ones, of
slots of a ciphertext and every clipping norm, over calls whose updates have the shapes the
run gives them, and behind it results with parameters of their own:
* `KrumIsRobust`, for updates of any dimension: who agrees with the majority has a row
  of distances with at least n - f zeros, so the score is zero; who does not has at
  most f others like him, fewer than are added up, so the score is positive.
* `TrimmedMeanIsRobust`: at every place that is kept more values lie at or
  below, and at or above, than there are deviating agents, so an honest one is among them.
* `SparseIsClosest`: the loss of a sparse update is the sum of the squares it leaves
  out, and the largest magnitudes leave out the least (by exchanging what one
  set has and the other has not).  `QuantizedIsNear` bounds the error of a rounding to 8 bits.
* `EncryptedSumIs` and `UnflattenIs`: by induction over the chunks and over the
  parameters, every place is summed once and given back to the parameter it came from.
* `OneExampleIsBounded`: a batch's sum splits at the example that is left out.

They rest on lemmas that say what the operators compute: `AscendingIs` (sorting by rank is
a permutation in order), `AscendingRanks`, `PartIs`, `TotalBetween`, `DistanceIs`,
`ChunkSumIs`.  Inductions go through `SetInduction` and the recursive functions' lemmas
of `SetSums`.

**`TickStreamProofs`**: `TypeCorrect` (with the depth of the queues) and
`FramesConsecutiveHolds`.  The strengthening says, per client, that what it has
received, what is being sent and what is queued are three adjacent stretches of
the log (`Consecutive`); for a client that is no longer served only the first
is claimed; between broadcasts no client is waiting to be dropped, so every
subscriber is up to date when the next frame comes.  The lemmas `Taken`,
`Arrived`, `Grown`, `CutOff` are about sequences alone, and there is one lemma per
action.

Only model-checked: liveness and the fairness half of the two refinements (`ENABLED`
is out of the prover's reach); and the algorithms of `MCAlgorithms` outside of `Aggregation`, many of which rest on
`RECURSIVE` operators, for which the prover has no SMT backend, or on folds whose values
would have to be established by induction over their inputs.

## 5. Not modelled

`PROJECT.json` gives the reason per component.  In short:

* Floating-point statistics, networks and gradients (most estimators of `analytics/`, the
  models of `learning/` and `attacker/`): the value of such a function is a number
  with a tolerance, and its tests compare it with a library.  What can go
  wrong around them, their turns, windows, failures and order, is in `Pipeline`,
  `LiveTraining` and `Learning`.
* Wrappers of libraries: lattice signatures, BLS, CKKS, Groth16, OR-Tools' own search.
* Rendering: drawing of charts, the notebook, dashboards and command lines.
* Code without a caller in the program: stake-weighted finality, `emit_next_tick`,
  `unsubscribe`, `reset`, `reset_budget_flags`, policies of branches.
* The contents of `simulation.pkl` beyond what a clone must agree on, and the CKKS
  files of `/world/save`.

## 6. Plan

Done: the modules above, their instances, and the proofs of section 4.

Next, proofs: the other algorithms that use folds only, the way of `Aggregation`.

Next, models: two agents in `AgentBlocks` composed with `Federated`'s notion of who
is barred; the start and stop of the orchestrator's tasks; `OperatorSession` composed
with the chain's files of `Snapshots`.
