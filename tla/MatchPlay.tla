------------------------------- MODULE MatchPlay -------------------------------
(***************************************************************************)
(* The perpetual game (core/arena.py, agent.py, match.py, simulation.py):  *)
(* a connected graph whose edges come and go with the weather, goals that  *)
(* walk over it, agents that move along edges, and matches that end with an*)
(* agent on a goal or with their time.  Two drivers run it: the live loop, *)
(* with a trained policy (learning/policy_loader.py), and the environment  *)
(* in which the policy is trained (learning/env.py).  Of an edge's cost    *)
(* only whether there is one is kept.  Rewards are in hundredths.          *)
(***************************************************************************)
EXTENDS Maps

CONSTANTS
  NodeTotal,       \* n_nodes
  FirstEdges,      \* the graph, as generated or as the weather left it
  FirstPositions, FirstGoals,   \* where agents and goals may start
  WalkPeriod,      \* goal_walk_period
  PerturbSteps,    \* steps of the arena between two matches
  MatchMax,        \* match_max_ticks
  NeighboursK,     \* NEIGHBOURS_K, and the index of "stay"
  CrowdingPenalty, \* taken per other agent on the node
  MaxPlayed, MaxStorms   \* bounds: ticks, and weather events

Nodes == 0..NodeTotal - 1
Pairs == {e \in SUBSET Nodes : Cardinality(e) = 2}

Connected(edges) ==
  \A S \in (SUBSET (Nodes \ {0})) \ {{}} : \E e \in edges : e \cap S # {} /\ e \ S # {}

\* Goals walk slowly: not twice between two matches.
ASSUME MatchPlayAssumption ==
  /\ {NodeTotal, WalkPeriod, MatchMax, NeighboursK} \subseteq Nat \ {0}
  /\ {PerturbSteps, CrowdingPenalty, MaxPlayed, MaxStorms} \subseteq Nat /\ PerturbSteps < WalkPeriod
  /\ FirstEdges \subseteq Pairs /\ Connected(FirstEdges)
  /\ \A g \in FirstGoals : g \in [DOMAIN g -> Nodes]
  /\ \A p \in FirstPositions : p \in [DOMAIN p -> Nodes] /\ IsFiniteSet(DOMAIN p)

VARIABLES
  driver,      \* "live" or "env"
  arena,       \* the edges, the edges that have a cost, the goals, the arena's own tick
  position,    \* of each agent
  played,      \* tick_counter
  match,       \* the current match
  nextMatch,   \* next_match_id
  seen,        \* env: the neighbours each agent was shown
  stayers,     \* history: the agents whose action in the latest step was "stay"
  reward       \* env: what the latest step paid

matchVars == <<driver, arena, position, played, match, nextMatch, seen, stayers, reward>>

Players == DOMAIN position
GoalsOf(a) == {a.goals[i] : i \in DOMAIN a.goals}
NeighboursIn(a, n) == {m \in Nodes : {n, m} \in a.edges}

PlayInit ==
  /\ driver \in {"live", "env"}
  /\ \E goals \in FirstGoals :
       arena = [edges |-> FirstEdges, priced |-> FirstEdges, goals |-> goals, tick |-> 0, storms |-> 0]
  /\ position \in FirstPositions
  /\ played = 0 /\ match = [id |-> 0, started |-> 0, status |-> "running"] /\ nextMatch = 1
  /\ seen = [p \in Players |-> NeighboursIn(arena, position[p])]
  /\ stayers = {} /\ reward = [p \in Players |-> 0]

------------------------------------------------------------------------------
\* The arena.

WithEdge(a, e) == [a EXCEPT !.edges = @ \cup {e}, !.priced = @ \cup {e}]

\* Fault: the edge goes without a look at what it held together.
WithoutEdgeBlindly(a, e) == [a EXCEPT !.edges = @ \ {e}, !.priced = @ \ {e}]

\* An edge is taken out, and put back if it was a bridge.
WithoutEdge(a, e) ==
  IF Connected(a.edges \ {e}) THEN [a EXCEPT !.edges = @ \ {e}, !.priced = @ \ {e}] ELSE a

WeatherEvents(a) ==
  {WithEdge(a, e) : e \in Pairs \ a.edges} \cup {a}
    \cup (IF Cardinality(a.edges) > NodeTotal THEN {WithoutEdge(a, e) : e \in a.edges} ELSE {})

Weather(a) ==
  {a} \cup IF a.storms < MaxStorms THEN {[w EXCEPT !.storms = @ + 1] : w \in WeatherEvents(a)} ELSE {}

\* Each goal to a neighbour of its own; two may meet.
MigrateGoals(a) ==
  {[a EXCEPT !.goals = g] : g \in {g \in [DOMAIN a.goals -> Nodes] :
     \A i \in DOMAIN g : LET near == NeighboursIn(a, a.goals[i]) IN
       IF near = {} THEN g[i] = a.goals[i] ELSE g[i] \in near}}

ArenaStep(a) ==
  LET walks == a.tick > 0 /\ a.tick % WalkPeriod = 0
  IN  {[b EXCEPT !.tick = @ + 1] : b \in UNION {IF walks THEN MigrateGoals(w) ELSE {w} : w \in Weather(a)}}

\* step_n
Perturbed(a) ==
  LET after[n \in 0..PerturbSteps] == IF n = 0 THEN {a} ELSE UNION {ArenaStep(b) : b \in after[n - 1]}
  IN  after[PerturbSteps]

------------------------------------------------------------------------------
\* Matches.

\* Fault: the last tick of a match is played twice.
HasExpiredLate(tick) == tick - match.started > MatchMax
HasExpired(tick) == tick - match.started >= MatchMax

BeginNewMatch(a, tick) ==
  /\ arena' \in Perturbed(a)
  /\ match' = [id |-> nextMatch, started |-> tick, status |-> "running"]
  /\ nextMatch' = nextMatch + 1

\* A match that is won, or out of time, gives way to the next one in the same step.
EvaluateMatch(a, where, tick) ==
  IF (\E p \in Players : where[p] \in GoalsOf(a)) \/ HasExpired(tick)
  THEN BeginNewMatch(a, tick)
  ELSE arena' = a /\ UNCHANGED <<match, nextMatch>>

------------------------------------------------------------------------------
\* The live loop.

\* Fault: an index past the neighbours wraps round to the first.
DeployedWrapped(a, n, action) ==
  LET near == NeighboursIn(a, n) IN IF action >= Cardinality(near) THEN Nth(near, 0) ELSE Nth(near, action)

\* Where the trained policy sends an agent: an index past its neighbours is "stay".
Deployed(a, n, action) ==
  LET near == NeighboursIn(a, n) IN IF action >= Cardinality(near) THEN n ELSE Nth(near, action)

\* Where the random walk may send it, when there is no checkpoint or the policy is switched off.
WalkTargets(a, n) == IF NeighboursIn(a, n) = {} THEN {n} ELSE NeighboursIn(a, n)

\* A target that is no neighbour is ignored.
Moved(a, n, target) == IF target \in NeighboursIn(a, n) THEN target ELSE n

\* The rest of Simulation._tick, once the arena has become a and the targets are known.
TickTo(a, target) ==
  /\ position' = [p \in Players |-> Moved(a, position[p], target[p])]
  /\ EvaluateMatch(a, position', played)
  /\ played' = played + 1
  /\ UNCHANGED <<driver, seen, reward>>

LiveTick ==
  /\ driver = "live" /\ played < MaxPlayed
  /\ \E a \in ArenaStep(arena), action \in [Players -> 0..NeighboursK] :
       /\ TickTo(a, [p \in Players |-> Deployed(a, position[p], action[p])])
       /\ stayers' = {p \in Players : action[p] = NeighboursK}

LiveWalk ==
  /\ driver = "live" /\ played < MaxPlayed
  /\ \E a \in ArenaStep(arena) :
     \E target \in {t \in [Players -> Nodes] : \A p \in Players : t[p] \in WalkTargets(a, position[p])} :
       TickTo(a, target)
  /\ stayers' = {}

------------------------------------------------------------------------------
\* The environment.

Illegal(p, action) == action # NeighboursK /\ action >= Cardinality(seen[p])

\* PenumbraEnv._apply_action
Applied(p, action) == IF action = NeighboursK \/ Illegal(p, action) THEN position[p] ELSE Nth(seen[p], action)

\* Fault: only the goals after the step count.
PayingGoalsAfter(before, after) == GoalsOf(after)
PayingGoals(before, after) == GoalsOf(before) \cup GoalsOf(after)

\* Fault: what an agent will be shown is what was there before the step.
ShownBefore(before, after, where) == NeighboursIn(before, where)

\* PenumbraEnv._observe
Shown(before, after, where) == NeighboursIn(after, where)

RewardOf(p, action, where, paying) ==
  -1 + (IF Illegal(p, action) THEN -10 ELSE 0) + (IF where[p] \in paying THEN 100 ELSE 0)
     - CrowdingPenalty * (Cardinality({q \in Players : where[q] = where[p]}) - 1)

\* PenumbraEnv.step: the agents move first, and the clock is advanced before the match is judged.
EnvStep ==
  /\ driver = "env" /\ played < MaxPlayed
  /\ \E a \in ArenaStep(arena), action \in [Players -> 0..NeighboursK] :
       /\ position' = [p \in Players |-> Applied(p, action[p])]
       /\ EvaluateMatch(a, position', played + 1)
       /\ stayers' = {p \in Players : action[p] = NeighboursK}
       /\ reward' = [p \in Players |-> RewardOf(p, action[p], position', PayingGoals(arena, arena'))]
  /\ seen' = [p \in Players |-> Shown(arena, arena', position'[p])]
  /\ played' = played + 1
  /\ UNCHANGED driver

PlayNext == LiveTick \/ LiveWalk \/ EnvStep

------------------------------------------------------------------------------
\* Whatever the weather does, the graph stays connected, exactly its edges have a cost, and the
\* goals are on it.
ArenaSound ==
  /\ Connected(arena.edges) /\ arena.priced = arena.edges
  /\ GoalsOf(arena) \subseteq Nodes

\* No match outlasts its ticks, and one is always running: the environment reports no episode as
\* terminated, ever, since a match that ends is replaced before the caller looks.
MatchWithinTime == match.status = "running" /\ played - match.started <= MatchMax

Travelled(p) == {position[p], position'[p]}

\* An agent goes along an edge that is there when it decides: in the environment that of the
\* observation it was given a step ago, in the live loop that of the arena after its step.
NoJumps ==
  [][\A p \in Players : position'[p] # position[p] =>
       IF driver = "env" THEN Travelled(p) \in arena.edges
       ELSE match' = match => Travelled(p) \in arena'.edges]_matchVars

\* "Stay" is to stay, in training always, and live as long as the agent has no more neighbours than
\* the policy was trained to see; with one more the same index is a move to it.
StayMeansStay ==
  [][\A p \in stayers' : played' # played /\ position'[p] # position[p] =>
       /\ driver = "live"
       /\ match' = match => Cardinality(NeighboursIn(arena', position[p])) > NeighboursK]_matchVars

\* Whoever wins a match in training is paid for the goal, even when the goal has walked on to it in
\* this very step, or walks away before the rewards are counted.
WinnerIsPaid ==
  [][driver = "env" /\ match' # match /\ played + 1 - match.started < MatchMax =>
       \E p \in Players : reward'[p] >= 89 - CrowdingPenalty * (Cardinality(Players) - 1)]_matchVars

\* Whatever the weather deletes and the goals do: the arena stays connected, nobody moves along
\* an edge that is not there, "stay" stays, matches end in time and their winners are paid.
PlaySound ==
  [](ArenaSound /\ MatchWithinTime) /\ NoJumps /\ StayMeansStay /\ WinnerIsPaid
=============================================================================
