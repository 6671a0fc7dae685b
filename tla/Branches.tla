------------------------------- MODULE Branches -------------------------------
(***************************************************************************)
(* Branches of the live world (transport/world.py, core/persistence.py):   *)
(* clones of the simulation made by saving it and loading the file again,  *)
(* which the endpoints advance and compare (transport/api.py).  A clone has*)
(* its own arena and random streams, and its agents get back a policy by   *)
(* its name.  A world is a place for its agents, a tick and a run state.   *)
(***************************************************************************)
EXTENDS Maps

CONSTANTS
  Sites,           \* where the agents can be
  Tags,            \* names of policies
  Registered,      \* DEFAULT_POLICY_REGISTRY
  Baseline,        \* random_walk_policy
  Leads,           \* Leads[tag][site]: where a policy leads with the streams of this run
  BranchNames, BranchCounts, TimeWarp,
  MaxLiveTicks, MaxBranchTicks, MaxMints   \* bounds

ASSUME BranchesAssumption ==
  /\ Baseline \in Registered /\ Registered \subseteq Tags
  /\ Leads \in [Registered -> [Sites -> Sites]]
  /\ BranchCounts \subseteq Nat /\ {MaxLiveTicks, MaxBranchTicks, MaxMints} \subseteq Nat
  /\ TimeWarp \in Nat \ {0}        \* set_time_warp refuses less than 1

VARIABLES
  live,        \* the running simulation, and the policy of its agents
  branches,    \* WorldBranchRegistry.branches: parent_tick, the clone, and which call made it
  mints        \* calls of branch so far

branchVars == <<live, branches, mints>>

BranchesInit ==
  /\ \E site \in Sites, tag \in Tags : live = [site |-> site, tick |-> 0, paused |-> FALSE, tag |-> tag]
  /\ branches = <<>> /\ mints = 0

\* The live loop, whose agents may follow a trained policy that samples: anywhere.
LiveAdvances ==
  /\ ~live.paused /\ live.tick < MaxLiveTicks
  /\ \E site \in Sites : live' = [live EXCEPT !.site = site, !.tick = @ + 1]
  /\ UNCHANGED <<branches, mints>>

TogglePause == live' = [live EXCEPT !.paused = ~@] /\ UNCHANGED <<branches, mints>>

\* _reattach_policy
Reattached(tag) == IF tag \in Registered THEN tag ELSE Baseline

\* Fault: the names of the policies are used up by the first clone.
ClonedOnce(world, i) == [world EXCEPT !.tag = IF i = 1 THEN Reattached(@) ELSE Baseline]

\* save_simulation and load_simulation: everything but the policies.
Cloned(world, i) == [world EXCEPT !.tag = Reattached(@)]

\* WorldBranchRegistry.branch: a branch with the same name and number is replaced.
Branch(name, n) ==
  LET ids == {<<name, i>> : i \in 1..n} IN
  /\ n >= 1
  /\ branches' = [id \in DOMAIN branches \cup ids |->
       IF id \in ids THEN [parent |-> live.tick, world |-> Cloned(live, id[2]), mint |-> mints] ELSE branches[id]]
  /\ mints' = mints + 1
  /\ UNCHANGED live

\* Fault: a branch runs whether or not its source was paused.
StandsStillNever(world) == FALSE

\* Simulation.tick: nothing while paused,
StandsStill(world) == world.paused

\* else time_warp ticks.
Ticked(world, ticks) ==
  LET after[n \in 0..ticks * TimeWarp] ==
        IF n = 0 THEN world
        ELSE [after[n - 1] EXCEPT !.site = Leads[world.tag][@], !.tick = @ + 1]
  IN  IF StandsStill(world) THEN world ELSE after[ticks * TimeWarp]

\* WorldBranchRegistry.advance
AdvanceBranch(id, ticks) ==
  /\ id \in DOMAIN branches
  /\ branches[id].world.tick + ticks * TimeWarp <= branches[id].parent + MaxBranchTicks
  /\ branches' = [branches EXCEPT ![id].world = Ticked(@, ticks)]
  /\ UNCHANGED <<live, mints>>

BranchesNext ==
  \/ LiveAdvances \/ TogglePause
  \/ mints < MaxMints /\ \E name \in BranchNames, n \in BranchCounts : Branch(name, n)
  \/ \E id \in BranchNames \X (1..MaxMints + 1), ticks \in 1..2 : AdvanceBranch(id, ticks)

------------------------------------------------------------------------------
\* Branches of one call stay the same world as long as they are advanced alike, in whatever order
\* and portions: they have the same streams, so that what a comparison of them shows is how far
\* each has been advanced, and nothing else.
BranchesAgree ==
  \A a, b \in DOMAIN branches :
    branches[a].mint = branches[b].mint /\ branches[a].world.tick = branches[b].world.tick
      => branches[a].world = branches[b].world

\* A branch of a paused world never moves, since nothing resumes a branch; and no branch is ever
\* behind the world it was made from, nor follows it.
PausedBranchesStandStill ==
  \A id \in DOMAIN branches :
    LET b == branches[id] IN
    /\ b.parent <= live.tick
    /\ IF b.world.paused THEN b.world.tick = b.parent ELSE (b.world.tick - b.parent) % TimeWarp = 0

\* Clones of one moment agree as long as they are advanced alike, and those of a paused world
\* stand still.
BranchesSound == BranchesAgree /\ PausedBranchesStandStill
=============================================================================
