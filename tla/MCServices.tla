------------------------------ MODULE MCServices ------------------------------
(***************************************************************************)
(* The services around the simulation, each with its own actors and bounds.*)
(* They share no state that their models hold, so a behaviour of the run   *)
(* is a behaviour of one of them: part says of which, and the others rest. *)
(***************************************************************************)
EXTENDS
  OperatorSession,
  AgentBlocks,
  LiveTraining,
  Echelon,
  Pipeline,
  OperatorActions,
  MatchPlay,
  Branches,
  Terminals

VARIABLE part

ServiceConsumers == <<
  [name |-> "changepoints", cadence |-> 2, needs |-> 1, guarded |-> FALSE],
  [name |-> "regression", cadence |-> 2, needs |-> 1, guarded |-> TRUE],
  [name |-> "logit", cadence |-> 1, needs |-> 2, guarded |-> TRUE],
  [name |-> "topics", cadence |-> 2, needs |-> 2, guarded |-> TRUE] >>

Asking(k, a) == [kind |-> k, arg |-> a]
OperatorRequests ==
  {Asking("move", 1), Asking("query_dp", 1), Asking("sign", 0), Asking("attack_byzantine", 0),
   Asking("defense_pause_dp", 0), Asking("defense_resume_dp", 0),
   Asking("defense_rotate_keys", 0), Asking("defense_enable_krum", 0),
       Asking("defense_enable_krum", -1)}
OperatorScheduled == {Asking("move", 2), Asking("defense_resume_dp", 0)}
PlayEdges == {{0,1},{1,2},{0,2},{2,3},{1,3},{3,4}}
PlayPositions == {[p \in {1,2} |-> IF p = 1 THEN 0 ELSE 3]}
PlayGoals == {<<4>>, <<2>>}

BranchLeads == [tag \in {"walk",
       "greedy"} |-> [s \in 0..1 |-> IF tag = "walk" THEN 1 - s ELSE 0]]

Init ==
  /\ part \in {"session", "blocks", "signing", "training", "echelon", "pipeline", "slot",
       "play", "branches", "terminals", "coach"}
  /\ SessionInit
  /\ BlocksInit
  /\ SigningInit
  /\ part # "signing" => \A w \in 1..2, a \in 1..Movers : moveWorlds[w].at[a] = 0
  /\ TrainingInit
  /\ NetInit
  /\ PipelineInit
  /\ SlotInit
  /\ PlayInit
  /\ part # "play" => driver = "live" /\ arena.goals = <<4>>
  /\ BranchesInit
  /\ part # "branches" => live.tag = "walk" /\ live.site = 0
  /\ TerminalsInit
  /\ part # "terminals" => pool.size = 2
  /\ CoachInit

Next ==
  /\ part' = part
  /\ IF part = "session" THEN SessionNext ELSE UNCHANGED sessionVars
  /\ IF part = "blocks" THEN BlocksNext ELSE UNCHANGED blockVars
  /\ IF part = "signing" THEN SigningNext ELSE UNCHANGED signingVars
  /\ IF part = "training" THEN TrainingNext ELSE UNCHANGED trainingVars
  /\ IF part = "echelon" THEN NetStep ELSE UNCHANGED netVars
  /\ IF part = "pipeline" THEN PipelineNext ELSE UNCHANGED pipelineVars
  /\ IF part = "slot" THEN SlotNext ELSE UNCHANGED slotVars
  /\ IF part = "play" THEN PlayNext ELSE UNCHANGED matchVars
  /\ IF part = "branches" THEN BranchesNext ELSE UNCHANGED branchVars
  /\ IF part = "terminals" THEN TerminalsNext ELSE UNCHANGED terminalVars
  /\ IF part = "coach" THEN CoachNext ELSE UNCHANGED commandVars

vars == <<part, sessionVars, blockVars, signingVars, trainingVars, netVars, pipelineVars,
       slotVars, matchVars, branchVars, terminalVars, commandVars>>

Spec == Init /\ [][Next]_vars
=============================================================================
