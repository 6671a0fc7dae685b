SPECIFICATION Spec
CONSTANTS
  \* OperatorSession
  Scenarios = {11, 12}
  TickLimit = 1
  MaxTick = 1
  MaxIds = 2
  MaxActs = 1
  MaxWorlds = 3
  MaxSaves = 2
  \* AgentBlocks
  Agents = {1}
  Threshold = 2
  Window = 1
  Cooloff = 2
  HistoryCap = 2
  InjectDates = {0, 3}
  MaxNow = 4
  MaxNotices = 2
  Movers = 2
  Spots = {0, 1}
  RestoredTicks = {0, 1, 3}
  MaxMoves = 2
  MaxPasses = 2
  \* LiveTraining
  RewardCap = 2
  HistoryMax = 2
  MaxDeliveries = 3
  MaxIterations = 3
  \* Echelon
  NodeCount = 5
  Initial = 3
  Production = 1
  Lead = 2
  ReorderPoint = 2
  OrderUpTo = 4
  Demands = {0, 1, 3}
  MaxTicks = 4
  \* Pipeline
  Consumers <- ServiceConsumers
  Relaxed = {"topics"}
  MaxTime = 5
  MaxObserved = 2
  \* OperatorActions
  MaxQueue = 2
  Requests <- OperatorRequests
  Scheduled <- OperatorScheduled
  Budget = 1
  MaxSlotTick = 2
  MaxSubmitted = 3
  MaxTrainers = 1
  MaxEnables = 2
  \* MatchPlay
  NodeTotal = 5
  FirstEdges <- PlayEdges
  FirstPositions <- PlayPositions
  FirstGoals <- PlayGoals
  WalkPeriod = 3
  PerturbSteps = 2
  MatchMax = 2
  NeighboursK = 2
  CrowdingPenalty = 5
  MaxPlayed = 3
  MaxStorms = 1
  \* Branches
  Sites = {0, 1}
  Tags = {"walk", "greedy", "custom"}
  Registered = {"walk", "greedy"}
  Baseline = "walk"
  Leads <- BranchLeads
  BranchNames = {"a"}
  BranchCounts = {2}
  TimeWarp = 2
  MaxLiveTicks = 1
  MaxBranchTicks = 4
  MaxMints = 2
  \* Terminals
  Consoles = {1, 2}
  Submissions = {1, 2}
  PoolSizes = {2, 3}
  MaxTraffic = 2
  MaxCommands = 2
  MaxClients = 2
INVARIANTS
  SigningSound
  TrainingSound
  NetworkSound
  BranchesSound
  TerminalsSound
PROPERTIES
  
  
  TurnsSound
  
  PlaySound
\* the bounds end every behaviour
CHECK_DEADLOCK FALSE
