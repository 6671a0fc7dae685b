SPECIFICATION Spec
CONSTANTS
  P = 23
  Q = 11
  G = 2
  H = 3
  SharePrime = 5
  MaxParties = 4
  Scalars = {0, 1, 4, 10}
  CurveOrder = 7
  MaxDelay = 6
  MaxTested = 120
  AlsoTested = {1681, 1693, 1763, 1849, 1861}
  Items = {1, 4, 9}
  PairingOrder = 7
  Attributes = {0, 1, 9}
  MaxLeaves = 300
  Payloads = {1, 2}
  MaxTree = 6
  FriPrime = 17
  FriRoot = 3
  Blowup = 4
  Bits = 4
  LweModulus = 16
  LweNoise = 1
  MaskParts = {0, 9}
  MixRelays = {"r1", "r2", "r3"}
  MixDelays = {10, 20}
  MaxHops = 4
  QuasiIds = {"q1", "q2"}
  Sensitive = {"s1", "s2", "s3"}
  MaxRecords = 4
  Bytes = {0, 1, 2}
  MaxMessage = 4
  MaxTarget = 6
  MaxDummies = 2
  Places = {0, 1, 2}
  EdgeCosts = {1, 3}
  VehicleLoads = {2, 5}
  Quantities = {1, 2}
  MaxOrders = 3
  Changes = {0, 3}
  Updaters = 5
  Faulty = 1
  ClipNorm = 2
  SlotCount = 2
  ChartValues = {0, 1, 2}
  MaxSeries = 3
  Series = {"a", "b"}
  Keys = {1, 2, 3}
  RecentBlocks = 3
  Vertices = {1, 2, 3}
  Adjectives = 26
  Nouns = 20
  CoinAmounts = {0, 1, 2, 5}
  Spendings = {0, 1, 3}
  Tallies = {0, 4, 12}
  TradeSet <- SomeTrades
  TradeWindow = 3
  BucketTicks = 2
  TopTraded = 2
  PurchaseSet <- SomePurchases
  PurchaseWindow = 3
  BasketCap = 4
  Catalogue = {1}
  Wealths = {0, 1, 2}
  MinWealths = 4
  SeriesLevels = {0, 3}
  Penalty = 4
  MinSegment = 2
  Samples = {0, 1, 4}
  ConfidenceTenths = 7
  Births = {0, 1}
  Deaths = {1, 2, 4}
  StepRewards <- SignedRewards
  StateValues = {0, 1, 3}
  MaxRollout = 3
  RatioTenths = {5, 8, 9, 10, 12, 13, 20}
  Advantages <- SignedAdvantages
  ClipTenths = 2
  Epochs = {1, 2}
  Batches = {1, 2}
  Iterations = {0, 1, 2}
  SavePeriods = {1, 2, 3}
  Crossings = {0, 1, 2, 3}
  HopCosts = {1, 2}
  SlotsShown = 2
  MeanRewards <- SignedMeans
  MaxReports = 4
INVARIANTS
  SecretsSound
  
  PrivacySound
  LearningSound
  AggregationSound
  
  RulingsSound
\* a call is the whole behaviour
CHECK_DEADLOCK FALSE
