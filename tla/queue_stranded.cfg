CONSTANTS
  c1 = c1  c2 = c2  p1 = p1  p2 = p2  p3 = p3  w1 = w1  w2 = w2  h1 = h1  h2 = h2
  Cases = {c1}  NoCase = NoCase
  Procs = {p1, p2}
  Workers = {w1, w2}  NoWorker = NoWorker  WorkerOf <- TwoWorkers
  Hosts = {h1, h2}  HostOf <- TwoHosts
  LeaseIds = {l1, l2, l3}  NoLease = NoLease
  Results = {r1}  NoResult = NoResult
  NeedOf <- NoNeeds  Priority <- OnePriority  Rank <- ById
  MaxAttempts = 2  MaxCount = 1
  RecipesOf <- AllCases  FitsOn <- AllCases
  Undeclared = {}  Continuers = {p2}  SmallNodes = {}  Shippers = {p1}
  Polling = {p2}  Resettable = {}  Drainable = {}  FailureKinds = {}
  LeaseTTL = 0  StaleAfter = 1  MaxLeaseAge = 1  StallAfter = 0
  FailCooldown = 1  HandoffCooldown = 1
  BurstCases = 2  BurstWindow = 0
  RefundWindow = 1  StepBudget = 0  TimeoutRefunds = 1  EngineRefunds = 1
SPECIFICATION FairSpec
PROPERTIES PendingIsTaken
