CONSTANTS
  c1 = c1  c2 = c2  p1 = p1  p2 = p2  p3 = p3  w1 = w1  w2 = w2  h1 = h1  h2 = h2
  Cases = {c1, c2}  NoCase = NoCase
  Procs = {p1, p2}
  Workers = {w1, w2}  NoWorker = NoWorker  WorkerOf <- TwoWorkers
  Hosts = {h1, h2}  HostOf <- OneHost
  LeaseIds = {l1, l2}  NoLease = NoLease
  Results = {r1}  NoResult = NoResult
  NeedOf <- NeedsC1  Priority <- OnePriority  Rank <- ById
  MaxAttempts = 2  MaxCount = 2
  RecipesOf <- AllCases  FitsOn <- AllCases
  Undeclared = {}  Continuers = {}  SmallNodes = {}  Shippers = {}
  Polling = {}  Resettable = {}  Drainable = {}  FailureKinds = {"plain"}
  LeaseTTL = 0  StaleAfter = 1  MaxLeaseAge = 0  StallAfter = 0
  FailCooldown = 1  HandoffCooldown = 0
  BurstCases = 2  BurstWindow = 2
  RefundWindow = 0  StepBudget = 0  TimeoutRefunds = 0  EngineRefunds = 0
SPECIFICATION Spec
INVARIANTS NeedsFirst
PROPERTIES DrainedTakesNothingNew
SYMMETRY LeaseSymmetry
