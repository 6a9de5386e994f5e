CONSTANTS
  c1 = c1  c2 = c2  p1 = p1  p2 = p2  p3 = p3  w1 = w1  w2 = w2  h1 = h1  h2 = h2
  Cases = {c1}  NoCase = NoCase
  Procs = {p1, p2}
  Workers = {w1, w2}  NoWorker = NoWorker  WorkerOf <- TwoWorkers
  Hosts = {h1, h2}  HostOf <- OneHost
  LeaseIds = {l1, l2, l3}  NoLease = NoLease
  Results = {r1}  NoResult = NoResult
  NeedOf <- NoNeeds  Priority <- OnePriority  Rank <- ById
  MaxAttempts = 2  MaxCount = 1
  RecipesOf <- AllCases  FitsOn <- AllCases
  Undeclared = {p1}  Continuers = {p2}  SmallNodes = {p2}  Shippers = {p1, p2}
  Polling = {}  Resettable = {c1}  Drainable = {w1}  FailureKinds = {"plain", "timeout", "step", "engine"}
  LeaseTTL = 1  StaleAfter = 2  MaxLeaseAge = 2  StallAfter = 1
  FailCooldown = 1  HandoffCooldown = 1
  BurstCases = 2  BurstWindow = 0
  RefundWindow = 0  StepBudget = 1  TimeoutRefunds = 1  EngineRefunds = 1
SPECIFICATION Spec
INVARIANTS TypeOK LeasedIsCharged FailedElsewhere
PROPERTIES EveryCaseLives
SYMMETRY LeaseSymmetry
