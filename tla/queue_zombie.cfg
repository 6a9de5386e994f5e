CONSTANTS
  c1 = c1  c2 = c2  p1 = p1  p2 = p2  p3 = p3  w1 = w1  w2 = w2  h1 = h1  h2 = h2
  Cases = {c1}  NoCase = NoCase
  Procs = {p1, p2, p3}
  Workers = {w1, w2}  NoWorker = NoWorker  WorkerOf <- Restarted
  Hosts = {h1, h2}  HostOf <- TwoHosts
  LeaseIds = {l1, l2, l3, l4}  NoLease = NoLease
  Results = {r1, r2}  NoResult = NoResult
  NeedOf <- NoNeeds  Priority <- OnePriority  Rank <- ById
  MaxAttempts = 2  MaxCount = 1
  RecipesOf <- AllCases  FitsOn <- AllCases
  Undeclared = {}  Continuers = {}  SmallNodes = {}  Shippers = {}
  Polling = {}  Resettable = {}  Drainable = {}  FailureKinds = {"plain"}
  LeaseTTL = 1  StaleAfter = 2  MaxLeaseAge = 2  StallAfter = 1
  FailCooldown = 1  HandoffCooldown = 1
  BurstCases = 2  BurstWindow = 0
  RefundWindow = 0  StepBudget = 0  TimeoutRefunds = 0  EngineRefunds = 0
SPECIFICATION Spec
INVARIANTS OneHolder ConfirmedResultStands
PROPERTIES TrustedLeaseStands DoneIsFinal
SYMMETRY Symmetric
