CONSTANTS
  c1 = c1  c2 = c2
  Cases = {c1, c2}  NoCase = NoCase
  Workers = {w1}  NoWorker = NoWorker
  Threads = {t1}
  LeaseIds = {l1, l2}  NoLease = NoLease
  Results = {r1}  NoResult = NoResult
  MaxAttempts = 1
  MovesTo <- ThereAndBack  OffLand = {c2}
  Ops = {"heartbeat", "status", "cancel", "park", "audit", "reopen", "respec", "purge"}
SPECIFICATION Spec
PROPERTIES StrayOnlyOutraced WorkIsLeftAlone SiteMovesWhole
SYMMETRY Symmetric
