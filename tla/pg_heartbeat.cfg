CONSTANTS
  c1 = c1  c2 = c2
  Cases = {c1}  NoCase = NoCase
  Workers = {w1, w2}  NoWorker = NoWorker
  Threads = {t1}
  LeaseIds = {l1, l2, l3}  NoLease = NoLease
  Results = {r1}  NoResult = NoResult
  MaxAttempts = 2
  MovesTo <- Nowhere  OffLand = {}
  Ops = {"heartbeat"}
SPECIFICATION Spec
PROPERTIES HeartbeatHasItsLease
SYMMETRY Symmetric
CHECK_DEADLOCK FALSE
