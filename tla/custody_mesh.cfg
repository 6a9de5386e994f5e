SPECIFICATION Spec
CONSTANTS
  c1 = c1
  c2 = c2
  d1 = d1
  m1 = m1
  m2 = m2
  s1 = s1
  a1 = a1
  r1 = r1
  Cases = {c1}
  Nodes = {n1, n2}
  NoNode = NoNode
  Dirs = {d1}
  Shas = {m1, m2, s1, a1, r1}
  NoSha = NoSha
  VersionsOf <- OneCase
  Size = 2
  ReleaseFiles = {r1}
  Kept = {"mesh", "direction", "archive"}
  Finished = {}
  MaxFaults = 1
INVARIANT OneMesh
CHECK_DEADLOCK FALSE
