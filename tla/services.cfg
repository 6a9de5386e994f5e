SPECIFICATION ServicesSpec
CONSTANTS
  b1 = b1
  b2 = b2
  p1 = p1
  f1 = f1
  f2 = f2
  Builds = {b1, b2}
  NoBuild = NoBuild
  Platforms = {p1}
  Workers = {w1}
  PlatformOf <- OnePlatform
  Files = {f1, f2}
  NoFile = NoFile
  FilesOf <- OwnFiles
  CaseFiles = {}
  Keep = 1
  MaxRegistrations = 2
  u1 = u1
  Users = {u1, u2}
  Requests = {q1, q2}
  Names = {n1, n2}
  Hashes = {h1, h2}
  NoHash = NoHash
  Codes = {k1, k2}
  Resolvers = {r1, r2}
  MaxPending = 2
  t2 = t2
  Tickers = {t1, t2}
  MaxEvents = 2
  Page = 1
  Silent = {}
  Remember = 1
  Standing = {st}
  Hysteretic = {st}
  e1 = e1
  o1 = o1
  Endpoints = {e1, e2}
  Owners = {o1, o2}
  NoOwner = NoOwner
  Senders = {sender}
  Leavers = {leaver}
  PerOwner = 1
  Total = 2
  DropAfter = 2
  s1 = s1
  Sessions = {s1, s2}
  Calls = {c1, c2, c3}
  Autocommit = {c3}
  Retries = 1
  MaxFaults = 2
  g2 = g2
  v2 = v2
  Sites = {g1, g2}
  Viewers = {v1, v2}
  Slots = 1
  CacheMax = 1
  OvertureFallback = TRUE
  MaxViews = 3
  MaxMoves = 1
  d2 = d2
  Directions = {d1, d2}
  MaxDirections = 1
  MaxSamples = 2
  MaxIteration = 3
  MaxReports = 3
  l2 = l2
  LoginNames = {m1, m2}
  Addresses = {a1}
  Knocks = {x1, x2}
  Links = {l1, l2}
  NameLimit = 1
  AddrLimit = 2
  MaxKeys = 3
  LiveLinks = 1
  MaxClock = 1
INVARIANTS
  AimsArePublished
  SomeoneManages
  PasswordEndsSessions
  DeniedStaysOut
  OnePendingPerName
  AnnouncedAtMostOnce
  FiresOnce
  NothingSeenSkipped
  AnsweredOnce
  ComesBackClean
  NothingFrozen
  CurveIsCurrentRun
  ChecksAreFew
  FriendsGetIn
PROPERTIES
  NeededFilesStay
  NodesArrive
  LiveTokenStands
  DroppedForCause
  NotAskedTwice
CHECK_DEADLOCK FALSE
