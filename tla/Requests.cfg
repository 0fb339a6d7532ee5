SPECIFICATION SpecOne
CONSTANTS
  x1 = x1
  x2 = x2
  c1 = c1
  c2 = c2
  w1 = w1
  w2 = w2
  u1 = u1
  u2 = u2
  s1 = s1
  s2 = s2
  l1 = l1
  a1 = a1
  a2 = a2
  Instances = {x1, x2}
  NoInstance = NoInstance
  Callers = {c1, c2}
  Confirmations = 1
  MaxAnchors = 1
  ChunkBlocks = 2
  HeadLag = 0
  DeepMidScan = FALSE
  FirstHead = 2
  MaxHead = 3
  MaxForks = 2
  Issuances = {1, 2}
  MaxAsks = 3
  MaxFaults = 1
  Wallets = {w1, w2}
  Artist = w1
  Platform = w2
  DefaultTracks = 1
  DefaultSingles = 0
  Numbers = {1, 2, 3, 4}
  MaxLimit = 3
  XUsers = {u1, u2}
  Nonces = {x1, x2}
  Attempts = {s1, s2}
  Apps = {a1, a2}
  Applicants = {w1}
  Listings = {l1}
  Amount = 2
  Expiring = {l1}
  MaxAttempts = 1
  MaxLogs = 4
  e1 = e1
  e2 = e2
  x3 = x3
  x4 = x4
  y1 = y1
  g1 = g1
  r1 = r1
  Editions = {e1, e2}
  ExperienceIds = {x3, x4, y1}
  EditionOf <- TwoEditions
  Forms <- FormsSent
  Files = {1, 2}
  Nobody = Nobody
  NoUri = NoUri
  MaxSent = 2
  Overtake = FALSE
  Repost = FALSE
  Readers = {r1}
  Grants = {g1}
  GrantTtl = 1
  Staleness = 1
  RunTime = 1
  Patience = 1
  Overwrites = FALSE
  Copies = 1
  Prices = {39}
  Amounts = {1, 2}
  Expiries = {1}
  ShopEnd = 2
  Deadline = 2
  Duration = 4
  CacheTtl = 1
  Margin = 1
  Lag = 1
  ReadTime = 1
  WeekendEnd = 7
  MaxSignIns = 1
  Ttl = 1
  Height = 2
  MinInterval = 1
  Cooldown = 2
  MaxDelay = 3
  Penalty = 2
  FairnessWindow = 2
  RetryAfters = {0, 4}
  MaxQueued = 4
SYMMETRY Sym
CHECK_DEADLOCK FALSE
INVARIANTS
  TypesOK
  AccountsProven
  OneLiveApplication
  MirrorKept
  StudioKept
  PlaybackKept
  WorkerKept
  AccessEndsInTime
  SalesSettle
  AlbumSound
  AnswersTrue
PROPERTIES
  ScanSound
  ProofsHold
  EditionsStand
