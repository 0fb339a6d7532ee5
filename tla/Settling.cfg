SPECIFICATION FairSpecOne
CONSTANTS
  s1 = s1
  s2 = s2
  w1 = w1
  w2 = w2
  w3 = w3
  a1 = a1
  d1 = d1
  d2 = d2
  Servers = {s1}
  NoServer = NoServer
  Wallets = {w1, w2}
  Zero = Zero
  NoUnit = NoUnit
  TokenIds = {0}
  InitialUnits <- OneSeller
  NumContracts = 1
  Closes <- ClosesAt3
  Life = 1
  Grace = 1
  ClockSkew = 0
  ReadLag = 1
  Allocation = 0
  MaxTime = 5
  MaxBlocks = 1
  Amounts = {1}
  MaxVouchers = 2
  Apps = {a1}
  Workers = {d1, d2}
  MaxAttempts = 3
  MaxRedeploys = 2
CHECK_DEADLOCK FALSE
INVARIANTS
  NoDuplicateAlert
PROPERTIES
  LockReleased
  PendingSettles
  OutcomesFinal
  Alerted
