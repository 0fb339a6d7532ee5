SPECIFICATION Spec
CONSTANTS
  s1 = s1
  s2 = s2
  w1 = w1
  w2 = w2
  w3 = w3
  Servers = {s1}
  NoServer = NoServer
  Wallets = {w1, w2}
  Zero = Zero
  NoUnit = NoUnit
  TokenIds = {0}
  InitialUnits <- OneSeller
  NumContracts = 2
  Closes <- ClosesTwice
  Life = 1
  Grace = 1
  ClockSkew = 0
  ReadLag = 0
  Allocation = 0
  MaxTime = 4
  MaxBlocks = 1
  Amounts = {1}
  MaxVouchers = 3
CHECK_DEADLOCK FALSE
INVARIANTS
  ClaimsWithinUnits
