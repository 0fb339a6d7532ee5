SPECIFICATION SpecUnits
CONSTANTS
  s1 = s1
  s2 = s2
  w1 = w1
  w2 = w2
  w3 = w3
  Servers = {s1}
  NoServer = NoServer
  Wallets = {w1, w2, w3}
  Zero = Zero
  NoUnit = NoUnit
  TokenIds = {0, 1}
  InitialUnits <- Collection
  NumContracts = 2
  Closes <- ClosesTwice
  Life = 1
  Grace = 1
  ClockSkew = 0
  ReadLag = 0
  Allocation = 0
  MaxTime = 4
  MaxBlocks = 2
  Amounts = {1, 2}
  MaxVouchers = 3

SYMMETRY Buyers
CHECK_DEADLOCK FALSE
INVARIANTS
  UnitsBackOneClaim
  OneClaimPerWallet
