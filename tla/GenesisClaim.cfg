SPECIFICATION Spec
CONSTANTS
  s1 = s1
  s2 = s2
  w1 = w1
  w2 = w2
  w3 = w3
  Servers = {s1, s2}
  NoServer = NoServer
  Wallets = {w1, w2}
  Zero = Zero
  NoUnit = NoUnit
  TokenIds = {0}
  InitialUnits <- OneSeller
  NumContracts = 1
  Closes <- ClosesAt3
  Life = 1
  Grace = 1
  ClockSkew = 0
  ReadLag = 1
  Allocation = 0
  MaxTime = 5
  MaxBlocks = 2
  Amounts = {1}
  MaxVouchers = 3
SYMMETRY Sym
CHECK_DEADLOCK FALSE
INVARIANTS
  UnitBacksOneClaim
  StandingVoucherReserved
  SettledTruthfully
  IInv
PROPERTIES
  SettlementIsFinal
