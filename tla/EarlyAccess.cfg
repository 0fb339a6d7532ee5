SPECIFICATION Spec
CONSTANTS
  a = a
  b = b
  c = c
  Accounts = {a, b}
  Issuers <- ClaimIssuers
  FeeBps = 250
  BpsBase = 10000
  SaleContract = SaleContract
  Artist = Artist
  Nobody = Nobody
  EditionCap = 3
  MintEnd = 0
  InitialIssuers <- Minters
  NumClaims = 1
  Kinds = {"holder"}
  AdminWork = {"early"}
  Offers <- LaterOffer
  Quantities = {1, 2}
  Sizes = {}
  Allocations = {1, 2}
  ClaimWindow = 1
  Delays = {1}
  Allowlist = {}
  MaxCopies = 3
  MaxTime = 3
  MaxDepth = 1
CHECK_DEADLOCK FALSE
PROPERTIES
  EarlyAccessLocked
