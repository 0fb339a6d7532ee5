SPECIFICATION Spec
CONSTANTS
  a = a
  b = b
  c = c
  Accounts = {a, b}
  Issuers <- ClaimIssuers
  FeeBps = 250
  BpsBase = 10000
  SaleContract = SaleContract
  Artist = Artist
  Nobody = Nobody
  EditionCap = 0
  MintEnd = 0
  InitialIssuers <- OnlySale
  NumClaims = 1
  Kinds = {"holder", "recovery"}
  AdminWork = {"roles", "pauses"}
  Offers <- OpenOffer
  Quantities = {1}
  Sizes = {}
  Allocations = {0}
  ClaimWindow = 2
  Delays = {1}
  Allowlist = {a, b}
  MaxCopies = 2
  MaxTime = 2
  MaxDepth = 2
SYMMETRY Sym
CHECK_DEADLOCK FALSE
INVARIANTS
  SupplyAccounted
