SPECIFICATION Spec
CONSTANTS
  a = a
  b = b
  c = c
  Accounts = {a, b}
  Issuers <- ClaimIssuers
  FeeBps = 250
  BpsBase = 10000
  SaleContract = SaleContract
  Artist = Artist
  Nobody = Nobody
  EditionCap = 4
  MintEnd = 0
  InitialIssuers <- Minters
  NumClaims = 3
  Kinds = {"holder", "recovery", "weekend"}
  AdminWork = {}
  Offers <- CappedOffer
  Quantities = {1}
  Sizes = {}
  Allocations = {2}
  ClaimWindow = 2
  Delays = {1}
  Allowlist = {a, b}
  MaxCopies = 3
  MaxTime = 3
  MaxDepth = 2
SYMMETRY Sym
CHECK_DEADLOCK FALSE
INVARIANTS
  IInv
  FreeOnce
PROPERTIES
  SupersededNeverMints
  PromiseKept
