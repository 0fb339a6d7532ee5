SPECIFICATION Spec
CONSTANTS
  Listings = {l1}
  Amount = 2
  Expiring = {l1}
  MaxAttempts = 2
  MaxLogs = 4
  MaxFaults = 1
CHECK_DEADLOCK FALSE
INVARIANTS
  SettlementHarmless
