SPECIFICATION RuntimeSpec
CONSTANTS
  r1 = r1  r2 = r2  p1 = p1  p2 = p2  a1 = a1  a2 = a2  b1 = b1
  None = None
  Runs = {r1, r2}
  Phases = {p1, p2}
  Attempts = {a1, a2}
  Buckets = {b1}
  Owners = {1, 2}
  MaxStarts = 2
  RunOf <- LinkRunOf
  PhaseOf <- LinkPhaseOf
  MaxInflight <- TwoInflight
  BucketLimit <- Uncapped
  TotalLimit <- Capped
  RunLimit = None
  Reservations = {1}
  Estimates = {1}
  Costs = {1}
  Extras = {0, 1}
  Transports = {"RESPONSE_RECEIVED"}
  LegacyAmounts = {}
  MaxLease = 1
  MaxDay = 0
INVARIANTS
  LifetimeSpendWithinCap
