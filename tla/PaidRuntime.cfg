SPECIFICATION RuntimeFairSpec
CONSTANTS
  r1 = r1  r2 = r2  p1 = p1  p2 = p2  a1 = a1  a2 = a2  b1 = b1
  None = None
  Runs = {r1}
  Phases = {p1}
  Attempts = {a1, a2}
  Buckets = {b1}
  Owners = {1, 2}
  MaxStarts = 2
  RunOf <- SiblingRunOf
  PhaseOf <- SiblingPhaseOf
  MaxInflight <- TwoInflight
  BucketLimit <- Uncapped
  TotalLimit <- Uncapped
  RunLimit = 2
  Reservations = {2, 3}
  Estimates = {1}
  Costs = {0, 2}
  Extras = {0, 1}
  Transports = {"RESPONSE_RECEIVED"}
  LegacyAmounts = {1}
  MaxLease = 2
  MaxDay = 0
INVARIANTS
  RuntimeTypeOK
  SentIsAccounted
  ClosedByJobBuysNothing
PROPERTIES
  PhaseComesToAnEnd
CHECK_DEADLOCK FALSE
