SPECIFICATION Spec
CONSTANTS
  r1 = r1  r2 = r2  p1 = p1  p2 = p2  p3 = p3
  a1 = a1  a2 = a2  a3 = a3  b1 = b1  o1 = o1
  None = None
  Runs = {r1, r2}
  Phases = {p1, p2, p3}
  Attempts = {a1, a2, a3}
  Buckets = {b1}
  Owners = {o1}
  RunOf <- SiblingRunOf
  PhaseOf <- SiblingPhaseOf
  MaxInflight <- SiblingMaxInflight
  BucketLimit <- Capped
  TotalLimit <- Uncapped
  RunLimit = 2
  Reservations = {2}
  Estimates = {1, 2}
  Costs = {3}
  Transports = {"RESPONSE_RECEIVED"}
  LegacyAmounts = {1, 3}
  MaxLease = 2
  MaxDay = 1
SYMMETRY Siblings
INVARIANTS
  ClosedPhaseSettled
  CloseRequestAwaitsSibling
  PendingWithinReservation
  SpendWithinCaps
PROPERTIES
  SettledMoneyIsFinal
  LapsedPhaseOnlyFails
  ImplementsCallCharges
CHECK_DEADLOCK FALSE
