CONSTANTS
  r1 = r1
  c1 = c1
  c2 = c2
  c3 = c3
  Runs = {r1}
  Calls = {c1, c2, c3}
  RunOf <- OneRequest
  Patient = {c1, c2}
  Limit = 2
  Total = 2
  Estimates = {1, 2}
  Overrun = 1
  MaxCalls = 4
SPECIFICATION FairSpec
INVARIANTS
  TypeOK
  CountersExact
  AccountedWithinTotal
  ReservationFollowsCall
  UnknownMeansUncertain
PROPERTIES
  WaitsForRunningSibling
  EveryCallLeaves
