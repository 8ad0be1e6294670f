SPECIFICATION FairSpec
CONSTANTS
  FailuresToOpen = 2
  OpenCooldown = 2
  CallTime = 3
  ProbeLease = 2
  FailureCap = 3
  Calls = {c1, c2, c3}
INVARIANTS
  RowConsistent
PROPERTIES
  CooldownNeverShortened
  OneProbePerLease
  AlwaysAllowedAgain
