SPECIFICATION Spec
CONSTANTS
  FailuresToOpen = 2
  OpenCooldown = 1
  CallTime = 2
  ProbeLease = 3
  FailureCap = 3
  Calls = {c1, c2, c3}
INVARIANTS
  OneProbeInFlight
