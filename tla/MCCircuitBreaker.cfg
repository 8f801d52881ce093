SPECIFICATION FairSpec
CONSTANTS
  c1 = c1
  c2 = c2
  c3 = c3
  c4 = c4
  quota = quota
  NoKind = NoKind
  NoTime = NoTime
  Calls = {c1, c2, c3, c4}
  Forced = {c4}
  FailureThreshold = 3
  DegradationThreshold = 2
  HalfOpenRequests = 2
  ResetTimeout = 2
  EscalationCount = 1
  MaxMultiplier = 2
  MaxCycles = 2
  Kinds = {quota}
  KindCooldown <- QuotaCooldown
  KindThreshold <- NoThreshold
  MaxTicks = 6
INVARIANTS TypeOK ProbesSound HealthyIsClean RestartKeepsCircuit
PROPERTY BlockEnds
