SPECIFICATION ServiceSpec
CONSTANTS
  r1 = r1
  r2 = r2
  r3 = r3
  r4 = r4
  t1 = t1
  t2 = t2
  Unbounded = Unbounded
  NoTimer = NoTimer
  Reqs = {r1, r2, r3, r4}
  Limits = {1, 2}
  QueueBounds = {0, 1, Unbounded}
  Timers = {t1, t2}
INVARIANTS TypeOK GateMatchesRequests WaiterHasWaker
PROPERTIES AdmissionRespectsGate SettledWaitEnds
