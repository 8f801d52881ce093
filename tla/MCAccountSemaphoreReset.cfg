SPECIFICATION RSpec
CONSTANTS
  g = g
  a = a
  r1 = r1
  r2 = r2
  r3 = r3
  Keys <- MCKeys
  AccountKeys = {a}
  Reqs <- MCReqs
  Requirements <- MCRequirements
  QueueBounds = {0}
SYMMETRY Symmetry
INVARIANTS NoPhantomPermits ResetKeepsWaitedGates
