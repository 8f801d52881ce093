SPECIFICATION Spec
CONSTANTS
  Children = {c1, c2}
  Foreign = foreign
  NoProc = none
  Adopts = TRUE
  Threshold = 2
  MaxPolls = 1
  MaxOps = 2
INVARIANT StopKills
