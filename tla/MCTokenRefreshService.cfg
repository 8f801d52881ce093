SPECIFICATION FairSpec
CONSTANTS
  Conns = {a}
  reactive = reactive
  proactive = proactive
  precheck = precheck
  sweep = sweep
  importer = importer
  Callers = {sweep, precheck, proactive, importer}
  Kind <- MCKind
  Direct = {"reactive", "proactive"}
  Works = {w1, w2}
  MaxFamily = 2
  MaxRotations = 2
  MaxShaken = 1
  LoadShaken = FALSE
  NoWork = none
PROPERTY RefreshEnds
CHECK_DEADLOCK FALSE
