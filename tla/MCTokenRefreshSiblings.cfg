SPECIFICATION Spec
CONSTANTS
  Conns = {a, b}
  reactive = reactive
  proactive = proactive
  precheck = precheck
  sweep = sweep
  importer = importer
  Callers = {sweep, importer}
  Kind <- MCKind
  Direct = {}
  Works = {w1, w2}
  MaxFamily = 2
  MaxRotations = 2
  MaxShaken = 1
  LoadShaken = FALSE
  NoWork = none
INVARIANT SiblingsNeverPost
CHECK_DEADLOCK FALSE
