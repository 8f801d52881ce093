SPECIFICATION Spec
CONSTANTS
  Conns = {a, b}
  reactive = reactive
  proactive = proactive
  precheck = precheck
  sweep = sweep
  importer = importer
  Callers = {reactive, sweep}
  Kind <- MCKind
  Direct = {}
  Works = {w1, w2}
  MaxFamily = 1
  MaxRotations = 2
  MaxShaken = 1
  LoadShaken = FALSE
  NoWork = none
INVARIANTS TypeOK TokensUsedOnce LiveTokenKept SiblingsApart
CHECK_DEADLOCK FALSE
