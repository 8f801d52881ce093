SPECIFICATION Spec
CONSTANTS
  o1 = o1
  o2 = o2
  k1 = k1
  k2 = k2
  c1 = c1
  c2 = c2
  r1 = r1
  r2 = r2
  Owners = {o1, o2}
  ApiKeys = {k1, k2}
  Conns = {c1, c2}
  Reqs = {r1, r2}
  MaxRows = 2
SYMMETRY Symmetry
INVARIANTS TypeOK LeasesSound GenerationKeepsKey
PROPERTIES EndedStaysEnded DispatchIsFenced
