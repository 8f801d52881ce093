SPECIFICATION ServiceSpec
CONSTANTS
  g = g
  a = a
  b = b
  r1 = r1
  r2 = r2
  r3 = r3
  Keys <- MCKeys
  AccountKeys = {a, b}
  Reqs <- MCReqs
  Requirements <- MCRequirements
  QueueBounds = {0, 1}
INVARIANTS TypeOK GatesCountHolders NobodyLost OnlyMissedRoomStrands DrainIsUnique
PROPERTIES AdmissionWithinLimit NoOvertaking WaitEnds
