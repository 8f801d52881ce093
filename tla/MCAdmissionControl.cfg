SPECIFICATION Spec
CONSTANTS
  a = a
  b = b
  c = c
  s1 = s1
  s2 = s2
  mid = mid
  big = big
  Tenants <- MCTenants
  Reqs = {s1, s2, mid, big}
  Tenant <- MCTenant
  Cost <- MCCost
  MaxSkips = 2
  MaxQueueCount = 3
  MaxQueueCost = 6
  MinLimit = 1
  InitialLimit = 3
  MaxLimit = 4
  IncreaseStep = 1
  Tenths = 8
  CriticalTenths = 5
INVARIANTS TypeOK BooksBalance DispatchComplete
PROPERTIES ReservationHolds StaysWithinBudget
