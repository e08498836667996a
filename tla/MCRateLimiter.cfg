SPECIFICATION Spec
CONSTANTS
  ip1 = ip1
  ip2 = ip2
  r1 = r1
  r2 = r2
  Scopes <- MCScopes
  Global = Global
  Requests <- MCRequests
  Nobody = Nobody
  Capacity <- MCCapacity
  Rate <- MCRate
  Ttl = 2
  Skew = 1
  MaxTime = 5
SYMMETRY Symmetry
INVARIANTS
  TypeOK
  WithinBudget
  RefusedOnlyWhenSpent
