SPECIFICATION FairSpec
CONSTANTS
  a = a
  b = b
  c = c
  t1 = t1
  t2 = t2
  Clients <- MCClients
  Tenants <- MCTenants
  TenantOf <- MCTenantOf
  Buffer = 1
  Events = 2
  Failures = 1
INVARIANTS
  TypeOK
  NoSendOnClosed
  ServedByOneListener
PROPERTIES
  LeaversLeave
  OrphansEnd
CHECK_DEADLOCK FALSE
