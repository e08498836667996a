SPECIFICATION Spec
CONSTANTS
  u1 = u1
  u2 = u2
  t1 = t1
  t2 = t2
  e1 = e1
  e2 = e2
  e3 = e3
  n1 = n1
  n2 = n2
  c1 = c1
  c2 = c2
  Users <- MCUsers
  Tenants <- MCTenants
  TenantOf <- MCTenantOf
  Emails <- MCEmails
  Names <- MCNames
  Clients <- MCClients
  Nothing = Nothing
  MaxVersion = 3
SYMMETRY Symmetry
PROPERTIES
  WritesFollowReads
  DeletedStaysAsItWas
