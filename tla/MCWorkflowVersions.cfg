SPECIFICATION FairSpec
CONSTANTS
  c1 = c1
  c2 = c2
  NoClient = NoClient
  Clients <- MCClients
  MaxVersion = 4
  Attempts = 2
  ModelCalls = 2
INVARIANTS
  TypeOK
  ExactlyOneCurrent
  CurrentIsListed
  OnlyDeletesDeadlock
PROPERTIES
  DeletedForGood
  OneHistory
  RequestsEnd
