SPECIFICATION Spec
CONSTANTS
  c1 = c1
  c2 = c2
  NoClient = NoClient
  Clients <- MCClients
  MaxVersion = 3
  Attempts = 2
  ModelCalls = 2
PROPERTY EditsLand
