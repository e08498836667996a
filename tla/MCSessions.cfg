SPECIFICATION Spec
CONSTANTS
  c1 = c1
  c2 = c2
  a1 = a1
  a2 = a2
  a3 = a3
  a4 = a4
  Clients <- MCClients
  Tokens <- MCTokens
  NoToken = NoToken
  AccessTokenExp = 2
  RefreshTokenExp = 3
  MaxTime = 5
SYMMETRY Symmetry
CHECK_DEADLOCK FALSE
INVARIANTS
  RevokedWhileItLives
  OneTokenAtATime
  LoggedOutForGood
