CONSTANTS
  c1 = c1
  c2 = c2
  shoot = shoot
  Client <- TwoClients
  Key <- OneKey
SPECIFICATION FairSpec
PROPERTIES LeaversLeave
