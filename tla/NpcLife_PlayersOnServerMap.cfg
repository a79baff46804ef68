SPECIFICATION Spec
CONSTANTS
  c1 = c1
  c2 = c2
  castle = castle
  cave = cave
  NoMap = NoMap
  Client <- OneClient
  Map <- TwoMaps
  Default = castle
  NSlots <- FewSlots
  NSpots = 1
  Teleporter <- InTheCastle
  Waits <- RespawnTimes
  MaxGames = 2
  Resets = FALSE
CHECK_DEADLOCK FALSE
INVARIANT
  PlayersOnServerMap
