SPECIFICATION Spec
CONSTANTS
  c1 = c1
  c2 = c2
  castle = castle
  cave = cave
  NoMap = NoMap
  Client <- TwoClients
  Map <- TwoMaps
  Default = castle
  NSlots <- TwoEnemies
  NSpots = 1
  Teleporter <- InTheCastle
  Waits <- RespawnTimes
  MaxGames = 1
  Resets = TRUE
SYMMETRY AnyClient
CHECK_DEADLOCK FALSE
INVARIANTS
  TypeOK
  ScreensShowNpcs
  OneNpcPerSpot
  OldNpcsGone
