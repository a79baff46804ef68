SPECIFICATION WorldSpec
CONSTANTS
  p1 = p1
  p2 = p2
  Player <- TwoPlayers
  Partner <- NoPartner
  Full = 2
  Damage <- OneOrTwo
  EnergyItem = 1
  Duration = 1
  MaxPower = 0
  MaxTanks = 1
  MaxWeapons = 1
  ScoreWrap = 2
  Kills = TRUE
  Door <- GateHatchAndVault
  Items <- ItemsOfBoth
  Place <- TwoPlaces
  LeverPics = 2
  DoorPics = 2
  OpenFor = 1
  CloseSound = TRUE
  Outside <- VaultOnly
  EyesFor = 1
  EventBlock = 16
SYMMETRY Symmetric
CHECK_DEADLOCK FALSE
INVARIANTS
  EnergyInRange
  ScreensSayTheState
  DoorsRight
