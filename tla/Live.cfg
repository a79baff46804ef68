SPECIFICATION LiveSpec
CONSTANTS
  c1 = c1
  c2 = c2
  castle = castle
  cave = cave
  NoMap = NoMap
CHECK_DEADLOCK FALSE
PROPERTIES
  ServerQuits
  LostPlayersRemoved
  ItemsComeBack
  MapChangeEnds
