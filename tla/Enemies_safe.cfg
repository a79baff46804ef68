SPECIFICATION EnemiesSpec
CONSTANT j1 = j1
CHECK_DEADLOCK FALSE
INVARIANTS
  HuntersStayInMap
  BlocksKeepTheirPlace
PROPERTIES
  NobodyLosesFooting
