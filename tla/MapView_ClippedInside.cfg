CONSTANTS
  MaxW = 8
  Disp = 4
  MapWs = {1, 2, 4, 5}
  TileSets <- MCTileSets
  Blocks <- MCBlocks
  Shown = 3
  Deltas <- MCDeltas
  Sprite = 4
SPECIFICATION Spec
PROPERTY ClippedInside
CHECK_DEADLOCK FALSE
