CONSTANTS
  Rows = 2
  Lengths = {0, 1, 2, 4}
  Parts = 4
  Step = 2
  Menus <- MCMenus
  Top = "top"
SPECIFICATION Spec
INVARIANT TopIsItem
CHECK_DEADLOCK FALSE
