SPECIFICATION EditorSpec
CONSTANTS
  Chars = {"a"}
  Nul = "0"
  Limit = 3
  Spare = 1
  View = 1
  BoxTexts <- EmptyAndTwo
  Rows = 2
  Lengths = {0, 1, 2, 4}
  Parts = 4
  Step = 2
  Menus <- MenuAndSubmenu
  Top = "top"
  Dlgs <- MainAskAlert
  Main = "main"
  NoDlg = "none"
  Parent <- OfMain
  Controls <- TwoThreeTwo
  Wants <- Answering
  Exits <- Closing
  Opens <- Opening
  First <- FocusedFirst
  Widths = {1, 2}
  Tiles = {0}
  MaxUndo = 3
  MaxObjs = 3
  MaxMade = 3
  MaxW = 8
  Disp = 4
  MapWs = {1, 2, 4, 5}
  TileSets <- FewAndMany
  Blocks <- ThreeBlocks
  Shown = 3
  Deltas <- FarAndNear
  Sprite = 4
  Cwd <- OfA
  Dirs <- RootToAA
  Files <- TwoFiles
  Signs = {"/", ".", "a", "b", "*"}
  Texts <- ShortTexts
  Base = 4
  TextLen = 4
  Editor <- EnergyDoorText
  Server <- LiftDoorText
  Maps <- SmallMaps
INVARIANTS
  EditorAgrees
  FilesAgree
PROPERTIES
  TextStaysSound
  DialogsAboveOnly
  FilterGoesThere
  EditsFollow
CHECK_DEADLOCK FALSE
