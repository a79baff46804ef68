------------------------------ MODULE MapView ------------------------------
(***************************************************************************)
(* What the map editor shows: the part of the map in its window            *)
(* (mapedit/draw.c, and the scrolling of procs.c) and the palette of tiles *)
(* with its scroll bar.  The two directions of the map are computed in the *)
(* same way; the module has one of them.  Lengths are in pixels.           *)
(***************************************************************************)
EXTENDS Integers, Sequences

CONSTANTS MaxW,         \* MAPDLG_MAX_W, the largest window
          Disp,         \* DISP_X, the margin of the image on both sides
          MapWs,        \* widths of maps, in tiles
          TileSets,     \* tiles that can be read: [size, n]
          Blocks,       \* the block bitmaps: [size, n]
          Shown,        \* places of the palette
          Deltas,       \* how far the mouse scrolls in one turn
          Sprite        \* the widest sprite of an object

MapViewAssumption ==
  \* with tiles of an odd size the last pixel of a doubled map is outside it
  /\ \A t \in TileSets \cup {Blocks} : t.size % 2 = 0 /\ t.size \in 1 .. Disp /\ t.n \in Nat /\ t.n > Shown - 2
  /\ MapWs \subseteq Nat \ {0} /\ Deltas \subseteq Int
  /\ MaxW \in Nat /\ MaxW % 2 = 0 /\ Disp \in Nat /\ Shown \in Nat /\ Sprite \in 0 .. Disp

Tools == <<"tiles", "blocks", "objects">>
NoTiles == [size |-> 0, n |-> 0]

VARIABLES map,          \* width of the map in tiles
          tiles,        \* the tiles in use, or NoTiles
          dlgw,         \* width of the map window
          x,            \* state.x, the first pixel of the map that is shown
          ps,           \* state.pixel_size
          tool,         \* state.tool
          pop,          \* the tool the popup shows, as a place in Tools
          bar,          \* the scroll bar of the palette: [d1, d2]
          start         \* start_tile and start_block

vars == <<map, tiles, dlgw, x, ps, tool, pop, bar, start>>
viewVars == <<map, tiles, dlgw, x, ps>>
paletteVars == <<tool, pop, bar, start>>

Smaller(a, b) == IF a < b THEN a ELSE b
Quot(a, b) == IF a >= 0 THEN a \div b ELSE - ((- a) \div b)      \* "/" of C
Rem(a, b) == a - b * Quot(a, b)                                  \* "%" of C

Loaded == tiles # NoTiles
Pixels == map * tiles.size
Width == dlgw \div ps

-----------------------------------------------------------------------------
\* clip_state_pos
ClippedLow(p) == IF p < 0 THEN 0 ELSE p
\* Mutant of Clipped: The width of the window is forgotten.
ClippedPast(p, w) == IF Quot(p + w, tiles.size) > map - 1 THEN Pixels ELSE p

Clipped(p, w) == IF Quot(p + w, tiles.size) > map - 1 THEN Pixels - w ELSE p
ClipStatePos(p, w) == IF Loaded THEN Clipped(ClippedLow(p), w) ELSE p

\* adjust_map_size, with the tiles that are in use when it is called
AdjustMapSize(w) == IF Loaded THEN Smaller(w * tiles.size, MaxW) ELSE dlgw

\* the arrow keys and the mouse loop of the middle button
Scroll ==
  /\ Loaded
  /\ \E d \in Deltas \cup {tiles.size, - tiles.size} : x' = ClipStatePos(x + d, Width)
  /\ UNCHANGED <<map, tiles, dlgw, ps, paletteVars>>

Double ==
  /\ ps' = 3 - ps
  /\ x' = ClipStatePos(x, dlgw \div ps')
  /\ UNCHANGED <<map, tiles, dlgw, paletteVars>>

\* create_state_map resets the tool and nothing of what shows it
NewMap ==
  /\ \E w \in MapWs : map' = w /\ dlgw' = AdjustMapSize(w)
  /\ x' = 0 /\ tool' = "tiles"
  /\ UNCHANGED <<tiles, ps, pop, bar, start>>

\* read_state_map: the window is adjusted before the map's tiles are read,
\* which may fail
OpenMap ==
  /\ \E w \in MapWs : map' = w /\ dlgw' = AdjustMapSize(w)
  /\ tiles' \in TileSets \cup {tiles}
  /\ x' = 0
  /\ UNCHANGED <<ps, paletteVars>>

Resize ==
  /\ \E w \in MapWs : map' = w /\ dlgw' = AdjustMapSize(w)
  /\ x' = 0
  /\ UNCHANGED <<tiles, ps, paletteVars>>

\* menu_read_tiles, reset_state(bmps_changed)
ReadTiles ==
  /\ tiles' \in TileSets
  /\ start' = [start EXCEPT !["tiles"] = 0, !["blocks"] = 0]
  /\ UNCHANGED <<map, dlgw, x, ps, tool, pop, bar>>

-----------------------------------------------------------------------------
\* The palette
Kind(t) == IF t = "tiles" THEN "tiles" ELSE "blocks"
MaxOf(k) == IF k = "tiles" THEN tiles.n ELSE Blocks.n

\* image_change, called by the scroll bar
ImageChange(d) == IF d \in 0 .. MaxOf(Kind(tool)) THEN [start EXCEPT ![Kind(tool)] = d] ELSE start
BarMoves ==
  /\ bar.d2 > 0
  /\ \E d \in 0 .. (bar.d2 - 1) : bar' = [bar EXCEPT !.d1 = d] /\ start' = ImageChange(d)
  /\ UNCHANGED <<viewVars, tool, pop>>

\* ximage_proc: one turn of the mouse loop may roll the palette
Roll(by) ==
  /\ Loaded
  /\ IF by < 0 THEN bar.d1 > 0 ELSE bar.d1 < MaxOf(Kind(tool)) - Shown + 1
  /\ bar' = [bar EXCEPT !.d1 = @ + by]
  /\ start' = ImageChange(bar.d1 + by)
  /\ UNCHANGED <<viewVars, tool, pop>>
PaletteRolls == \E by \in {-1, 1} : Roll(by)
\* the tile that a click on a place chooses, and the one drawn there
\* (copy_image); 0 is the empty tile
Chosen(n) == Smaller(ClippedLow(n + bar.d1), MaxOf(tool))
DrawnAt(n) == IF n + start[tool] <= 0 THEN 0 ELSE ((n + start[tool] - 1) % MaxOf(tool)) + 1

\* tool_sel_proc: a click takes the next tool, the menu any or none
ToolClick ==
  /\ pop' \in {(pop % 3) + 1} \cup {1, 2, 3}
  /\ tool' = Tools[pop']
  /\ LET k == Kind(tool')
         at == start[k]
     IN /\ bar' = [d1 |-> at, d2 |-> MaxOf(k) - Shown + 2]
        /\ start' = IF at \in 0 .. MaxOf(k) THEN [start EXCEPT ![k] = at] ELSE start
  /\ UNCHANGED viewVars

\* init_state and main: the first map is read before any tiles are there
Init ==
  /\ map \in MapWs /\ tiles \in TileSets
  /\ dlgw = MaxW /\ x = 0 /\ ps = 1
  /\ tool = "tiles" /\ pop = 1
  /\ start = [k \in {"tiles", "blocks"} |-> 0]
  /\ bar = [d1 |-> 0, d2 |-> tiles.n - Shown + 2]

Next == \/ Scroll \/ Double \/ NewMap \/ OpenMap \/ Resize \/ ReadTiles
        \/ BarMoves \/ PaletteRolls \/ ToolClick
Spec == Init /\ [][Next]_vars

-----------------------------------------------------------------------------
\* display_map: the cells and the pixels of the image that a layer with tiles
\* of a size is drawn on; the grid, the marks and the lines go the same way
FirstCell(size) == Quot(x, size)
FirstPixel(size) == Disp - Rem(x, size)
Whole(size) == (Width + size - 1) \div size
Covering(size) == IF Whole(size) * size + FirstPixel(size) < Disp + Width THEN Whole(size) + 1 ELSE Whole(size)
\* Mutant of Cells: One more column is drawn also where the map ends.
CellsPast(size) == Covering(size)

Cells(size) == IF FirstCell(size) + Covering(size) > map THEN map - FirstCell(size) ELSE Covering(size)
\* where draw_bitmap, draw_bitmap_tr, draw_tile_selection and draw_hline end
EndPixel(size) == FirstPixel(size) + Cells(size) * size
ImageW == Disp + MaxW \div ps + Disp        \* create_image, dbl_bmp
LayerInside(size) ==
  Cells(size) > 0 => /\ FirstCell(size) >= 0 /\ FirstCell(size) + Cells(size) <= map
                     /\ FirstPixel(size) >= 0
                     /\ EndPixel(size) <= ImageW
\* draw_items, for an object whose left edge is at px of the window
ItemShown(px) == - Disp < px /\ px < Width
ItemInside(px) == ItemShown(px) => px + Disp >= 0 /\ px + Disp + Sprite <= ImageW
\* map_set_tile: the cell under the pointer
CellAt(mouse) == Quot(Quot(mouse, ps) + x, tiles.size)

Fitted == Loaded /\ dlgw = Smaller(Pixels, MaxW)

\* clip_state_pos keeps the visible area inside the map.
VisibleAreaInMap == Loaded => 0 <= x /\ x + Width <= Pixels

\* When the window fits the map and the visible area is inside, only cells of
\* the map are read, only pixels of the image are written, and the pointer is
\* on a cell of the map.
DrawnInside == Fitted /\ VisibleAreaInMap =>
  /\ LayerInside(tiles.size) /\ LayerInside(Blocks.size)
  /\ \A px \in (- Disp - 1) .. (Width + 1) : ItemInside(px)
  /\ \A mouse \in 0 .. (dlgw - 1) : CellAt(mouse) \in 0 .. (map - 1)

\* The visible area stays inside, however it is scrolled, doubled and resized;
\* only reading tiles of another size may move it out.
ViewStaysStep ==
  Fitted /\ VisibleAreaInMap /\ Fitted' /\ tiles'.size = tiles.size => VisibleAreaInMap'
ViewStays == [][ViewStaysStep]_vars

\* A click in the palette chooses the tile that is drawn there, as far as
\* there are tiles.  Reading tiles and making a map move the palette and not
\* its scroll bar, and break this until the bar or the tool is touched.
PicksWhatItShows == tool = "objects" \/
  \A n \in 0 .. (Shown - 1) : n + bar.d1 \in 0 .. MaxOf(tool) => Chosen(n) = DrawnAt(n)
PaletteFollowsStep ==
  PicksWhatItShows => PicksWhatItShows' \/ NewMap \/ OpenMap \/ ReadTiles
PaletteFollows == [][PaletteFollowsStep]_vars

ViewFollowsStep == ViewStaysStep /\ PaletteFollowsStep

\* The comment of clip_state_pos: the visible area will not be outside the map.
ClippedInside == [][Scroll \/ Double => VisibleAreaInMap']_vars

=============================================================================
