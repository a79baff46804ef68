------------------------------ MODULE MCEditor ------------------------------
(***************************************************************************)
(* The dialog toolkit (EditControl, Widgets, Dialogs, FileSelect) and the  *)
(* map editor (MapEdit, MapView, MapFile) in one run.  A behavior belongs  *)
(* to one part; the variables of the others keep the value 0.              *)
(***************************************************************************)
EXTENDS Integers, Sequences, FiniteSets, SequencesExt

CONSTANTS
  Chars, Nul, Limit, Spare, View, BoxTexts,                          \* of EditControl
  Rows, Lengths, Parts, Step, Menus, Top,                            \* of Widgets
  Dlgs, Main, NoDlg, Parent, Controls, Wants, Exits, Opens, First,   \* of Dialogs
  Widths, Tiles, MaxUndo, MaxObjs, MaxMade,                          \* of MapEdit
  MaxW, Disp, MapWs, TileSets, Blocks, Shown, Deltas, Sprite,        \* of MapView
  Cwd, Dirs, Files, Signs, Texts,                                    \* of FileSelect
  Base, TextLen, Editor, Server, Maps                                \* of MapFile

VARIABLES
  part,
  box, editDrag, cut,                                   \* of EditControl
  ctl,                                                  \* of Widgets
  loops, win, alive, focus, flagged, lock, closed,      \* of Dialogs
  text, dir, listed, open, answer,                      \* of FileSelect
  cell, sel, undo, pos, oldest, past,                   \* of MapEdit
  objs, chosen, drag, made,
  map, tiles, dlgw, x, ps, tool, pop, bar, start,       \* of MapView
  saved, file                                           \* of MapFile

editVars == <<box, editDrag, cut>>
dialogVars == <<loops, win, alive, focus, flagged, lock, closed>>
fileVars == <<text, dir, listed, open, answer>>
mapVars == <<cell, sel, undo, pos, oldest, past, objs, chosen, drag, made>>
viewVars == <<map, tiles, dlgw, x, ps, tool, pop, bar, start>>
savedVars == <<saved, file>>
vars == <<part, editVars, ctl, dialogVars, fileVars, mapVars, viewVars, savedVars>>

E == INSTANCE EditControl WITH drag <- editDrag, Texts <- BoxTexts
EmptyAndTwo == {<<>>, <<"a", "a">>}

W == INSTANCE Widgets
MenuAndSubmenu == [top |-> <<"leaf", "sub">>, sub |-> <<"leaf", "leaf">>]

\* the main dialog opens a question and a message
D == INSTANCE Dialogs
MainAskAlert == {"main", "ask", "alert"}
OfMain == [main |-> "none", ask |-> "main", alert |-> "main"]
TwoThreeTwo == [main |-> 2, ask |-> 3, alert |-> 2]
Answering == [main |-> {2}, ask |-> {1, 2, 3}, alert |-> {1, 2}]
Closing == [main |-> {}, ask |-> {2, 3}, alert |-> {1, 2}]
Opening == [main |-> {1, 2}, ask |-> {}, alert |-> {}]
FocusedFirst == [main |-> 2, ask |-> 1, alert |-> -1]

\* directories /, /a and /a/a, and every short text
A == <<"a">>
OfA == <<A>>
RootToAA == {<<>>, <<A>>, <<A, A>>}
TwoFiles == {<<<<"b">>>>, <<A, <<"b">>>>}
ShortTexts == UNION {[1 .. n -> {"/", ".", "a", "*"}] : n \in 0 .. 2}
              \cup [1 .. 3 -> {"/", ".", "a"}]
              \cup {<<"/", "a", "/", "/", "a">>, <<"a", "/", ".", "/", ".", ".">>,
                    <<"/", ".", ".", "/", "a", "/", "*">>, <<"*", "/", "a", "/", ".", ".">>}
F == INSTANCE FileSelect

\* changes of the tiles, and changes of the objects
T == INSTANCE MapEdit WITH start <- oldest

V == INSTANCE MapView
FewAndMany == {[size |-> 2, n |-> 5], [size |-> 4, n |-> 4]}
ThreeBlocks == [size |-> 2, n |-> 3]
FarAndNear == {-7, -1, 1, 7}

R == INSTANCE MapFile
\* maps of two cells and up to two objects; the server has no "energy"
EnergyDoorText == <<"energy", "door", "text">>
LiftDoorText == <<"lift", "door", "text">>
OneCell(b, f, s) == [back |-> b, fore |-> f, block |-> s]
Thing(n, at, t) == [npc |-> n, x |-> at, target |-> t, text |-> <<>>]
Sign(t) == [npc |-> 3, x |-> 1, target |-> 1, text |-> t]
Things == {Thing(n, at, t) : n \in {1, 2}, at \in {-1, 9}, t \in {-1, 0, 1}}
          \cup {Sign(t) : t \in {<<>>, <<1>>, <<1, 1>>, <<1, 2, 1>>}}
SmallMaps == {[cells |-> <<OneCell(-1, 2, 1), OneCell(0, 9, -1)>>, objs |-> os] :
                os \in {<<>>} \cup {<<a>> : a \in Things} \cup {<<a, b>> : a, b \in Things}}

ASSUME EditorAssumption ==
  /\ E!EditAssumption /\ W!WidgetsAssumption /\ D!DialogsAssumption
  /\ F!FileSelectAssumption /\ R!MapFileAssumption /\ V!MapViewAssumption
  /\ T!MapEditAssumption

EditIdle == box = 0 /\ editDrag = 0 /\ cut = 0
DialogIdle == /\ loops = 0 /\ win = 0 /\ alive = 0 /\ focus = 0 /\ flagged = 0 /\ lock = 0 /\ closed = 0
FileIdle == text = 0 /\ dir = 0 /\ listed = 0 /\ open = 0 /\ answer = 0
MapIdle == /\ cell = 0 /\ sel = 0 /\ undo = 0 /\ pos = 0 /\ oldest = 0 /\ past = 0
           /\ objs = 0 /\ chosen = 0 /\ drag = 0 /\ made = 0
ViewIdle == /\ map = 0 /\ tiles = 0 /\ dlgw = 0 /\ x = 0 /\ ps = 0
            /\ tool = 0 /\ pop = 0 /\ bar = 0 /\ start = 0
SavedIdle == saved = 0 /\ file = 0
Start(p) ==
  /\ IF p = "edit" THEN E!Init ELSE EditIdle
  /\ IF p = "control" THEN W!Init ELSE ctl = 0
  /\ IF p = "dialog" THEN D!Init ELSE DialogIdle
  /\ IF p = "file" THEN F!Init ELSE FileIdle
  /\ IF p \in {"tiles", "objects"} THEN T!Init ELSE MapIdle
  /\ IF p = "view" THEN V!Init ELSE ViewIdle
  /\ IF p = "saved" THEN R!Init ELSE SavedIdle

EditorInit ==
  /\ part \in {"edit", "control", "dialog", "file", "tiles", "objects", "view", "saved"}
  /\ Start(part)

Editing == part = "edit" /\ E!Next /\ UNCHANGED <<part, ctl, dialogVars, fileVars, mapVars, viewVars, savedVars>>
Clicking == part = "control" /\ W!Next /\ UNCHANGED <<part, editVars, dialogVars, fileVars, mapVars, viewVars, savedVars>>
Asking == part = "dialog" /\ D!Next /\ UNCHANGED <<part, editVars, ctl, fileVars, mapVars, viewVars, savedVars>>
Choosing == part = "file" /\ F!Next /\ UNCHANGED <<part, editVars, ctl, dialogVars, mapVars, viewVars, savedVars>>
Tiling == part = "tiles" /\ (T!Tiling \/ T!NewMap \/ T!Resize)
          /\ UNCHANGED <<part, editVars, ctl, dialogVars, fileVars, viewVars, savedVars>>
Placing == part = "objects" /\ (T!Placing \/ T!NewMap \/ T!Resize)
           /\ UNCHANGED <<part, editVars, ctl, dialogVars, fileVars, viewVars, savedVars>>
Viewing == part = "view" /\ V!Next /\ UNCHANGED <<part, editVars, ctl, dialogVars, fileVars, mapVars, savedVars>>
Saving == part = "saved" /\ R!Next /\ UNCHANGED <<part, editVars, ctl, dialogVars, fileVars, mapVars, viewVars>>
EditorNext == Editing \/ Clicking \/ Asking \/ Choosing \/ Tiling \/ Placing \/ Viewing \/ Saving
EditorSpec == EditorInit /\ [][EditorNext]_vars

\* EditControl.StaysSound: a key, a paste or a click leaves cursor, selection
\* and the part that is shown inside the text.
TextStaysSound == [][part = "edit" => E!StaysSoundStep]_vars

\* Dialogs.LockedAsleep: a dialog with another one above it takes no input.
DialogsAboveOnly == [][part = "dialog" => D!LockedAsleepStep]_vars

\* FileSelect.GoesThere: a text that is taken over shows the directory it
\* names.
FilterGoesThere == [][part = "file" => F!GoesThereStep]_vars

\* What a control shows is what it holds; the dialogs, their locks and their
\* focus agree; the undo ring agrees with the changes of the map; what is drawn
\* is inside the map and the image.
EditorAgrees == /\ part = "control" => W!ControlsAgree
                /\ part = "dialog" => D!DialogsAgree
                /\ part \in {"tiles", "objects"} => T!RingAgrees
                /\ part = "view" => V!DrawnInside

\* The lists of the file selector are those of the directory it shows; a file
\* gives back the map that was saved, to all readers.
FilesAgree == /\ part = "file" => F!FilesAgree
              /\ part = "saved" => R!ReadersAgree

\* Undo goes back to the tiles before the change, targets follow their
\* objects through every change of the list, and the view and the palette
\* keep to the map and the tiles.
EditsFollow == [][/\ part = "tiles" => T!UndoGoesBackStep
                  /\ part = "objects" => T!TargetsFollowStep
                  /\ part = "view" => V!ViewFollowsStep]_vars
=============================================================================
