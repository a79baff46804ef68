------------------------------ MODULE MapEdit ------------------------------
(***************************************************************************)
(* The map editor (mapedit/procs.c, mapedit.c, map.c): the tiles of the    *)
(* map with their ring of undo records, the list of objects whose targets  *)
(* and selection are kept as positions in the list, and the mouse loop of  *)
(* the map window, during which keys go on being handled.                  *)
(* Objects carry an identity that the program does not have, to say which  *)
(* object a position means; "past" remembers the tiles before each change  *)
(* that can still be undone.                                               *)
(***************************************************************************)
EXTENDS Integers, Sequences, FiniteSets, SequencesExt

CONSTANTS Widths,       \* widths a map, of one row, can be given
          Tiles,        \* tile numbers
          MaxUndo,      \* MAX_UNDO, the size of the ring
          MaxObjs,      \* bound on the objects of a map
          MaxMade       \* bound on the objects ever made

MapEditAssumption ==
  /\ Widths # {} /\ Widths \subseteq Nat \ {0} /\ Tiles \subseteq Nat
  /\ MaxUndo \in Nat /\ MaxUndo > 1
  /\ MaxObjs \in Nat /\ MaxMade \in Nat

Layers == {"fore", "block"}
None == -1

VARIABLES cell,         \* column -> layer -> tile
          sel,          \* the columns marked for a paste
          undo, pos, start,     \* the ring: records, next free, oldest
          past,
          objs,         \* map->obj from its head: [id, target]
          chosen,       \* state.selected_obj: a position, or None
          drag,         \* the object tool's mouse loop: NoDrag or [sel, button]
          made          \* objects made so far

vars == <<cell, sel, undo, pos, start, past, objs, chosen, drag, made>>
tileVars == <<cell, sel, undo, pos, start, past>>
objVars == <<objs, chosen, drag, made>>

Columns == DOMAIN cell
Blank == [l \in Layers |-> None]
NoRecord == [x |-> 0, layer |-> "fore", tile |-> None]
NoDrag == [sel |-> None, button |-> "none"]
Unknown == <<>>

-----------------------------------------------------------------------------
\* Tiles

SetCell(c, x, l, t) == [c EXCEPT ![x][l] = t]

\* what set_map_tile remembers; a full ring loses its oldest record
Latest(s) == IF Len(s) < MaxUndo THEN s ELSE Tail(s)
\* Mutant of Record: A full ring keeps its oldest record.
RecordFull(x, l) ==
  /\ undo' = [undo EXCEPT ![pos] = [x |-> x, layer |-> l, tile |-> cell[x][l]]]
  /\ pos' = (pos + 1) % MaxUndo
  /\ start' = start
  /\ past' = Latest(Append(past, cell))

Record(x, l) ==
  /\ undo' = [undo EXCEPT ![pos] = [x |-> x, layer |-> l, tile |-> cell[x][l]]]
  /\ pos' = (pos + 1) % MaxUndo
  /\ start' = IF (pos + 1) % MaxUndo = start THEN (start + 1) % MaxUndo ELSE start
  /\ past' = Latest(Append(past, cell))

\* the tile and block tools, and the Delete key (tile None) on the tile under
\* the pointer.  The key uses the last position the window was told: after the
\* map was made smaller it may be outside, and what is written is undefined
SetTile(x, l, t) ==
  /\ x \in Columns /\ l \in Layers /\ t \in Tiles \cup {None}
  /\ cell' = SetCell(cell, x, l, t)
  /\ Record(x, l)
  /\ UNCHANGED <<sel, objVars>>

\* map_undo, which sets the tile without a record
CanUndo == pos # start
Before(p) == IF p - 1 < 0 THEN MaxUndo - 1 ELSE p - 1
Undo ==
  /\ CanUndo
  /\ pos' = Before(pos)
  /\ cell' = SetCell(cell, undo[pos'].x, undo[pos'].layer, undo[pos'].tile)
  /\ past' = Front(past)
  /\ UNCHANGED <<sel, undo, start, objVars>>

\* shift and the left button: a click on an unmarked tile unmarks the others
\* and starts marking, one on a marked tile unmarks all
MarkTile(x) ==
  /\ x \in Columns
  /\ sel' \in (IF x \in sel THEN {{}, sel} ELSE {{x}, sel \cup {x}})
  /\ UNCHANGED <<cell, undo, pos, start, past, objVars>>

\* paste_map_sel: the marked tiles are copied one by one, each as it is when
\* its turn comes; no undo record is made
Copied(c, x, to) == IF to \in DOMAIN c THEN [c EXCEPT ![to] = c[x]] ELSE c
Leftmost == CHOOSE x \in sel : \A y \in sel : x <= y
Pasted(at) ==
  LET pasted[x \in {-1} \cup Columns] ==
        IF x = -1 THEN cell
        ELSE IF x \in sel THEN Copied(pasted[x - 1], x, at + x - Leftmost)
        ELSE pasted[x - 1]
  IN  pasted[Cardinality(Columns) - 1]
Paste(at) ==
  /\ at \in Columns /\ sel # {}
  /\ cell' = Pasted(at)
  /\ past' = [i \in DOMAIN past |-> Unknown]
  /\ UNCHANGED <<sel, undo, pos, start, objVars>>

-----------------------------------------------------------------------------
\* Objects

Objs == 0 .. (Len(objs) - 1)
ObjectAt(os, i) == os[i + 1]

\* create_map_object puts the new object in front of the list; the targets are
\* turned into pointers before and into positions after it
Targets(os, NewPlace(_)) ==
  [i \in DOMAIN os |->
     [os[i] EXCEPT !.target = IF @ \in 0 .. (Len(os) - 1) THEN NewPlace(@) ELSE None]]
\* Mutant of Shifted: The targets are not moved when an object is put in front.
Unshifted(t) == t

Shifted(t) == t + 1
WithNew(os, target) == <<[id |-> made + 1, target |-> target]>> \o Targets(os, Shifted)
CanMake == Len(objs) < MaxObjs /\ made < MaxMade

\* delete_map_object
WithoutPlace(os, k) ==
  LET Place(t) == IF t = k THEN None ELSE IF t > k THEN t - 1 ELSE t
  IN RemoveAt(Targets(os, Place), k + 1)

\* get_map_object_at: the object under the pointer, or none
Picked == Objs \cup {None}

\* one turn of the mouse loop of the object tool (set_map_object); from is the
\* position the loop remembers, p the object under the pointer
Pick(from, p) == IF from = None THEN p ELSE from

\* left button: the object is moved; its place on the map is not modelled
MoveTurn(from) ==
  \E p \in Picked :
    /\ chosen' = IF from = None THEN p ELSE chosen
    /\ drag' = [button |-> "move",
                sel |-> IF Pick(from, p) \in Objs THEN Pick(from, p) ELSE None]
    /\ UNCHANGED <<objs, made>>

\* left button and control: the object chosen before gets the target
AimTurn(from) ==
  \E p \in Picked :
    LET now == IF from = None THEN p ELSE chosen
    IN IF Pick(from, p) # None /\ chosen \in Objs
       THEN /\ objs' = [objs EXCEPT ![chosen + 1].target = now]
            /\ chosen' = chosen
            /\ drag' = [button |-> "aim", sel |-> chosen]
            /\ UNCHANGED made
       ELSE /\ chosen' = now
            /\ drag' = [button |-> "aim", sel |-> Pick(from, p)]
            /\ UNCHANGED <<objs, made>>

\* right button: on an object its dialog is run, which may clear the target;
\* elsewhere an object is made
EditTurn(from) ==
  \E p \in Picked :
    IF Pick(from, p) # None
    THEN /\ objs' \in {objs} \cup (IF Pick(from, p) \in Objs
                       THEN {[objs EXCEPT ![Pick(from, p) + 1].target = None]} ELSE {})
         /\ chosen' = IF from = None THEN p ELSE chosen
         /\ drag' = [button |-> "edit", sel |-> Pick(from, p)]
         /\ UNCHANGED made
    ELSE /\ CanMake
         /\ objs' = WithNew(objs, None)
         /\ made' = made + 1
         /\ chosen' = 0
         /\ drag' = [button |-> "edit", sel |-> 0]

Turn(button, from) ==
  /\ CASE button = "move" -> MoveTurn(from)
       [] button = "aim" -> AimTurn(from)
       [] OTHER -> EditTurn(from)
  /\ UNCHANGED tileVars
ObjectClick == \E b \in {"move", "aim", "edit"} : drag = NoDrag /\ Turn(b, None)
ObjectDrag == drag # NoDrag /\ Turn(drag.button, drag.sel)
Release == drag # NoDrag /\ drag' = NoDrag /\ UNCHANGED <<tileVars, objs, chosen, made>>

\* the keys of the object tool: "c", space, Delete
CopyKey ==
  /\ chosen \in Objs /\ CanMake
  /\ objs' = WithNew(objs, ObjectAt(Targets(objs, Shifted), chosen).target)
  /\ made' = made + 1
  /\ chosen' = 0
  /\ UNCHANGED <<tileVars, drag>>
ChooseKey == chosen' \in Picked /\ UNCHANGED <<tileVars, objs, drag, made>>
RemoveKey ==
  /\ chosen \in Objs
  /\ objs' = WithoutPlace(objs, chosen)
  /\ chosen' = None
  /\ UNCHANGED <<tileVars, drag, made>>

-----------------------------------------------------------------------------
\* Maps.  reset_state(map_changed) forgets the undo records and the selection
Reset == pos' = 0 /\ start' = 0 /\ chosen' = None /\ past' = <<>>

\* create_state_map, and read_state_map with the map of a file
NewMap ==
  /\ drag = NoDrag
  /\ \E w \in Widths : cell' = [x \in 0 .. (w - 1) |-> Blank]
  /\ sel' = {} /\ objs' = <<>>
  /\ Reset
  /\ UNCHANGED <<undo, drag, made>>

\* change_map_size copies the tiles both maps have, and none of the objects
Resize ==
  /\ drag = NoDrag
  /\ \E w \in Widths :
       /\ cell' = [x \in 0 .. (w - 1) |-> IF x \in Columns THEN cell[x] ELSE Blank]
       /\ sel' = sel \cap (0 .. (w - 1))
  /\ objs' = <<>>
  /\ Reset
  /\ UNCHANGED <<undo, drag, made>>

Init ==
  /\ \E w \in Widths : cell = [x \in 0 .. (w - 1) |-> Blank]
  /\ sel = {} /\ undo = [i \in 0 .. (MaxUndo - 1) |-> NoRecord]
  /\ pos = 0 /\ start = 0 /\ past = <<>>
  /\ objs = <<>> /\ chosen = None /\ drag = NoDrag /\ made = 0

Tiling == \/ \E x \in Columns, l \in Layers, t \in Tiles \cup {None} : SetTile(x, l, t)
          \/ Undo
          \/ \E x \in Columns : MarkTile(x) \/ Paste(x)
Placing == ObjectClick \/ ObjectDrag \/ Release \/ CopyKey \/ ChooseKey \/ RemoveKey
Next == Tiling \/ Placing \/ NewMap \/ Resize

Spec == Init /\ [][Next]_vars

-----------------------------------------------------------------------------
\* The undo ring holds as many records as there are changes to take back, all
\* on tiles the map has; the chosen object exists.
Undoable == (pos - start) % MaxUndo = Len(past)
RecordsInside == \A i \in 0 .. (MaxUndo - 1) :
                   (i - start) % MaxUndo < (pos - start) % MaxUndo => undo[i].x \in Columns
ChosenExists == chosen \in Picked
RingAgrees == Undoable /\ RecordsInside /\ ChosenExists

\* Undo brings back the tiles as they were before the latest change that was
\* not taken back yet, unless a paste, which leaves no record, came between.
UndoGoesBackStep ==
  Undo => past # <<>> /\ (Last(past) = Unknown \/ cell' = Last(past))
UndoGoesBack == [][UndoGoesBackStep]_vars

\* Making, copying and removing objects moves every position in the list; the
\* target of each object that stays is still the same object, or none if that
\* one is gone.  Only the target command and the dialog of the object aim it.
Denotes(os, o) == IF o.target \in 0 .. (Len(os) - 1) THEN ObjectAt(os, o.target).id ELSE None
Ids(os) == {os[i].id : i \in DOMAIN os}
TargetsFollowStep ==
  (CopyKey \/ RemoveKey \/ ((ObjectClick \/ ObjectDrag) /\ made' > made)) =>
       \A i \in DOMAIN objs, j \in DOMAIN objs' :
         objs[i].id = objs'[j].id =>
           Denotes(objs', objs'[j]) =
             IF Denotes(objs, objs[i]) \in Ids(objs') THEN Denotes(objs, objs[i]) ELSE None
TargetsFollow == [][TargetsFollowStep]_vars

=============================================================================
