------------------------------ MODULE MapFile ------------------------------
(***************************************************************************)
(* The file of a map: the editor writes it (mapedit/map.c), the editor,    *)
(* the server (server/map.c) and the client (client/map.c) read it, each   *)
(* with a reader of its own that takes other parts and skips the rest.     *)
(* The file is a sequence of bytes with Base values, a number two or four  *)
(* of them.  A row of cells stands for the map, and two of the eight       *)
(* numbers of an object (the others go the same way) for all.              *)
(***************************************************************************)
EXTENDS Integers, Sequences, SequencesExt

CONSTANTS Base,         \* values of a byte
          TextLen,      \* ITEM_TEXT_LEN, the room for the text of an object
          Editor,       \* names of the objects the editor knows, by number
          Server,       \* names of the objects the server knows, by number
          Maps          \* maps that can be made: [cells, objs]

TextNumber == 7         \* MAP_MAP_TEXT, scaled
Half == Base * Base     \* the values of a short
Cell == [back : Int, fore : Int, block : Int]
Text == Seq(1 .. Base - 1)
Object == [npc : DOMAIN Editor, x : Int, target : Int, text : Text]

\* a text is shorter than its room, and the counts fit their fields
Fits(m) == /\ m \in [cells : Seq(Cell), objs : Seq(Object)]
           /\ Len(m.cells) < Half /\ Len(m.objs) < Half
           /\ \A i \in DOMAIN m.objs : Len(m.objs[i].text) < TextLen
MapFileAssumption ==
  /\ Base \in Nat /\ Base > 3
  /\ TextLen \in Nat /\ TextLen % 2 = 0 /\ TextLen + 4 < Half
  /\ Editor \in Seq(STRING) /\ Len(Editor) < TextNumber
  /\ \A i, j \in DOMAIN Editor : Editor[i] = Editor[j] => i = j
  /\ \A m \in Maps : Fits(m)

VARIABLES saved,        \* the map that was written last
          file          \* its bytes

vars == <<saved, file>>

NoFile == <<>>
NoTarget == -1

-----------------------------------------------------------------------------
\* Numbers: write_short cuts a number off, read_short gives it back signed

Short(v) == <<v % Base, (v \div Base) % Base>>
IntOf(v) == Short(v) \o Short(v \div Half)
\* fgetc after the end of the file gives -1
ByteAt(f, at) == IF at <= Len(f) THEN f[at] ELSE Base - 1
RawAt(f, at) == ByteAt(f, at) + Base * ByteAt(f, at + 1)
ShortAt(f, at) == IF 2 * RawAt(f, at) < Half THEN RawAt(f, at) ELSE RawAt(f, at) - Half
IntAt(f, at) == RawAt(f, at) + Half * ShortAt(f, at + 2)
Wrapped(v) == ShortAt(Short(v), 1)

-----------------------------------------------------------------------------
\* write_map

Bytes(seqs) == FlattenSeq(seqs)

\* a name is its number in Editor; only its length matters for the bytes
NameBytes(n) == <<1, n>>
NumberOf(n) == IF Editor[n] = "text" THEN TextNumber ELSE n
Entry(n) == Short(NumberOf(n)) \o NameBytes(n)
Dictionary == Bytes([n \in DOMAIN Editor |-> Entry(n)])
WriteDict == IntOf(2 + Len(Dictionary)) \o Short(Len(Editor)) \o Dictionary

\* Mutant of Evened: A text of an odd length is not filled up.
EvenedNot(t) == t

Evened(t) == IF Len(t) % 2 = 0 THEN t ELSE Append(t, 0)
WriteObject(o) ==
  IF Editor[o.npc] = "text"
  THEN Short(1 + (1 + Len(o.text)) \div 2) \o Short(TextNumber) \o Evened(o.text)
  ELSE Short(3) \o Short(o.npc) \o Short(o.x) \o Short(o.target)
WriteObjects(objs) == IntOf(Len(objs)) \o Bytes([i \in DOMAIN objs |-> WriteObject(objs[i])])
WriteCell(c) == Short(c.back) \o Short(c.fore) \o Short(c.block)
WriteCells(cells) == Bytes([i \in DOMAIN cells |-> WriteCell(cells[i])])
Header(m) == <<1, 1>> \o IntOf(Len(m.cells))
WriteMap(m) == Header(m) \o WriteDict \o WriteObjects(m.objs) \o WriteCells(m.cells)

-----------------------------------------------------------------------------
\* Reading.  A reader is a record with the place it has got to

\* read_string of author, comment and tiles, which are one here
AfterHeader(f) == 2 + ByteAt(f, 1) + 4
WidthOf(f) == IntAt(f, 2 + ByteAt(f, 1))

\* read_npc_dict, and the skipping of what the extension has more
DictAt(f) == AfterHeader(f) + 6
DictSize(f) == ShortAt(f, AfterHeader(f) + 4)
DictOf(f) == [i \in 1 .. DictSize(f) |->
                LET at == DictAt(f) + 4 * (i - 1) IN [number |-> ShortAt(f, at), name |-> Editor[ByteAt(f, at + 3)]]]
AfterDict(f) == AfterHeader(f) + 4 + IntAt(f, AfterHeader(f))

\* search_npc_dict, search_npc_name: the number a reader has for the name
FirstOf(set) == CHOOSE i \in set : \A j \in set : i <= j
ByName(names, name) ==
  LET at == {i \in DOMAIN names : names[i] = name} IN IF at = {} THEN -1 ELSE FirstOf(at)
SearchDict(names, dict, number) ==
  LET at == {i \in DOMAIN dict : dict[i].number = number}
  IN IF at = {} THEN -1 ELSE ByName(names, dict[FirstOf(at)].name)
ItemStart == 1
Known(npc) == IF npc < 0 THEN ItemStart ELSE npc

\* the text up to its end; one that fills the room loses its last character,
\* and its reader takes a byte of the next object
UpToEnd(t) == IF 0 \in ToSet(t) THEN SubSeq(t, 1, FirstOf({i \in DOMAIN t : t[i] = 0}) - 1) ELSE t
TextBytes(size) == (size - 1) * 2
TextAt(f, at, n) == UpToEnd([i \in 1 .. (IF n > TextLen THEN TextLen - 1 ELSE n) |-> ByteAt(f, at + i - 1)])
TextTaken(n) == IF n > TextLen THEN n + 1 ELSE n

\* read_object, the editor's and the server's
ReadObject(names, f, dict, at, size) ==
  LET number == ShortAt(f, at)
      npc == Known(SearchDict(names, dict, number))
  IN IF number = TextNumber
     THEN [npc |-> npc, x |-> 0, target |-> NoTarget, text |-> TextAt(f, at + 2, TextBytes(size))]
     ELSE [npc |-> npc, x |-> ShortAt(f, at + 2), target |-> ShortAt(f, at + 4), text |-> <<>>]
Taken(f, at, size) ==
  IF ShortAt(f, at) = TextNumber THEN 2 + TextTaken(TextBytes(size)) ELSE 2 * size
NextObject(names, f, dict, r) ==
  LET size == ShortAt(f, r.at)
  IN [at |-> r.at + 2 + Taken(f, r.at + 2, size),
      objs |-> Append(r.objs, ReadObject(names, f, dict, r.at + 2, size))]
Count(f) == IntAt(f, AfterDict(f))
ReadObjects(names, f) ==
  LET read[i \in 0 .. Count(f)] ==
        IF i = 0 THEN [at |-> AfterDict(f) + 4, objs |-> <<>>]
        ELSE NextObject(names, f, DictOf(f), read[i - 1])
  IN read[Count(f)]

CellsAt(f, at) ==
  [i \in 1 .. WidthOf(f) |-> LET p == at + 6 * (i - 1)
                             IN [back |-> ShortAt(f, p), fore |-> ShortAt(f, p + 2), block |-> ShortAt(f, p + 4)]]
\* read_map of the editor, srv_read_map, which keeps the blocks only and of
\* them a char, and read_map of the client, which skips the objects by their
\* sizes
CharOf(v) == IF 2 * (v % Base) < Base THEN v % Base ELSE (v % Base) - Base
EditorReads(f) == LET r == ReadObjects(Editor, f) IN [cells |-> CellsAt(f, r.at), objs |-> r.objs]
ServerReads(f) ==
  LET r == ReadObjects(Server, f)
  IN [blocks |-> [i \in 1 .. WidthOf(f) |-> CharOf(CellsAt(f, r.at)[i].block)], objs |-> r.objs]
SkipObject(f, at) == at + 2 + 2 * ShortAt(f, at)
ClientReads(f) ==
  LET skipped[i \in 0 .. Count(f)] ==
        IF i = 0 THEN AfterDict(f) + 4 ELSE SkipObject(f, skipped[i - 1])
  IN CellsAt(f, skipped[Count(f)])

-----------------------------------------------------------------------------
Init == saved \in Maps /\ file = NoFile

Save == \E m \in Maps : saved' = m /\ file' = WriteMap(m)
\* the map is opened, and written again as it was read
SaveAgain == file # NoFile /\ saved' = EditorReads(file) /\ file' = WriteMap(saved')

Next == Save \/ SaveAgain
Spec == Init /\ [][Next]_vars

-----------------------------------------------------------------------------
\* What a file keeps of a map: numbers as far as they fit, of a text object
\* the text alone, of the others everything else; the server has the same
\* objects under its own numbers.
KeptCell(c) == [back |-> Wrapped(c.back), fore |-> Wrapped(c.fore), block |-> Wrapped(c.block)]
KeptObject(o) ==
  IF Editor[o.npc] = "text" THEN [o EXCEPT !.x = 0, !.target = NoTarget]
  ELSE [o EXCEPT !.x = Wrapped(@), !.target = Wrapped(@), !.text = <<>>]
Kept(m) == [cells |-> [i \in DOMAIN m.cells |-> KeptCell(m.cells[i])],
            objs |-> [i \in DOMAIN m.objs |-> KeptObject(m.objs[i])]]
Renamed(o) == [o EXCEPT !.npc = Known(ByName(Server, Editor[@]))]

ReadersAgree == file # NoFile =>
  /\ EditorReads(file) = Kept(saved)
  /\ ServerReads(file).objs = [i \in DOMAIN saved.objs |-> Renamed(Kept(saved).objs[i])]
  /\ ServerReads(file).blocks = [i \in DOMAIN saved.cells |-> CharOf(saved.cells[i].block)]
  /\ ClientReads(file) = Kept(saved).cells

=============================================================================
