---------------------------- MODULE EditControl ----------------------------
(***************************************************************************)
(* The one-line text box of the dialog toolkit (xdialogs/stdctrl.c): the   *)
(* text in its C buffer, the cursor d1, the first character shown d3, the  *)
(* selection d4..d5, and a drag of the mouse, during which the toolkit     *)
(* goes on delivering keys to the same box.                                *)
(* Bytes of the buffer are counted from 0; characters have one width, so   *)
(* the box shows View of them.                                             *)
(***************************************************************************)
EXTENDS Integers, Sequences, FiniteSets, SequencesExt

CONSTANTS Chars,        \* what can be typed
          Nul,          \* the byte that ends a string
          Limit,        \* d2: the number of characters the box accepts
          Spare,        \* bytes of the buffer beyond Limit
          View,         \* characters that fit in the box
          Texts         \* what the owner of the box may put in it

EditAssumption == /\ Limit \in Nat \ {0} /\ View \in Nat \ {0}
                  /\ Spare \in Nat \ {0} /\ Nul \notin Chars
                  /\ \A t \in Texts : t \in Seq(Chars) /\ Len(t) <= Limit

VARIABLES box,          \* [txt, d1, d3, d4, d5]
          drag,         \* NoDrag, or [n, ini]: what the mouse loop remembers
          cut           \* the cut buffer of the display

vars == <<box, drag, cut>>

NoDrag == [n |-> -1, ini |-> -1]
Bytes == 0 .. (Limit + Spare - 1)

\* strlen(txt + from) + from; the buffer never loses its last Nul
EndOf(t, from) == Min({i \in Bytes : i >= from /\ t[i] = Nul} \cup {Limit + Spare})
Size(t) == EndOf(t, 0)

\* the bytes from "from" to the next Nul are moved down to "to"
Pulled(t, from, to) ==
  [i \in Bytes |-> IF i >= to /\ i <= to + EndOf(t, from) - from /\ i + from - to \in Bytes
                   THEN t[i + from - to] ELSE t[i]]

\* the bytes "at" .. num are moved up by one and ch is put in front of them
Pushed(t, at, num, ch) ==
  [i \in Bytes |-> IF i = at THEN ch
                   ELSE IF i > at /\ i <= num + 1 THEN t[i - 1] ELSE t[i]]

Selected(b) == b.d4 < b.d5

DeleteSelection(b) ==
  IF Selected(b)
  THEN [b EXCEPT !.txt = Pulled(b.txt, b.d5, b.d4), !.d1 = b.d4, !.d4 = 0, !.d5 = 0]
  ELSE b

\* Mutant of Scrolled: A cursor that went to the left of the box is not followed.
ScrolledRight(b) == [b EXCEPT !.d3 = IF b.d1 - b.d3 > View THEN b.d1 - View ELSE b.d3]

\* the end of MSG_KEY: the cursor is brought into the box
Scrolled(b) ==
  [b EXCEPT !.d3 = IF b.d1 < b.d3 THEN b.d1
                   ELSE IF b.d1 - b.d3 > View THEN b.d1 - View ELSE b.d3]
Cancelled(b) == [b EXCEPT !.d4 = 0, !.d5 = 0]

\* a printable character; num is the length before the selection went
Inserted(b, num, ch) ==
  Cancelled(Scrolled([b EXCEPT !.txt = Pushed(b.txt, b.d1, num, ch), !.d1 = b.d1 + 1]))
Typed(b, ch) ==
  IF Size(b.txt) >= Limit THEN DeleteSelection(b)
  ELSE Inserted(DeleteSelection(b), Size(b.txt), ch)

\* the bytes the cut buffer gives are typed one by one; a Nul is no key
Struck(b, ch) == IF ch \in Chars THEN Typed(b, ch) ELSE b
Pasted(b, s) ==
  LET n == Min({Len(s), Limit - Size(b.txt)})
      pasted[k \in 0 .. n] == IF k = 0 THEN b ELSE Struck(pasted[k - 1], s[k])
  IN IF Size(b.txt) >= Limit THEN Scrolled(b) ELSE Scrolled(pasted[n])

Moved(b, to) == Cancelled(Scrolled([b EXCEPT !.d1 = to]))

\* XK_BackSpace and XK_Delete: a selection goes first
Rubbed(b) ==
  Cancelled(Scrolled(
    IF Selected(b) THEN DeleteSelection(b)
    ELSE IF b.d1 = 0 THEN b
    ELSE IF b.txt[b.d1 - 1] = Nul THEN [b EXCEPT !.d1 = b.d1 - 1]
    ELSE [b EXCEPT !.txt = Pulled(b.txt, b.d1, b.d1 - 1), !.d1 = b.d1 - 1]))
Deleted(b) ==
  Cancelled(Scrolled(
    IF Selected(b) THEN DeleteSelection(b)
    ELSE IF b.txt[b.d1] = Nul THEN b
    ELSE [b EXCEPT !.txt = Pulled(b.txt, b.d1 + 1, b.d1)]))

\* n characters more are written inside the buffer; what the code does beyond
\* it is undefined, and the model stops there
Room(b, n) == DeleteSelection(b).d1 + n < Limit + Spare

String(s) == [i \in Bytes |-> IF i < Len(s) THEN s[i + 1] ELSE Nul]
Overwritten(t, s) ==
  [i \in Bytes |-> IF i < Len(s) THEN s[i + 1] ELSE IF i = Len(s) THEN Nul ELSE t[i]]

-----------------------------------------------------------------------------
\* MSG_INIT
Init ==
  /\ \E s \in Texts : box = [txt |-> String(s), d1 |-> Len(s), d3 |-> 0, d4 |-> 0, d5 |-> 0]
  /\ drag = NoDrag
  /\ cut = <<>>

TypeKey(ch) == Room(box, 1) /\ box' = Typed(box, ch) /\ UNCHANGED <<drag, cut>>
PasteKey == Room(box, Len(cut)) /\ box' = Pasted(box, cut) /\ UNCHANGED <<drag, cut>>

\* the selection is put in the cut buffer
CopyKey ==
  /\ box' = Scrolled(box)
  /\ cut' = IF Selected(box) THEN [i \in 1 .. (box.d5 - box.d4) |-> box.txt[box.d4 + i - 1]]
            ELSE cut
  /\ UNCHANGED drag

\* Home, Left, Right and End, and Return in a box that it does not close
CursorTo(b) == {0, b.d1, Size(b.txt)}
               \cup (IF b.d1 > 0 THEN {b.d1 - 1} ELSE {})
               \cup (IF b.d1 < Size(b.txt) THEN {b.d1 + 1} ELSE {})
CursorKey == (\E p \in CursorTo(box) : box' = Moved(box, p)) /\ UNCHANGED <<drag, cut>>
BackSpaceKey == Room(box, 0) /\ box' = Rubbed(box) /\ UNCHANGED <<drag, cut>>
DeleteKey == Room(box, 0) /\ box' = Deleted(box) /\ UNCHANGED <<drag, cut>>

\* where a click puts the cursor: the left edge, the end of the text, or a
\* character between them
Clicked(b) ==
  {b.d3} \cup {p \in b.d3 .. Size(b.txt) : p - b.d3 <= View}
  \cup (IF b.d3 > Size(b.txt) THEN {0, Size(b.txt)} ELSE {})
Click ==
  \E p \in Clicked(box) :
    /\ box' = [box EXCEPT !.d1 = p, !.d4 = 0, !.d5 = 0]
    /\ drag' = [n |-> Size(box.txt), ini |-> p]
    /\ UNCHANGED cut

\* the mouse moved with the button down: n is the length at the click
FirstShown(b, n) == IF b.d3 < n THEN b.d3 ELSE n
DragTo(b, n) ==
  {p \in FirstShown(b, n) .. n : p - b.d3 <= View + 2}
  \cup (IF FirstShown(b, n) > 0 THEN {FirstShown(b, n) - 1} ELSE {})
Stretched(b, ini, p) ==
  Scrolled([b EXCEPT !.d1 = p, !.d4 = Min({p, ini}), !.d5 = p + ini - Min({p, ini})])
Drag ==
  /\ drag # NoDrag
  /\ \E p \in DragTo(box, drag.n) : p # box.d1 /\ box' = Stretched(box, drag.ini, p)
  /\ UNCHANGED <<drag, cut>>
Release == drag # NoDrag /\ drag' = NoDrag /\ UNCHANGED <<box, cut>>

\* do_filter() of the file dialog replaces the text under the cursor
Filter ==
  /\ \E s \in Texts : box' = [box EXCEPT !.txt = Overwritten(box.txt, s), !.d1 = Len(s)]
  /\ UNCHANGED <<drag, cut>>

Next == \/ \E ch \in Chars : TypeKey(ch)
        \/ PasteKey \/ CopyKey \/ CursorKey \/ BackSpaceKey \/ DeleteKey
        \/ Click \/ Drag \/ Release \/ Filter

Spec == Init /\ [][Next]_vars

-----------------------------------------------------------------------------
\* The cursor and the selection are places in the text, and the text shown
\* starts at or before the cursor.
Sound(b) == /\ b.d3 <= b.d1 /\ b.d1 <= Size(b.txt)
            /\ b.d4 <= b.d5 /\ b.d5 <= Size(b.txt)

\* The comment over edit_proc: "d1 = position of the cursor in the text".
\* The code leaves it behind the end of the text in three ways: a key during
\* a drag, a selection that survives do_filter(), and a character typed over
\* a selection in a full box, which is dropped without the scrolling.
CursorInText == box.d1 <= Size(box.txt)

\* Whatever is typed, deleted, pasted or dragged, a box whose cursor and
\* selection are in the text stays so, except in the three ways above.
Exposed == \/ drag # NoDrag
           \/ Selected(box) /\ Size(box.txt) >= Limit
           \/ Filter
StaysSoundStep ==
  Sound(box) /\ ~ Exposed => Sound(box')
StaysSound == [][StaysSoundStep]_vars

=============================================================================
