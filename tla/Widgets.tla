------------------------------ MODULE Widgets ------------------------------
(***************************************************************************)
(* The controls of the dialog toolkit that are worked with the mouse or    *)
(* with single keys (xdialogs/stdctrl.c, mapedit/procs.c): a list, a check *)
(* box, a button, a toggle button, a scroll bar and a pop-up menu.  A      *)
(* control is a record; "down" says that its mouse loop is running, and    *)
(* "over" whether the pointer was on it when the loop looked last.         *)
(***************************************************************************)
EXTENDS Integers, Sequences

CONSTANTS Rows,         \* items a list shows (D_AUTOH makes its box fit them)
          Lengths,      \* the numbers of items a list can be filled with
          Parts,        \* divisions of a scroll bar
          Step,         \* its increment
          Menus,        \* menu -> sequence of its items
          Top           \* the menu that is popped up

WidgetsAssumption == /\ Rows \in Nat \ {0} /\ Lengths \subseteq Nat
                     /\ Parts \in Nat \ {0} /\ Step \in Nat \ {0}
                     /\ Top \in DOMAIN Menus
\* an item of Menus is the name of its child menu, or Leaf
Leaf == "leaf"

VARIABLE ctl
vars == <<ctl>>

Least(a, b) == IF a < b THEN a ELSE b
Most(a, b) == IF a > b THEN a ELSE b

-----------------------------------------------------------------------------
\* list_proc: n items, d1 chosen, d2 on top

\* MSG_INIT, and the lines do_filter() sets when the list is filled again
ListOf(n, d1, d2) ==
  [kind |-> "list", n |-> n, down |-> FALSE,
   d1 |-> Most(Least(d1, n - 1), 0), d2 |-> Most(IF d2 >= n - 1 THEN n - 2 ELSE d2, 0)]
Refill(l, n) == [l EXCEPT !.n = n, !.d1 = 0, !.d2 = 0]

\* MSG_DRAW: a list that is longer than its box leaves no rows empty
Drawn(l) == IF l.n > Rows /\ l.d2 > l.n - Rows THEN [l EXCEPT !.d2 = l.n - Rows] ELSE l

HomeOf(l) == Drawn([l EXCEPT !.d1 = 0, !.d2 = 0])
EndOf(l) == Drawn([l EXCEPT !.d1 = l.n - 1, !.d2 = l.n - Rows])
UpFrom(l) ==
  IF l.d1 > 0 THEN Drawn([l EXCEPT !.d1 = l.d1 - 1, !.d2 = Least(l.d2, l.d1 - 1)]) ELSE l
DownFrom(l) ==
  IF l.d1 < l.n - 1
  THEN Drawn([l EXCEPT !.d1 = l.d1 + 1, !.d2 = IF l.d1 + 1 >= l.d2 + Rows THEN l.d2 + 1 ELSE l.d2])
  ELSE l

\* one turn of the mouse loop: the pointer on a row, below or above the box
OnRow(l, r) == IF l.d2 + r < l.n THEN Drawn([l EXCEPT !.d1 = l.d2 + r]) ELSE l
Below(l) == IF l.d2 + Rows < l.n
            THEN Drawn([l EXCEPT !.d2 = l.d2 + 1, !.d1 = l.d2 + Rows]) ELSE l
Above(l) == IF l.d2 > 0 THEN Drawn([l EXCEPT !.d2 = l.d2 - 1, !.d1 = l.d2 - 1]) ELSE l

\* a list whose top is before its first item is drawn with items that do not
\* exist: the program ends there
AList == ctl.kind = "list" /\ ctl.d2 >= 0

ListKey == /\ AList
           /\ ctl' \in {HomeOf(ctl), EndOf(ctl), UpFrom(ctl), DownFrom(ctl)}
ListTurn(l) == {OnRow(l, r) : r \in 0 .. (Rows - 1)} \cup {Below(l), Above(l)}
ListClick == /\ AList
             /\ \E l \in ListTurn(ctl) : ctl' = [l EXCEPT !.down = TRUE]
ListDrag == AList /\ ctl.down /\ ctl' \in ListTurn(ctl)
ListFilled == AList /\ (\E n \in Lengths : ctl' = Refill(ctl, n))

-----------------------------------------------------------------------------
\* check_proc: d1 is shown as the answer would be if the button went up now
CheckOver(c, over) ==
  [c EXCEPT !.over = over, !.d1 = IF over = c.over THEN c.d1 ELSE IF over THEN ~ c.ini ELSE c.ini]
CheckClick ==
  /\ ctl.kind = "check" /\ ~ ctl.down
  /\ \E over \in BOOLEAN :
       ctl' = CheckOver([ctl EXCEPT !.down = TRUE, !.ini = ctl.d1, !.over = FALSE], over)
CheckDrag == ctl.kind = "check" /\ ctl.down /\ (\E over \in BOOLEAN : ctl' = CheckOver(ctl, over))

\* button_proc: the dialog closes if the button was shown pressed at the end
ButtonClick ==
  ctl.kind = "button" /\ ~ ctl.down
  /\ \E over \in BOOLEAN : ctl' = [ctl EXCEPT !.down = TRUE, !.over = over, !.d1 = over]
ButtonDrag ==
  ctl.kind = "button" /\ ctl.down
  /\ \E over \in BOOLEAN : ctl' = [ctl EXCEPT !.over = over, !.d1 = over]
ButtonRelease ==
  ctl.kind = "button" /\ ctl.down
  /\ ctl' = [ctl EXCEPT !.down = FALSE, !.d1 = FALSE, !.closes = ctl.d1]

\* toggle_button_proc: it shows "pressed" while the pointer is on it, and
\* changes only if the button goes up there
ToggleClick ==
  ctl.kind = "toggle" /\ ~ ctl.down
  /\ ctl' = [ctl EXCEPT !.down = TRUE, !.ini = ctl.d1, !.over = TRUE]
ToggleDrag ==
  ctl.kind = "toggle" /\ ctl.down
  /\ \E over \in BOOLEAN : ctl' = [ctl EXCEPT !.over = over, !.d1 = over]
ToggleRelease ==
  ctl.kind = "toggle" /\ ctl.down
  /\ \E over \in BOOLEAN :
       ctl' = [ctl EXCEPT !.down = FALSE, !.over = over, !.d1 = IF over THEN ~ ctl.ini ELSE ctl.ini]

Release == ctl.kind \in {"list", "check", "scroll"} /\ ctl.down /\ ctl' = [ctl EXCEPT !.down = FALSE]

-----------------------------------------------------------------------------
\* hscroll_do_mouse, vscroll_do_mouse: the arrows and the handle; "at" is the
\* end of the bar the loop was started on
Within(d) == Most(Least(d, Parts - 1), 0)
ScrollLess(s) == [s EXCEPT !.d1 = Most(s.d1 - Step, 0)]
\* Mutant of ScrollMore: it stops only when the end has been reached.
ScrollPast(s) == IF s.d1 < Parts - 1 THEN [s EXCEPT !.d1 = s.d1 + Step] ELSE s
ScrollMore(s) == [s EXCEPT !.d1 = Least(s.d1 + Step, Parts - 1)]
ScrollTo(s, d) == [s EXCEPT !.d1 = Within(d)]
ScrollTurn(s, at) ==
  CASE at = "less" -> {s, ScrollLess(s)}
    [] at = "more" -> {s, ScrollMore(s)}
    [] OTHER -> {ScrollTo(s, d) : d \in -1 .. Parts}
ScrollClick ==
  ctl.kind = "scroll" /\ ~ ctl.down
  /\ \E at \in {"less", "more", "handle"} :
       \E s \in ScrollTurn(ctl, at) : ctl' = [s EXCEPT !.down = TRUE, !.at = at]
ScrollDrag == ctl.kind = "scroll" /\ ctl.down /\ ctl' \in ScrollTurn(ctl, ctl.at)

-----------------------------------------------------------------------------
\* do_menu_x: "open" are the menus from the first to the innermost, each with
\* the item the pointer was on in it (0: none)
ItemsOf(m) == Menus[m]
MenuPoint ==
  /\ ctl.kind = "menu" /\ ctl.open # <<>>
  /\ \E i \in 0 .. Len(ItemsOf(ctl.open[Len(ctl.open)])) : ctl' = [ctl EXCEPT !.item = i]

\* the button goes up on an item: a child is popped up, or the item is the
\* answer of every open menu; off the items the innermost menu goes
MenuRelease ==
  /\ ctl.kind = "menu" /\ ctl.open # <<>>
  /\ LET last == ctl.open[Len(ctl.open)]
     IN ctl' = CASE ctl.item = 0 -> [ctl EXCEPT !.open = SubSeq(ctl.open, 1, Len(ctl.open) - 1)]
                 [] ctl.item # 0 /\ ItemsOf(last)[ctl.item] = Leaf ->
                      [ctl EXCEPT !.open = <<>>, !.sel = <<last, ctl.item>>]
                 [] OTHER -> [ctl EXCEPT !.open = Append(ctl.open, ItemsOf(last)[ctl.item]), !.item = 0]

\* the pointer cannot be grabbed: the menu goes away with the value D_O_K,
\* which its caller takes for the first item
MenuNoGrab ==
  /\ ctl.kind = "menu" /\ ctl.open # <<>>
  /\ ctl' = [ctl EXCEPT !.open = <<>>, !.sel = <<ctl.open[Len(ctl.open)], 1>>]

-----------------------------------------------------------------------------
Init ==
  \/ \E n \in Lengths : ctl = ListOf(n, 0, 0)
  \/ \E on \in BOOLEAN : ctl = [kind |-> "check", d1 |-> on, ini |-> on, over |-> FALSE, down |-> FALSE]
  \/ ctl = [kind |-> "button", d1 |-> FALSE, over |-> FALSE, down |-> FALSE, closes |-> FALSE]
  \/ \E on \in BOOLEAN : ctl = [kind |-> "toggle", d1 |-> on, ini |-> on, over |-> FALSE, down |-> FALSE]
  \/ \E d \in -1 .. Parts : ctl = [kind |-> "scroll", d1 |-> Within(d), at |-> "handle", down |-> FALSE]
  \/ ctl = [kind |-> "menu", open |-> <<Top>>, item |-> 0, sel |-> <<>>]

Next == \/ ListKey \/ ListClick \/ ListDrag \/ ListFilled
        \/ CheckClick \/ CheckDrag \/ ButtonClick \/ ButtonDrag \/ ButtonRelease
        \/ ToggleClick \/ ToggleDrag \/ ToggleRelease \/ Release
        \/ ScrollClick \/ ScrollDrag
        \/ MenuPoint \/ MenuRelease \/ MenuNoGrab

Spec == Init /\ [][Next]_vars

-----------------------------------------------------------------------------
\* The chosen item of a list exists and is one of the rows drawn, whatever
\* mixture of keys, drags beyond the edges and refills came before.
ChoiceShown == ctl.kind = "list" /\ ctl.n > 0 =>
                 ctl.d1 \in 0 .. (ctl.n - 1) /\ ctl.d1 \in ctl.d2 .. (ctl.d2 + Rows - 1)

\* A scroll bar stands on one of its divisions.
OnADivision == ctl.kind = "scroll" => ctl.d1 \in 0 .. (Parts - 1)

\* A check box or a toggle button let go off its area is as it was before.
LetGo == ctl.kind \in {"check", "toggle"} /\ ~ ctl.down /\ ~ ctl.over => ctl.d1 = ctl.ini

ControlsAgree == ChoiceShown /\ OnADivision /\ LetGo

\* The comment over list_proc: "d2 = index of item at the top of the list".
\* XK_End in a list that is shorter than its box makes it negative, and the
\* drawing that follows asks for the items before the first.
TopIsItem == ctl.kind = "list" /\ ctl.n > 0 => ctl.d2 \in 0 .. (ctl.n - 1)

=============================================================================
